------------------------------ MODULE EdgeVitals ------------------------------
(***************************************************************************)
(* What the DSP task of main/edge_processing.c decides from one CSI frame  *)
(* to the next (process_frame): the presence flag, the person count, the   *)
(* fall flag, and the vitals packet that reports them.                     *)
(*                                                                         *)
(* A frame is reduced to what the decisions read of it: the presence score *)
(* against the two thresholds, whether the phase acceleration is above     *)
(* fall_thresh, the number of subcarrier groups and how many of them the   *)
(* energy gate counts.  The filters, the rates and the calibration that    *)
(* moves the threshold only choose among these, so every choice is open.   *)
(* Time advances by any amount up to MaxGap between two frames; an age     *)
(* stops counting once its comparison is decided.                          *)
(***************************************************************************)
EXTENDS Naturals

CONSTANTS
  ClearFrames,   \* EDGE_PRESENCE_CLEAR_FRAMES, 5
  PersistFrames, \* EDGE_PERSON_PERSIST_FRAMES, 3
  ConsecMin,     \* EDGE_FALL_CONSEC_MIN, 3
  CountMax,      \* the largest value of the uint8_t counters, 255
  MaxPersons,    \* EDGE_MAX_PERSONS, 4
  FallHistory,   \* phases needed before the fall step, 3
  MotionHistory, \* phases needed before a motion energy, 10
  Cooldown,      \* EDGE_FALL_COOLDOWN_MS
  Interval,      \* vital_interval_ms
  MaxGap         \* bound: time between two frames

ASSUME FrameCountsAssumption ==
  /\ ClearFrames \in Nat \ {0} /\ PersistFrames \in Nat \ {0} /\ ConsecMin \in Nat \ {0}
  /\ CountMax \in Nat /\ ClearFrames <= CountMax /\ PersistFrames <= CountMax
  /\ MaxPersons \in Nat
  /\ FallHistory \in Nat /\ MotionHistory \in Nat /\ FallHistory <= MotionHistory
ASSUME TimesAssumption == Cooldown \in Nat /\ Interval \in Nat /\ MaxGap \in Nat

VARIABLES
  history,                     \* s_history_len, up to MotionHistory
  presence, below,             \* s_presence_detected, s_presence_below_count
  candidate, streak, stable,   \* s_person_count_*
  active,                      \* how many s_persons are active
  fall, consec, alertAge,      \* s_fall_detected, s_fall_consec_count, now - s_fall_last_alert_us
  sendAge, valid, pkt,         \* now - s_last_vitals_send_us, s_pkt_valid, s_latest_pkt
  lowRun, lastRaw, rawRun,     \* history: low scores in a row, the last raw count and its run
  alerted, hiRun, calm         \* history: see Spent and Seen

presenceVars == <<presence, below, lowRun>>
personVars == <<candidate, streak, stable, active, lastRaw, rawRun>>
fallVars == <<fall, consec, alertAge, alerted, hiRun, calm>>
packetVars == <<sendAge, valid, pkt>>
vars == <<history, presenceVars, personVars, fallVars, packetVars>>

Least(a, b) == IF a < b THEN a ELSE b

Init ==
  /\ history = 0
  /\ presence = FALSE /\ below = 0 /\ lowRun = 0
  /\ candidate = 0 /\ streak = 0 /\ stable = 0 /\ active = 0 /\ lastRaw = 0 /\ rawRun = 0
  /\ fall = FALSE /\ consec = 0 /\ alertAge \in 0..Cooldown
  /\ alerted = FALSE /\ hiRun = 0 /\ calm = TRUE
  /\ sendAge \in 0..Interval /\ valid = FALSE
  /\ pkt = [presence |-> FALSE, fall |-> FALSE, persons |-> 0]

Remember == history' = Least(history + 1, MotionHistory)

-----------------------------------------------------------------------------
(* Step 9: presence_flag_update.                                           *)

(* Mutant: the dead band does not restart the clear debounce.              *)
ScoreBetweenKeepsCount == UNCHANGED <<presence, below>>

(* Between the thresholds the flag is held.                                *)
ScoreBetween == below' = 0 /\ UNCHANGED presence

ScoreHigh == below' = 0 /\ presence' = TRUE

(* Mutant: the count is compared with > instead of >=.                     *)
ScoreLowLate ==
  LET n == Least(below + 1, CountMax) IN
  \/ presence /\ n > ClearFrames /\ presence' = FALSE /\ below' = 0
  \/ ~(presence /\ n > ClearFrames) /\ UNCHANGED presence /\ below' = n

ScoreLow ==
  LET n == Least(below + 1, CountMax) IN
  \/ presence /\ n >= ClearFrames /\ presence' = FALSE /\ below' = 0
  \/ ~(presence /\ n >= ClearFrames) /\ UNCHANGED presence /\ below' = n

(* Until MotionHistory phases are known the score is still 0.              *)
PresenceStep(score) ==
  /\ \/ score = "high" /\ history' = MotionHistory /\ ScoreHigh
     \/ score = "between" /\ history' = MotionHistory /\ ScoreBetween
     \/ score = "low" /\ ScoreLow
  /\ lowRun' = IF score = "low" THEN Least(lowRun + 1, ClearFrames) ELSE 0

-----------------------------------------------------------------------------
(* Step 10: the fall detector.                                             *)

FallCount(above) == IF above THEN (consec + 1) % (CountMax + 1) ELSE 0

Alert(above, gap) ==
  /\ history' >= FallHistory
  /\ FallCount(above) >= ConsecMin
  /\ alertAge + gap >= Cooldown

(* hiRun: frames above the threshold in a row that no alert has used.      *)
(* calm: a frame was below it since the last alert.                        *)
Spent == alerted' = TRUE /\ hiRun' = 0 /\ calm' = FALSE

Seen(above) ==
  /\ alerted' = FALSE
  /\ hiRun' = IF above THEN Least(hiRun + 1, ConsecMin) ELSE 0
  /\ calm' = IF above THEN calm ELSE TRUE

(* Mutant: an alert leaves the counter where it is.                        *)
RaiseAlertKeepsCount(above) ==
  /\ fall' = TRUE /\ alertAge' = 0
  /\ consec' = FallCount(above)
  /\ Spent

RaiseAlert(above) ==
  /\ fall' = TRUE /\ alertAge' = 0 /\ consec' = 0
  /\ Spent

(* Without an alert the flag falls as soon as the counter is at 0.         *)
NoAlert(above, gap) ==
  /\ consec' = FallCount(above)
  /\ alertAge' = Least(alertAge + gap, Cooldown)
  /\ fall' = IF FallCount(above) = 0 THEN FALSE ELSE fall
  /\ Seen(above)

TooEarly(gap) ==
  /\ history' < FallHistory
  /\ alertAge' = Least(alertAge + gap, Cooldown)
  /\ alerted' = FALSE
  /\ UNCHANGED <<fall, consec, hiRun, calm>>

FallStep(above, gap) ==
  \/ Alert(above, gap) /\ RaiseAlert(above)
  \/ history' >= FallHistory /\ ~Alert(above, gap) /\ NoAlert(above, gap)
  \/ TooEarly(gap)

-----------------------------------------------------------------------------
(* Step 11: person_count_debounce on the gated count, then the groups that *)
(* are marked active.                                                      *)

Agrees(raw) ==
  /\ raw = stable
  /\ candidate' = raw /\ streak' = 0 /\ UNCHANGED stable

Settle(raw, n) ==
  /\ raw # stable
  /\ candidate' = raw
  /\ \/ n >= PersistFrames /\ stable' = raw /\ streak' = 0
     \/ n < PersistFrames /\ UNCHANGED stable /\ streak' = n

(* Mutant: a new candidate inherits the streak of the one it replaces.     *)
DebounceInherits(raw) == Agrees(raw) \/ Settle(raw, Least(streak + 1, CountMax))

(* Mutant: the first frame of a new candidate is not counted.              *)
DebounceForgets(raw) ==
  Agrees(raw) \/ Settle(raw, IF raw = candidate THEN Least(streak + 1, CountMax) ELSE 0)

Debounce(raw) ==
  Agrees(raw) \/ Settle(raw, IF raw = candidate THEN Least(streak + 1, CountMax) ELSE 1)

(* groups is 0 while fewer than two subcarriers are selected: no decision. *)
PersonStep(groups, raw) ==
  IF groups = 0
  THEN UNCHANGED personVars
  ELSE /\ Debounce(raw)
       /\ active' = Least(stable', groups)
       /\ lastRaw' = raw
       /\ rawRun' = IF raw = lastRaw THEN Least(rawRun + 1, PersistFrames) ELSE 1

-----------------------------------------------------------------------------
(* Step 13: send_vitals_packet at the configured interval.                 *)

PacketStep(gap) ==
  LET age == Least(sendAge + gap, Interval)
      sends == age >= Interval
  IN  /\ sendAge' = IF sends THEN 0 ELSE age
      /\ valid' = (valid \/ sends)
      /\ pkt' = IF sends THEN [presence |-> presence', fall |-> fall', persons |-> active']
                ELSE pkt

-----------------------------------------------------------------------------

Frame(score, above, groups, raw, gap) ==
  /\ Remember
  /\ PresenceStep(score)
  /\ FallStep(above, gap)
  /\ PersonStep(groups, raw)
  /\ PacketStep(gap)

Next ==
  \E score \in {"high", "between", "low"}, above \in BOOLEAN, gap \in 0..MaxGap :
    \E groups \in 0..MaxPersons : \E raw \in 0..groups :
      Frame(score, above, groups, raw, gap)

Spec == Init /\ [][Next]_vars

-----------------------------------------------------------------------------

Counts == 0..MaxPersons

TypeOK ==
  /\ history \in 0..MotionHistory
  /\ presence \in BOOLEAN /\ below \in 0..CountMax /\ lowRun \in 0..ClearFrames
  /\ candidate \in Counts /\ stable \in Counts /\ active \in Counts /\ lastRaw \in Counts
  /\ streak \in 0..CountMax /\ rawRun \in 0..PersistFrames
  /\ fall \in BOOLEAN /\ consec \in 0..CountMax /\ alertAge \in 0..Cooldown
  /\ alerted \in BOOLEAN /\ hiRun \in 0..ConsecMin /\ calm \in BOOLEAN
  /\ sendAge \in 0..Interval /\ valid \in BOOLEAN
  /\ pkt \in [presence : BOOLEAN, fall : BOOLEAN, persons : Counts]

(* The presence flag never flickers: it drops only with the ClearFrames-th *)
(* low score in a row, however the score dithered before (issue #996).     *)
AbsenceIsSustained == [][presence /\ ~presence' => lowRun' = ClearFrames]_vars

(* And it does drop: no run of ClearFrames low scores leaves it up.        *)
SustainedAbsenceClears == lowRun = ClearFrames => ~presence

(* The person count changes only to a value the last PersistFrames         *)
(* decisions agreed on (issue #998).                                       *)
CountIsPersistent ==
  [][stable' # stable => rawRun' = PersistFrames /\ lastRaw' = stable']_vars

(* And it follows: a value that PersistFrames decisions agreed on is the   *)
(* count, whatever candidates came and went before.                        *)
LastingCountWins == rawRun = PersistFrames => stable = lastRaw

(* Every fall alert has ConsecMin consecutive frames of its own: none of   *)
(* them served an earlier alert, and none is from before a calm frame      *)
(* (issue #263).                                                           *)
AlertHasOwnEvidence == [][alerted' => hiRun >= ConsecMin - 1]_vars

(* The fall flag never outlives the fall: it is down from the first calm   *)
(* frame after the alert.                                                  *)
FlagEndsWithTheFall == fall => ~calm
=============================================================================

-------------------------- MODULE EdgeVitals_proofs --------------------------
(***************************************************************************)
(* The debouncers of edge_processing.c keep their promises for every       *)
(* threshold, every counter width that holds them and every stream of      *)
(* frames.                                                                 *)
(*                                                                         *)
(* Each invariant ties a counter of the code to the history it stands for: *)
(* below to the run of low scores while the flag is up, candidate and      *)
(* streak to the last raw count and its run while that count is not the    *)
(* stable one, and consec, which an alert clears and which may wrap, to at *)
(* most the unused frames above the threshold.                             *)
(*                                                                         *)
(* The vitals packet carries what the mmWave sensor reports, when one is   *)
(* there (edge_processing.c, send_vitals_packet); the second half of       *)
(* the module is about its parsers.  The invariant there says how many     *)
(* bytes a parser can still read before it looks for a start, and that     *)
(* frames without a start inside them bring it there byte by byte.         *)
(***************************************************************************)
EXTENDS EdgeVitals, MmwaveSensor, TLAPS

LEMMA LeastIsNat ==
  ASSUME NEW a \in Nat, NEW b \in Nat
  PROVE  /\ Least(a, b) \in 0..b /\ Least(a, b) <= a
         /\ Least(a, b) = a \/ Least(a, b) = b
BY DEF Least

(* A counter of uint8_t goes up by one or back to 0.                       *)
LEMMA WrapStays ==
  ASSUME NEW n \in 0..CountMax
  PROVE  /\ (n + 1) % (CountMax + 1) \in 0..CountMax
         /\ (n + 1) % (CountMax + 1) <= n + 1
<1>1. CountMax \in Nat
  BY FrameCountsAssumption
<1>2. CASE n < CountMax
  BY <1>1, <1>2, Z3
<1>3. CASE n = CountMax
  BY <1>1, <1>3, Z3
<1> QED BY <1>1, <1>2, <1>3

-----------------------------------------------------------------------------
(* Presence.                                                               *)

PresenceInv ==
  /\ history \in 0..MotionHistory
  /\ below \in 0..CountMax /\ lowRun \in 0..ClearFrames
  /\ presence => below = lowRun /\ lowRun < ClearFrames

LEMMA PresenceInit == Init => PresenceInv
BY FrameCountsAssumption DEF Init, PresenceInv

(* The step keeps the invariant, and a flag that drops had its run.        *)
LEMMA PresenceKept ==
  ASSUME PresenceInv, Remember, NEW score, PresenceStep(score)
  PROVE  PresenceInv' /\ (presence /\ ~presence' => lowRun' = ClearFrames)
<1> USE FrameCountsAssumption DEF PresenceInv
<1>1. history' \in 0..MotionHistory
  BY DEF Remember, Least
<1>2. CASE score = "high" /\ ScoreHigh
  BY <1>1, <1>2 DEF PresenceStep, ScoreHigh
<1>3. CASE score = "between" /\ ScoreBetween
  BY <1>1, <1>3 DEF PresenceStep, ScoreBetween
<1>4. CASE score = "low" /\ ScoreLow
  <2> DEFINE n == Least(below + 1, CountMax)
  <2>1. n \in 0..CountMax /\ (below < CountMax => n = below + 1)
    BY DEF Least
  <2>2. \/ presence /\ n >= ClearFrames /\ presence' = FALSE /\ below' = 0
        \/ ~(presence /\ n >= ClearFrames) /\ presence' = presence /\ below' = n
    BY <1>4 DEF ScoreLow
  <2>3. lowRun' \in 0..ClearFrames /\ (lowRun < ClearFrames => lowRun' = lowRun + 1)
    BY <1>4 DEF PresenceStep, Least
  <2> HIDE DEF n
  <2> QED BY <1>1, <2>1, <2>2, <2>3
<1> QED BY <1>2, <1>3, <1>4 DEF PresenceStep

-----------------------------------------------------------------------------
(* The person count.                                                       *)

PersonInv ==
  /\ candidate \in Counts /\ stable \in Counts /\ active \in Counts /\ lastRaw \in Counts
  /\ streak \in 0..CountMax /\ rawRun \in 0..PersistFrames
  /\ candidate = lastRaw
  /\ stable # lastRaw => streak = rawRun /\ rawRun < PersistFrames

LEMMA PersonInit == Init => PersonInv
BY FrameCountsAssumption DEF Init, PersonInv, Counts

(* The step keeps the invariant, and a count that changes was agreed on.   *)
LEMMA PersonKept ==
  ASSUME PersonInv, NEW groups \in 0..MaxPersons, NEW raw \in 0..groups,
         PersonStep(groups, raw)
  PROVE  /\ PersonInv'
         /\ stable' # stable => rawRun' = PersistFrames /\ lastRaw' = stable'
<1> USE FrameCountsAssumption DEF PersonInv, Counts
<1>1. CASE groups = 0
  BY <1>1 DEF PersonStep, personVars
<1>2. CASE groups # 0
  <2>1. /\ Debounce(raw)
        /\ active' = Least(stable', groups)
        /\ lastRaw' = raw
        /\ rawRun' = IF raw = lastRaw THEN Least(rawRun + 1, PersistFrames) ELSE 1
    BY <1>2 DEF PersonStep
  <2>2. raw \in 0..MaxPersons
    OBVIOUS
  <2>3. CASE Agrees(raw)
    BY <2>1, <2>2, <2>3 DEF Agrees, Least
  <2>4. CASE raw = candidate /\ Settle(raw, Least(streak + 1, CountMax))
    BY <2>1, <2>2, <2>4 DEF Settle, Least
  <2>5. CASE raw # candidate /\ Settle(raw, 1)
    BY <2>1, <2>2, <2>5 DEF Settle, Least
  <2> QED BY <2>1, <2>3, <2>4, <2>5 DEF Debounce
<1> QED BY <1>1, <1>2

-----------------------------------------------------------------------------
(* Falls.                                                                  *)

FallInv ==
  /\ consec \in 0..CountMax /\ alertAge \in 0..Cooldown
  /\ hiRun \in 0..ConsecMin
  /\ consec <= hiRun \/ hiRun = ConsecMin
  /\ fall => ~calm

LEMMA FallInit == Init => FallInv
BY FrameCountsAssumption, TimesAssumption DEF Init, FallInv

(* The step keeps the invariant, and an alert had its evidence.            *)
LEMMA FallKept ==
  ASSUME FallInv, NEW above \in BOOLEAN, NEW gap \in 0..MaxGap, FallStep(above, gap)
  PROVE  FallInv' /\ (alerted' => hiRun >= ConsecMin - 1)
<1> USE FrameCountsAssumption, TimesAssumption DEF FallInv
<1>1. FallCount(above) \in 0..CountMax /\ FallCount(above) <= consec + 1
  BY WrapStays DEF FallCount
<1>2. ~above => FallCount(above) = 0
  BY DEF FallCount
<1>3. CASE Alert(above, gap) /\ RaiseAlert(above)
  BY <1>1, <1>3 DEF Alert, RaiseAlert, Spent
<1>4. CASE NoAlert(above, gap)
  <2>1. alertAge' \in 0..Cooldown
    BY <1>4 DEF NoAlert, Least
  <2>2. CASE above
    <3>1. /\ hiRun' \in 0..ConsecMin
          /\ hiRun' = ConsecMin \/ hiRun' = hiRun + 1
      BY <1>4, <2>2 DEF NoAlert, Seen, Least
    <3>2. consec' = FallCount(above)
      BY <1>4 DEF NoAlert
    <3>3. consec' <= hiRun' \/ hiRun' = ConsecMin
      <4>1. CASE hiRun = ConsecMin
        BY <3>1, <4>1
      <4>2. CASE consec <= hiRun
        BY <1>1, <3>1, <3>2, <4>2
      <4> QED BY <4>1, <4>2
    <3>4. alerted' = FALSE /\ calm' = calm /\ (fall' => fall)
      BY <1>4, <2>2 DEF NoAlert, Seen
    <3> QED BY <1>1, <2>1, <3>1, <3>2, <3>3, <3>4
  <2>3. CASE ~above
    BY <1>1, <1>2, <1>4, <2>1, <2>3 DEF NoAlert, Seen
  <2> QED BY <2>2, <2>3
<1>5. CASE TooEarly(gap)
  BY <1>5 DEF TooEarly, Least
<1> QED BY <1>3, <1>4, <1>5 DEF FallStep

-----------------------------------------------------------------------------
(* The specification.                                                      *)

DebounceInv == PresenceInv /\ PersonInv /\ FallInv

(* A step keeps the three invariants and changes the flags only on the     *)
(* evidence they ask for.                                                  *)
LEMMA StepIsSound ==
  ASSUME DebounceInv, [Next]_vars
  PROVE  /\ DebounceInv'
         /\ ~UNCHANGED vars =>
              /\ presence /\ ~presence' => lowRun' = ClearFrames
              /\ stable' # stable => rawRun' = PersistFrames /\ lastRaw' = stable'
              /\ alerted' => hiRun >= ConsecMin - 1
<1>1. CASE Next
  <2>1. PICK score \in {"high", "between", "low"}, above \in BOOLEAN, gap \in 0..MaxGap,
             groups \in 0..MaxPersons : \E raw \in 0..groups :
               Frame(score, above, groups, raw, gap)
    BY <1>1 DEF Next
  <2>2. PICK raw \in 0..groups : Frame(score, above, groups, raw, gap)
    BY <2>1
  <2>3. /\ Remember /\ PresenceStep(score) /\ FallStep(above, gap)
        /\ PersonStep(groups, raw)
    BY <2>2 DEF Frame
  <2>4. PresenceInv' /\ (presence /\ ~presence' => lowRun' = ClearFrames)
    BY <2>3, PresenceKept DEF DebounceInv
  <2>5. /\ PersonInv'
        /\ stable' # stable => rawRun' = PersistFrames /\ lastRaw' = stable'
    BY <2>3, PersonKept DEF DebounceInv
  <2>6. FallInv' /\ (alerted' => hiRun >= ConsecMin - 1)
    BY <2>3, FallKept DEF DebounceInv
  <2> QED BY <2>4, <2>5, <2>6 DEF DebounceInv
<1>2. CASE UNCHANGED vars
  <2>1. PresenceInv'
    BY <1>2 DEF DebounceInv, PresenceInv, vars, presenceVars
  <2>2. PersonInv'
    BY <1>2 DEF DebounceInv, PersonInv, vars, personVars
  <2>3. FallInv'
    BY <1>2 DEF DebounceInv, FallInv, vars, fallVars
  <2> QED BY <1>2, <2>1, <2>2, <2>3 DEF DebounceInv
<1> QED BY <1>1, <1>2

LEMMA DebounceInvariant == Spec => []DebounceInv
<1>1. Init => DebounceInv
  BY PresenceInit, PersonInit, FallInit DEF DebounceInv
<1>2. DebounceInv /\ [Next]_vars => DebounceInv'
  BY StepIsSound
<1> QED BY <1>1, <1>2, PTL DEF Spec

(* The flags, and the packet that carries them.                            *)
FlagsInv ==
  /\ presence \in BOOLEAN /\ fall \in BOOLEAN /\ alerted \in BOOLEAN /\ calm \in BOOLEAN
  /\ valid \in BOOLEAN

PacketInv ==
  /\ sendAge \in 0..Interval
  /\ pkt \in [presence : BOOLEAN, fall : BOOLEAN, persons : Counts]

LEMMA FlagsKept ==
  ASSUME FlagsInv, [Next]_vars
  PROVE  FlagsInv'
<1>1. CASE Next
  <2>1. PICK score \in {"high", "between", "low"}, above \in BOOLEAN, gap \in 0..MaxGap,
             groups \in 0..MaxPersons : \E raw \in 0..groups :
               Frame(score, above, groups, raw, gap)
    BY <1>1 DEF Next
  <2>2. PresenceStep(score) /\ FallStep(above, gap) /\ PacketStep(gap)
    BY <2>1 DEF Frame
  <2>3. presence' \in BOOLEAN
    BY <2>2, Zenon DEF FlagsInv, PresenceStep, ScoreHigh, ScoreBetween, ScoreLow
  <2>4. fall' \in BOOLEAN /\ alerted' \in BOOLEAN /\ calm' \in BOOLEAN
    <3>1. CASE RaiseAlert(above)
      BY <3>1, Zenon DEF RaiseAlert, Spent
    <3>2. CASE NoAlert(above, gap)
      <4>1. /\ fall' = IF FallCount(above) = 0 THEN FALSE ELSE fall
            /\ alerted' = FALSE
            /\ calm' = IF above THEN calm ELSE TRUE
        BY <3>2, Zenon DEF NoAlert, Seen
      <4> QED BY <4>1, Zenon DEF FlagsInv
    <3>3. CASE TooEarly(gap)
      BY <3>3, Zenon DEF TooEarly, FlagsInv
    <3> QED BY <2>2, <3>1, <3>2, <3>3 DEF FallStep
  <2>5. valid' \in BOOLEAN
    BY <2>2, Zenon DEF PacketStep
  <2> QED BY <2>3, <2>4, <2>5, Zenon DEF FlagsInv
<1>2. CASE UNCHANGED vars
  BY <1>2, Zenon DEF vars, presenceVars, fallVars, packetVars, FlagsInv
<1> QED BY <1>1, <1>2

LEMMA PacketOfFlags ==
  ASSUME NEW p \in BOOLEAN, NEW f \in BOOLEAN, NEW n \in Counts
  PROVE  [presence |-> p, fall |-> f, persons |-> n]
           \in [presence : BOOLEAN, fall : BOOLEAN, persons : Counts]
BY Zenon

LEMMA PacketKept ==
  ASSUME PacketInv, PersonInv', FlagsInv', [Next]_vars
  PROVE  PacketInv'
<1>1. CASE Next
  <2>1. PICK score \in {"high", "between", "low"}, above \in BOOLEAN, gap \in 0..MaxGap,
             groups \in 0..MaxPersons : \E raw \in 0..groups :
               Frame(score, above, groups, raw, gap)
    BY <1>1 DEF Next
  <2>2. PacketStep(gap)
    BY <2>1 DEF Frame
  <2>3. sendAge' \in 0..Interval
    BY <2>2, TimesAssumption DEF PacketInv, PacketStep, Least
  <2>4. presence' \in BOOLEAN /\ fall' \in BOOLEAN /\ active' \in Counts
    BY Zenon DEF FlagsInv, PersonInv
  <2>5. pkt' = [presence |-> presence', fall |-> fall', persons |-> active'] \/ pkt' = pkt
    BY <2>2, Zenon DEF PacketStep
  <2>6. pkt' \in [presence : BOOLEAN, fall : BOOLEAN, persons : Counts]
    <3>1. [presence |-> presence', fall |-> fall', persons |-> active']
            \in [presence : BOOLEAN, fall : BOOLEAN, persons : Counts]
      BY <2>4, PacketOfFlags
    <3> QED BY <2>5, <3>1, Zenon DEF PacketInv
  <2> QED BY <2>3, <2>6 DEF PacketInv
<1>2. CASE UNCHANGED vars
  BY <1>2, Zenon DEF vars, packetVars, PacketInv
<1> QED BY <1>1, <1>2

(* Every counter stays in its width, every age within its limit, and the   *)
(* packet is one of the packets there can be.                              *)
THEOREM TypeCorrect == Spec => []TypeOK
<1> DEFINE Inv == DebounceInv /\ FlagsInv /\ PacketInv
<1>1. Init => FlagsInv
  BY Zenon DEF Init, FlagsInv
<1>2. Init => PacketInv
  <2> SUFFICES ASSUME Init PROVE PacketInv
    OBVIOUS
  <2>1. 0 \in Counts
    BY FrameCountsAssumption DEF Counts
  <2> QED BY <2>1, Zenon DEF Init, PacketInv
<1>3. Init => DebounceInv
  BY PresenceInit, PersonInit, FallInit DEF DebounceInv
<1>4. Inv /\ [Next]_vars => Inv'
  <2> SUFFICES ASSUME Inv, [Next]_vars PROVE Inv'
    OBVIOUS
  <2>1. DebounceInv' /\ FlagsInv'
    BY StepIsSound, FlagsKept
  <2>2. PacketInv'
    BY <2>1, PacketKept DEF DebounceInv
  <2> QED BY <2>1, <2>2
<1>5. Inv => TypeOK
  BY Zenon DEF TypeOK, DebounceInv, PresenceInv, PersonInv, FallInv, FlagsInv, PacketInv
<1> QED BY <1>1, <1>2, <1>3, <1>4, <1>5, PTL DEF Spec

(* The presence flag drops only after ClearFrames low scores in a row.     *)
THEOREM PresenceNeverFlickers == Spec => AbsenceIsSustained
<1>1. DebounceInv /\ [Next]_vars =>
        [presence /\ ~presence' => lowRun' = ClearFrames]_vars
  BY StepIsSound
<1> QED BY <1>1, DebounceInvariant, PTL DEF Spec, AbsenceIsSustained

(* After ClearFrames low scores in a row the presence flag is down.        *)
THEOREM PresenceClears == Spec => []SustainedAbsenceClears
<1>1. DebounceInv => SustainedAbsenceClears
  BY FrameCountsAssumption DEF DebounceInv, PresenceInv, SustainedAbsenceClears
<1> QED BY <1>1, DebounceInvariant, PTL

(* The person count changes only to what PersistFrames decisions agree on. *)
THEOREM CountNeedsAgreement == Spec => CountIsPersistent
<1>1. DebounceInv /\ [Next]_vars =>
        [stable' # stable => rawRun' = PersistFrames /\ lastRaw' = stable']_vars
  BY StepIsSound
<1> QED BY <1>1, DebounceInvariant, PTL DEF Spec, CountIsPersistent

(* What PersistFrames decisions agree on is the person count.              *)
THEOREM CountFollows == Spec => []LastingCountWins
<1>1. DebounceInv => LastingCountWins
  BY FrameCountsAssumption DEF DebounceInv, PersonInv, LastingCountWins
<1> QED BY <1>1, DebounceInvariant, PTL

(* No fall alert without ConsecMin frames that no other alert has used.    *)
THEOREM AlertsAreFounded == Spec => AlertHasOwnEvidence
<1>1. DebounceInv /\ [Next]_vars => [alerted' => hiRun >= ConsecMin - 1]_vars
  BY StepIsSound
<1> QED BY <1>1, DebounceInvariant, PTL DEF Spec, AlertHasOwnEvidence

(* The fall flag is down from the first calm frame after the alert.        *)
THEOREM FlagFalls == Spec => []FlagEndsWithTheFall
<1>1. DebounceInv => FlagEndsWithTheFall
  BY DEF DebounceInv, FallInv, FlagEndsWithTheFall
<1> QED BY <1>1, DebounceInvariant, PTL

-----------------------------------------------------------------------------
(* The parsers of the mmWave sensor.                                       *)

Mr60States == {"01", "header", "data", "cksum"}
LdStates == {"F4", "F3", "F2", "F1", "length_low", "length_high", "data", "F8", "F7", "F6", "F5"}

(* What is known of the wire; until a sensor is found nothing was read.    *)
WireInv ==
  /\ type \in Sensors \cup {"NONE"} /\ reads \in BOOLEAN
  /\ kind \in {"clean", "busy"} /\ whole \in BOOLEAN
  /\ payload \in 0..256
  /\ type = "MR60BHA2" => payload \in 0..30
  /\ type = "LD2410" => payload \in 1..256
  /\ at \in 0..(FrameSize - 1) /\ quiet \in 0..Swallow
  /\ type = "NONE" => ~reads /\ quiet = 0

ParserInv ==
  parser \in [state : Mr60States \cup LdStates \cup {"off"}, left : 0..256, instep : BOOLEAN]

(* How many bytes the parser reads, at most, before it looks for a start.  *)
Mr60Ahead ==
  CASE parser.state = "header" -> parser.left + 31
    [] parser.state = "data" -> parser.left + 1
    [] OTHER -> 1

Mr60Reading ==
  \/ parser.state = "header" /\ parser.left \in 1..7
  \/ parser.state = "data" /\ parser.left \in 1..30
  \/ parser.state = "cksum"

LdAhead ==
  CASE parser.state = "F3" -> 265
    [] parser.state = "F2" -> 264
    [] parser.state = "F1" -> 263
    [] parser.state = "length_low" -> 262
    [] parser.state = "length_high" -> 261
    [] parser.state = "data" -> parser.left + 4
    [] parser.state = "F8" -> 4
    [] parser.state = "F7" -> 3
    [] parser.state = "F6" -> 2
    [] OTHER -> 1

LdReading ==
  \/ parser.state \in LdStates \ {"F4", "data"}
  \/ parser.state = "data" /\ parser.left \in 1..256

(* In step, where the parser is follows from where the wire is.            *)
Mr60InStep ==
  \/ parser.state = "header" /\ at \in 1..7 /\ parser.left = 8 - at
  \/ parser.state = "data" /\ at \in 8..(payload + 7) /\ parser.left = payload + 8 - at
  \/ parser.state = "cksum" /\ at = payload + 8

LdInStep ==
  \/ parser.state = "F3" /\ at = 1
  \/ parser.state = "F2" /\ at = 2
  \/ parser.state = "F1" /\ at = 3
  \/ parser.state = "length_low" /\ at = 4
  \/ parser.state = "length_high" /\ at = 5
  \/ parser.state = "data" /\ at \in 6..(payload + 5) /\ parser.left = payload + 6 - at
  \/ parser.state = "F8" /\ at = payload + 6
  \/ parser.state = "F7" /\ at = payload + 7
  \/ parser.state = "F6" /\ at = payload + 8
  \/ parser.state = "F5" /\ at = payload + 9

(* The two sensors, side by side.                                          *)
Ahead == IF type = "MR60BHA2" THEN Mr60Ahead ELSE LdAhead
Reading == IF type = "MR60BHA2" THEN Mr60Reading ELSE LdReading
InStep == IF type = "MR60BHA2" THEN Mr60InStep ELSE LdInStep

(* The parser looks for a start after at most k more bytes.                *)
Within(k) == parser = Searching \/ (Reading /\ Ahead <= k)

(* Nothing of the frame on the wire can lead the parser astray.            *)
Steady == at = 0 \/ (whole /\ kind = "clean")

(* In step it is where the wire is; out of step it looks for a start in    *)
(* time, and each settled byte brings that nearer, because what it then    *)
(* passes over is data.                                                    *)
StepInv == parser.instep => reads /\ InStep
ReachInv == reads => Within(Swallow)
SettleInv == reads /\ Steady => parser.instep \/ Within(Swallow - quiet - at)

SensorInv == WireInv /\ ParserInv /\ StepInv /\ ReachInv /\ SettleInv

(* Only the first byte of a clean frame is a start.                        *)
LEMMA Mr60Bytes ==
  ASSUME type = "MR60BHA2", NEW b \in Bytes
  PROVE  /\ at = 0 => b = "01"
         /\ at # 0 /\ kind = "clean" => b # "01"
  BY DEF Bytes, Place

(* Likewise, and the marks of a frame in step are what they should be.     *)
LEMMA LdBytes ==
  ASSUME type = "LD2410", payload \in 1..256, at \in 0..(payload + 9), NEW b \in Bytes
  PROVE  /\ at = 0 => b = "F4"
         /\ at # 0 /\ kind = "clean" => b # "F4"
         /\ at = 1 => b = "F3"
         /\ at = 2 => b = "F2"
         /\ at = 3 => b = "F1"
         /\ at = payload + 6 => b = "F8"
         /\ at = payload + 7 => b = "F7"
         /\ at = payload + 8 => b = "F6"
<1>1. CASE at < 4
  <2>1. /\ at = 0 => Place = "F4"
        /\ at = 1 => Place = "F3"
        /\ at = 2 => Place = "F2"
        /\ at = 3 => Place = "F1"
    BY <1>1 DEF Place, Starts
  <2> QED
    BY <1>1, <2>1 DEF Bytes
<1>2. CASE at \in 4..(payload + 5)
  BY <1>2 DEF Bytes, Place
<1>3. CASE at \in (payload + 6)..(payload + 9)
  <2> DEFINE k == at - payload - 5
  <2>1. k \in 1..4 /\ Place = Ends[k]
    BY <1>3 DEF Place
  <2>2. Ends[1] = "F8" /\ Ends[2] = "F7" /\ Ends[3] = "F6" /\ Ends[4] = "F5"
    BY DEF Ends
  <2>3. Place # "data" /\ Place # "F4"
    <3> HIDE DEF k
    <3> QED
      BY <2>1, <2>2
  <2>4. b = Place
    BY <2>3 DEF Bytes
  <2>5. /\ at = payload + 6 => k = 1
        /\ at = payload + 7 => k = 2
        /\ at = payload + 8 => k = 3
    BY <1>3
  <2> HIDE DEF k
  <2> QED
    BY <1>3, <2>1, <2>2, <2>3, <2>4, <2>5
<1> QED
  BY <1>1, <1>2, <1>3

(* What a Goto changes.                                                    *)
LEMMA Going ==
  ASSUME ParserInv, NEW state, NEW left, Goto(state, left)
  PROVE  /\ parser'.state = state /\ parser'.left = left
         /\ parser.instep => parser'.instep
  BY DEF ParserInv, Goto

(* A parser that is out of step and reading stays out of step.             *)
LEMMA Mr60StaysOut ==
  ASSUME ParserInv, NEW b, Mr60Feed(b), Mr60Reading, ~parser.instep
  PROVE  ~parser'.instep
<1>1. Resync => ~parser'.instep
  BY DEF Resync, Searching
<1>2. ASSUME NEW state, NEW left, Goto(state, left)
      PROVE  ~parser'.instep
  BY <1>2 DEF ParserInv, Goto
<1> QED
  BY <1>1, <1>2
     DEF Mr60Feed, Mr60Search, Mr60Header, Mr60Data, Mr60Checksum, Mr60Reading

(* The same for the other parser.                                          *)
LEMMA LdStaysOut ==
  ASSUME ParserInv, NEW b, LdFeed(b), LdReading, ~parser.instep
  PROVE  ~parser'.instep
<1>1. Resync => ~parser'.instep
  BY DEF Resync, Searching
<1>2. ASSUME NEW state, NEW left, Goto(state, left)
      PROVE  ~parser'.instep
  BY <1>2 DEF ParserInv, Goto
<1>3. LdMark(b) => ~parser'.instep
  <2>1. ASSUME parser' = [state |-> After[b], left |-> 0, instep |-> parser.instep]
        PROVE  ~parser'.instep
    BY <2>1
  <2> QED
    BY <1>1, <2>1 DEF LdMark, LdReading, LdStates
<1> QED
  BY <1>1, <1>2, <1>3 DEF LdFeed, LdLength, LdData, LdEnd

(* A byte that does not end the search for the frame brings its end nearer.*)
LEMMA Mr60Nears ==
  ASSUME ParserInv, type = "MR60BHA2", payload \in 0..30,
         NEW b, Mr60Feed(b), Mr60Reading
  PROVE  Resync \/ (Mr60Reading' /\ Mr60Ahead' <= Mr60Ahead - 1)
<1>1. CASE parser.state = "header"
  <2>1. Mr60Header /\ parser.left \in 1..7
    BY <1>1 DEF Mr60Feed, Mr60Search, Mr60Header, Mr60Data, Mr60Checksum, Mr60Reading
  <2>2. CASE parser.left > 1 /\ Goto("header", parser.left - 1)
    BY <1>1, <2>1, <2>2, Going DEF Mr60Reading, Mr60Ahead
  <2>3. ASSUME NEW n \in Lengths, IF n = 0 THEN Goto("cksum", 0) ELSE Goto("data", n)
        PROVE  Mr60Reading' /\ Mr60Ahead' <= Mr60Ahead - 1
    <3>1. n \in 0..30
      BY DEF Lengths, MaxPayload
    <3> QED
      BY <1>1, <2>1, <2>3, <3>1, Going DEF Mr60Reading, Mr60Ahead
  <2> QED
    BY <2>1, <2>2, <2>3 DEF Mr60Header
<1>2. CASE parser.state = "data"
  <2>1. Mr60Data /\ parser.left \in 1..30
    BY <1>2 DEF Mr60Feed, Mr60Search, Mr60Header, Mr60Data, Mr60Checksum, Mr60Reading
  <2>2. CASE parser.left > 1 /\ Goto("data", parser.left - 1)
    BY <1>2, <2>1, <2>2, Going DEF Mr60Reading, Mr60Ahead
  <2>3. CASE parser.left = 1 /\ Goto("cksum", 0)
    BY <1>2, <2>1, <2>3, Going DEF Mr60Reading, Mr60Ahead
  <2> QED
    BY <2>1, <2>2, <2>3 DEF Mr60Data
<1>3. CASE parser.state = "cksum"
  BY <1>3 DEF Mr60Feed, Mr60Search, Mr60Header, Mr60Data, Mr60Checksum
<1> QED
  BY <1>1, <1>2, <1>3 DEF Mr60Reading

(* The same for the other parser.                                          *)
LEMMA LdNears ==
  ASSUME ParserInv, type = "LD2410", payload \in 1..256,
         NEW b, LdFeed(b), LdReading
  PROVE  Resync \/ (LdReading' /\ LdAhead' <= LdAhead - 1)
<1>1. CASE parser.state \in {"F3", "F2", "F1", "F8", "F7", "F6"}
  <2>1. LdMark(b)
    BY <1>1 DEF LdFeed, LdLength, LdData, LdEnd
  <2>2. Resync \/ (b = parser.state /\ parser'.state = After[b])
    BY <2>1 DEF LdMark
  <2> QED
    BY <1>1, <2>2 DEF LdReading, LdAhead, LdStates, After
<1>2. CASE parser.state = "length_low"
  <2>1. Goto("length_high", 0)
    BY <1>2 DEF LdFeed, LdMark, LdLength, LdData, LdEnd, After
  <2> QED
    BY <1>2, <2>1, Going DEF LdReading, LdAhead, LdStates
<1>3. CASE parser.state = "length_high"
  <2>1. \E n \in Lengths : IF n = 0 THEN Resync ELSE Goto("data", n)
    BY <1>3 DEF LdFeed, LdMark, LdLength, LdData, LdEnd, After
  <2>2. PICK n \in Lengths : IF n = 0 THEN Resync ELSE Goto("data", n)
    BY <2>1
  <2>3. n \in 0..256
    BY DEF Lengths, MaxPayload
  <2> QED
    BY <1>3, <2>2, <2>3, Going DEF LdReading, LdAhead, LdStates
<1>4. CASE parser.state = "data"
  <2>1. LdData /\ parser.left \in 1..256
    BY <1>4 DEF LdFeed, LdMark, LdLength, LdData, LdEnd, After, LdReading, LdStates
  <2>2. CASE parser.left > 1 /\ Goto("data", parser.left - 1)
    BY <1>4, <2>1, <2>2, Going DEF LdReading, LdAhead, LdStates
  <2>3. CASE parser.left = 1 /\ Goto("F8", 0)
    BY <1>4, <2>1, <2>3, Going DEF LdReading, LdAhead, LdStates
  <2> QED
    BY <2>1, <2>2, <2>3 DEF LdData
<1>5. CASE parser.state = "F5"
  BY <1>5 DEF LdFeed, LdMark, LdLength, LdData, LdEnd, After
<1> QED
  BY <1>1, <1>2, <1>3, <1>4, <1>5 DEF LdReading, LdStates

(* In step, the parser moves on with the wire.                             *)
LEMMA Mr60Steps ==
  ASSUME ParserInv, type = "MR60BHA2", payload \in 0..30, at \in 0..(payload + 8),
         NEW b, Mr60Feed(b), parser.instep, Mr60InStep
  PROVE  IF at = payload + 8 THEN Resync
         ELSE /\ parser'.instep
              /\ \/ parser'.state = "header" /\ at + 1 \in 1..7 /\ parser'.left = 7 - at
                 \/ /\ parser'.state = "data" /\ at + 1 \in 8..(payload + 7)
                    /\ parser'.left = payload + 7 - at
                 \/ parser'.state = "cksum" /\ at = payload + 7
<1>1. CASE parser.state = "header"
  <2>1. Mr60Header /\ at \in 1..7 /\ parser.left = 8 - at
    BY <1>1 DEF Mr60Feed, Mr60Search, Mr60Header, Mr60Data, Mr60Checksum, Mr60InStep
  <2>2. CASE at < 7
    <3>1. Goto("header", parser.left - 1)
      BY <2>1, <2>2 DEF Mr60Header
    <3> QED
      BY <2>1, <2>2, <3>1, Going
  <2>3. CASE at = 7
    <3>1. IF payload = 0 THEN Goto("cksum", 0) ELSE Goto("data", payload)
      BY <2>1, <2>3 DEF Mr60Header, Lengths
    <3> QED
      BY <2>1, <2>3, <3>1, Going
  <2> QED
    BY <2>1, <2>2, <2>3
<1>2. CASE parser.state = "data"
  <2>1. Mr60Data /\ at \in 8..(payload + 7) /\ parser.left = payload + 8 - at
    BY <1>2 DEF Mr60Feed, Mr60Search, Mr60Header, Mr60Data, Mr60Checksum, Mr60InStep
  <2>2. CASE at < payload + 7
    <3>1. Goto("data", parser.left - 1)
      BY <2>1, <2>2 DEF Mr60Data
    <3> QED
      BY <2>1, <2>2, <3>1, Going
  <2>3. CASE at = payload + 7
    <3>1. Goto("cksum", 0)
      BY <2>1, <2>3 DEF Mr60Data
    <3> QED
      BY <2>1, <2>3, <3>1, Going
  <2> QED
    BY <2>1, <2>2, <2>3
<1>3. CASE parser.state = "cksum"
  BY <1>3 DEF Mr60Feed, Mr60Search, Mr60Header, Mr60Data, Mr60Checksum, Mr60InStep
<1> QED
  BY <1>1, <1>2, <1>3 DEF Mr60InStep

(* The same for the other parser.                                          *)
LEMMA LdSteps ==
  ASSUME ParserInv, type = "LD2410", payload \in 1..256, at \in 0..(payload + 9),
         NEW b \in Bytes, LdFeed(b), parser.instep, LdInStep
  PROVE  IF at = payload + 9 THEN Resync
         ELSE /\ parser'.instep
              /\ \/ parser'.state = "F2" /\ at = 1
                 \/ parser'.state = "F1" /\ at = 2
                 \/ parser'.state = "length_low" /\ at = 3
                 \/ parser'.state = "length_high" /\ at = 4
                 \/ /\ parser'.state = "data" /\ at + 1 \in 6..(payload + 5)
                    /\ parser'.left = payload + 5 - at
                 \/ parser'.state = "F8" /\ at = payload + 5
                 \/ parser'.state = "F7" /\ at = payload + 6
                 \/ parser'.state = "F6" /\ at = payload + 7
                 \/ parser'.state = "F5" /\ at = payload + 8
<1>1. CASE parser.state \in {"F3", "F2", "F1", "F8", "F7", "F6"}
  <2>1. LdMark(b)
    BY <1>1 DEF LdFeed, LdLength, LdData, LdEnd
  <2>2. b = parser.state /\ b # "F4"
    BY <1>1, LdBytes DEF LdInStep
  <2>3. parser' = [state |-> After[b], left |-> 0, instep |-> parser.instep]
    BY <2>1, <2>2 DEF LdMark
  <2>4. parser'.state = After[b] /\ parser'.instep
    BY <2>3
  <2> QED
    BY <1>1, <2>2, <2>4 DEF LdInStep, After
<1>2. CASE parser.state = "length_low"
  <2>1. Goto("length_high", 0)
    BY <1>2 DEF LdFeed, LdMark, LdLength, LdData, LdEnd, After
  <2> QED
    BY <1>2, <2>1, Going DEF LdInStep
<1>3. CASE parser.state = "length_high"
  <2>1. Goto("data", payload)
    BY <1>3 DEF LdFeed, LdMark, LdLength, LdData, LdEnd, After, Lengths
  <2> QED
    BY <1>3, <2>1, Going DEF LdInStep
<1>4. CASE parser.state = "data"
  <2>1. LdData /\ at \in 6..(payload + 5) /\ parser.left = payload + 6 - at
    BY <1>4 DEF LdFeed, LdMark, LdLength, LdData, LdEnd, After, LdInStep
  <2>2. CASE at < payload + 5
    <3>1. Goto("data", parser.left - 1)
      BY <2>1, <2>2 DEF LdData
    <3> QED
      BY <2>1, <2>2, <3>1, Going
  <2>3. CASE at = payload + 5
    <3>1. Goto("F8", 0)
      BY <2>1, <2>3 DEF LdData
    <3> QED
      BY <2>1, <2>3, <3>1, Going
  <2> QED
    BY <2>1, <2>2, <2>3
<1>5. CASE parser.state = "F5"
  BY <1>5 DEF LdFeed, LdMark, LdLength, LdData, LdEnd, After, LdInStep
<1> QED
  BY <1>1, <1>2, <1>3, <1>4, <1>5 DEF LdInStep

(* A search ends at a start byte, in step if it is the first of a frame.   *)
LEMMA Mr60Searches ==
  ASSUME type = "MR60BHA2", type' = type, at \in Nat,
         NEW b \in Bytes, Mr60Feed(b), parser = Searching
  PROVE  /\ Within(Swallow)'
         /\ parser'.instep => /\ at = 0 /\ at + 1 \in 1..7
                               /\ parser'.state = "header" /\ parser'.left = 7 - at
         /\ at = 0 => parser'.instep
         /\ at # 0 /\ kind = "clean" => parser' = Searching'
<1>1. Mr60Search(b)
  BY DEF Mr60Feed, Mr60Search, Mr60Header, Mr60Data, Mr60Checksum, Searching
<1>2. CASE b = "01"
  <2>1. parser' = [state |-> "header", left |-> 7, instep |-> at = 0]
    BY <1>1, <1>2 DEF Mr60Search
  <2>2. parser'.state = "header" /\ parser'.left = 7 /\ (parser'.instep <=> at = 0)
    BY <2>1
  <2>3. Within(Swallow)'
    BY <2>2 DEF Within, Swallow, Reading, Mr60Reading, Ahead, Mr60Ahead
  <2> QED
    BY <1>2, <2>2, <2>3, Mr60Bytes
<1>3. CASE b # "01"
  <2>1. parser' = Searching /\ Searching' = Searching
    BY <1>1, <1>3 DEF Mr60Search, Searching
  <2>2. ~parser'.instep
    BY <2>1 DEF Searching
  <2> QED
    BY <1>3, <2>1, <2>2, Mr60Bytes DEF Within
<1> QED
  BY <1>2, <1>3

(* The same for the other parser.                                          *)
LEMMA LdSearches ==
  ASSUME type = "LD2410", type' = type, payload \in 1..256, at \in 0..(payload + 9),
         NEW b \in Bytes, LdFeed(b), parser = Searching
  PROVE  /\ Within(Swallow)'
         /\ parser'.instep => at = 0 /\ parser'.state = "F3"
         /\ at = 0 => parser'.instep
         /\ at # 0 /\ kind = "clean" => parser' = Searching'
<1>1. LdMark(b) /\ parser.state = "F4"
  BY DEF LdFeed, LdLength, LdData, LdEnd, Searching
<1>2. CASE b = "F4"
  <2>1. parser' = [state |-> After["F4"], left |-> 0, instep |-> at = 0]
    BY <1>1, <1>2 DEF LdMark
  <2>2. parser'.state = "F3" /\ (parser'.instep <=> at = 0)
    BY <2>1 DEF After
  <2>3. Within(Swallow)'
    BY <2>2 DEF Within, Swallow, Reading, LdReading, LdStates, Ahead, LdAhead
  <2> QED
    BY <1>2, <2>2, <2>3, LdBytes
<1>3. CASE b # "F4"
  <2>1. parser' = Searching /\ Searching' = Searching
    BY <1>1, <1>3 DEF LdMark, Resync, Searching
  <2>2. ~parser'.instep
    BY <2>1 DEF Searching
  <2> QED
    BY <1>3, <2>1, <2>2, LdBytes DEF Within
<1> QED
  BY <1>2, <1>3

(* What a byte that is read does, whichever the sensor.                    *)
LEMMA Reads ==
  ASSUME SensorInv, Read
  PROVE  /\ ReachInv'
         /\ StepInv'
         /\ parser.instep => IF at + 1 = FrameSize THEN parser' = Searching' ELSE parser'.instep
         /\ parser = Searching /\ at = 0 => parser'.instep
         /\ parser = Searching /\ at # 0 /\ kind = "clean" => parser' = Searching'
         /\ Reading => parser' = Searching' \/ (Reading' /\ Ahead' <= Ahead - 1)
<1>1. reads /\ reads' /\ type \in Sensors /\ type' = type
  BY DEF SensorInv, WireInv, Read
<1>2. Searching' = Searching /\ ~Searching.instep
  BY <1>1 DEF Searching
<1>3. parser = Searching \/ (Reading /\ Ahead <= Swallow)
  BY <1>1 DEF SensorInv, ReachInv, Within
<1>4. parser = Searching => ~parser.instep /\ ~Reading
  BY DEF Searching, Reading, Mr60Reading, LdReading, LdStates
<1>5. CASE type = "MR60BHA2"
  <2>1. /\ payload \in 0..30 /\ FrameSize = payload + 9 /\ at \in 0..(payload + 8)
        /\ Swallow = 38 /\ Swallow' = 38
    BY <1>1, <1>5 DEF SensorInv, WireInv, FrameSize, Swallow
  <2>2. IF at = payload + 8 THEN at' = 0 ELSE at' = at + 1 /\ payload' = payload
    BY <2>1 DEF Read, Sent
  <2>3. PICK b \in Bytes : Mr60Feed(b)
    BY <1>5 DEF Read
  <2>4. CASE parser = Searching
    <3>1. /\ Within(Swallow)'
          /\ parser'.instep => /\ at = 0 /\ at + 1 \in 1..7
                               /\ parser'.state = "header" /\ parser'.left = 7 - at
          /\ at = 0 => parser'.instep
          /\ at # 0 /\ kind = "clean" => parser' = Searching'
      BY <1>1, <1>5, <2>1, <2>3, <2>4, Mr60Searches
    <3>2. parser'.instep => InStep'
      BY <1>1, <1>5, <2>1, <2>2, <3>1 DEF InStep, Mr60InStep
    <3> QED
      BY <1>1, <1>4, <2>4, <3>1, <3>2 DEF ReachInv, StepInv
  <2>5. CASE Reading
    <3>1. Resync \/ (Mr60Reading' /\ Mr60Ahead' <= Mr60Ahead - 1)
      BY <1>5, <2>1, <2>3, <2>5, Mr60Nears DEF SensorInv, Reading
    <3>2. parser' = Searching' \/ (Reading' /\ Ahead' <= Ahead - 1)
      BY <1>1, <1>2, <1>5, <3>1 DEF Resync, Reading, Ahead
    <3>3. Ahead \in Int
      BY <1>5, <2>5 DEF Reading, Mr60Reading, Ahead, Mr60Ahead
    <3>4. ReachInv'
      <4>1. Reading' => Ahead' \in Int
        BY <1>1, <1>5 DEF Reading, Mr60Reading, Ahead, Mr60Ahead
      <4> QED
        BY <1>3, <1>4, <2>1, <2>5, <3>2, <3>3, <4>1 DEF ReachInv, Within
    <3>5. CASE parser.instep
      <4>1. Mr60InStep
        BY <1>1, <1>5, <3>5 DEF SensorInv, StepInv, InStep
      <4>2. IF at = payload + 8 THEN Resync
            ELSE /\ parser'.instep
                 /\ \/ parser'.state = "header" /\ at + 1 \in 1..7 /\ parser'.left = 7 - at
                    \/ /\ parser'.state = "data" /\ at + 1 \in 8..(payload + 7)
                       /\ parser'.left = payload + 7 - at
                    \/ parser'.state = "cksum" /\ at = payload + 7
        BY <1>5, <2>1, <2>3, <3>5, <4>1, Mr60Steps DEF SensorInv
      <4>3. StepInv'
        <5>1. CASE at = payload + 8
          BY <1>2, <4>2, <5>1 DEF Resync, StepInv
        <5>2. CASE at # payload + 8
          <6>1. Mr60InStep'
            BY <2>1, <2>2, <4>2, <5>2 DEF Mr60InStep
          <6> QED
            BY <1>1, <1>5, <6>1 DEF StepInv, InStep
        <5> QED
          BY <5>1, <5>2
      <4> QED
        BY <1>2, <1>4, <2>1, <2>5, <3>2, <3>4, <4>2, <4>3 DEF Resync
    <3>6. CASE ~parser.instep
      <4>1. ~parser'.instep
        BY <1>2, <2>3, <2>5, <3>6, <1>5, Mr60StaysOut DEF SensorInv, Reading
      <4> QED
        BY <1>4, <2>5, <3>2, <3>4, <3>6, <4>1 DEF StepInv
    <3> QED
      BY <3>5, <3>6
  <2> QED
    BY <1>3, <2>4, <2>5
<1>6. CASE type = "LD2410"
  <2>1. /\ payload \in 1..256 /\ FrameSize = payload + 10 /\ at \in 0..(payload + 9)
        /\ Swallow = 265 /\ Swallow' = 265
    BY <1>1, <1>6 DEF SensorInv, WireInv, FrameSize, Swallow
  <2>2. IF at = payload + 9 THEN at' = 0 ELSE at' = at + 1 /\ payload' = payload
    BY <2>1 DEF Read, Sent
  <2>3. PICK b \in Bytes : LdFeed(b)
    BY <1>6 DEF Read
  <2>4. CASE parser = Searching
    <3>1. /\ Within(Swallow)'
          /\ parser'.instep => at = 0 /\ parser'.state = "F3"
          /\ at = 0 => parser'.instep
          /\ at # 0 /\ kind = "clean" => parser' = Searching'
      BY <1>1, <1>6, <2>1, <2>3, <2>4, LdSearches
    <3>2. parser'.instep => InStep'
      BY <1>1, <1>6, <2>1, <2>2, <3>1 DEF InStep, LdInStep
    <3> QED
      BY <1>1, <1>4, <2>4, <3>1, <3>2 DEF ReachInv, StepInv
  <2>5. CASE Reading
    <3>1. Resync \/ (LdReading' /\ LdAhead' <= LdAhead - 1)
      BY <1>6, <2>1, <2>3, <2>5, LdNears DEF SensorInv, Reading
    <3>2. parser' = Searching' \/ (Reading' /\ Ahead' <= Ahead - 1)
      BY <1>1, <1>2, <1>6, <3>1 DEF Resync, Reading, Ahead
    <3>3. Ahead \in Int
      BY <1>6, <2>5 DEF Reading, LdReading, LdStates, Ahead, LdAhead
    <3>4. ReachInv'
      <4>1. Reading' => Ahead' \in Int
        BY <1>1, <1>6 DEF Reading, LdReading, LdStates, Ahead, LdAhead
      <4> QED
        BY <1>3, <1>4, <2>1, <2>5, <3>2, <3>3, <4>1 DEF ReachInv, Within
    <3>5. CASE parser.instep
      <4>1. LdInStep
        BY <1>1, <1>6, <3>5 DEF SensorInv, StepInv, InStep
      <4>2. IF at = payload + 9 THEN Resync
             ELSE /\ parser'.instep
                  /\ \/ parser'.state = "F2" /\ at = 1
                     \/ parser'.state = "F1" /\ at = 2
                     \/ parser'.state = "length_low" /\ at = 3
                     \/ parser'.state = "length_high" /\ at = 4
                     \/ /\ parser'.state = "data" /\ at + 1 \in 6..(payload + 5)
                        /\ parser'.left = payload + 5 - at
                     \/ parser'.state = "F8" /\ at = payload + 5
                     \/ parser'.state = "F7" /\ at = payload + 6
                     \/ parser'.state = "F6" /\ at = payload + 7
                     \/ parser'.state = "F5" /\ at = payload + 8
        BY <1>6, <2>1, <2>3, <3>5, <4>1, LdSteps DEF SensorInv
      <4>3. StepInv'
        <5>1. CASE at = payload + 9
          BY <1>2, <4>2, <5>1 DEF Resync, StepInv
        <5>2. CASE at # payload + 9
          <6>1. LdInStep'
            BY <2>1, <2>2, <4>2, <5>2 DEF LdInStep
          <6> QED
            BY <1>1, <1>6, <6>1 DEF StepInv, InStep
        <5> QED
          BY <5>1, <5>2
      <4> QED
        BY <1>2, <1>4, <2>1, <2>5, <3>2, <3>4, <4>2, <4>3 DEF Resync
    <3>6. CASE ~parser.instep
      <4>1. ~parser'.instep
        BY <1>2, <2>3, <2>5, <3>6, <1>6, LdStaysOut DEF SensorInv, Reading
      <4> QED
        BY <1>4, <2>5, <3>2, <3>4, <3>6, <4>1 DEF StepInv
    <3> QED
      BY <3>5, <3>6
  <2> QED
    BY <1>3, <2>4, <2>5
<1> QED
  BY <1>1, <1>5, <1>6 DEF Sensors

-----------------------------------------------------------------------------

(* Nothing is read before mmwave_sensor_init finds a sensor.               *)
LEMMA SensorStarts == SensorInit => SensorInv
<1> SUFFICES ASSUME SensorInit PROVE SensorInv
  OBVIOUS
<1> USE DEF SensorInit
<1>1. FrameSize = 10 /\ Swallow = 265
  BY DEF FrameSize, Swallow
<1>2. at \in 0..(FrameSize - 1) /\ quiet \in 0..Swallow /\ payload \in 0..256
  BY <1>1
<1>3. WireInv
  BY <1>2 DEF WireInv
<1> QED
  BY <1>3 DEF SensorInv, ParserInv, Idle, StepInv, ReachInv, SettleInv

(* The wire goes on whatever the parser does.                              *)
LEMMA WireKept ==
  ASSUME WireInv, SensorNext
  PROVE  WireInv'
<1>1. ASSUME NEW t \in Sensors, NEW started \in BOOLEAN, Detect(t, started)
      PROVE  WireInv'
  <2>1. quiet = 0 /\ type' \in Sensors /\ Swallow' \in Nat
    BY <1>1 DEF Detect, WireInv, Swallow
  <2>2. /\ payload' \in 0..256
        /\ type' = "MR60BHA2" => payload' \in 0..30
        /\ type' = "LD2410" => payload' \in 1..256
    BY <1>1, PayloadAssumption DEF Detect, Payloads, Sensors
  <2>3. whole' \in BOOLEAN /\ kind' \in {"clean", "busy"} /\ at' \in 0..(FrameSize' - 1)
    BY <1>1 DEF Detect, WireInv
  <2> QED
    BY <1>1, <2>1, <2>2, <2>3 DEF Detect, WireInv, Sensors
<1>2. ASSUME reads, NEW lost \in BOOLEAN, Sent(lost), UNCHANGED <<type, reads>>
      PROVE  WireInv'
  <2>1. type \in Sensors /\ type' = type /\ Swallow' = Swallow /\ Swallow \in Nat
    BY <1>2 DEF WireInv, Swallow
  <2>2. /\ payload' \in 0..256
        /\ type' = "MR60BHA2" => payload' \in 0..30
        /\ type' = "LD2410" => payload' \in 1..256
    <3>1. CASE at + 1 = FrameSize
      <4>1. payload' \in Payloads
        BY <1>2, <3>1 DEF Sent
      <4> QED
        BY <2>1, <4>1, PayloadAssumption DEF Payloads, Sensors
    <3>2. CASE at + 1 # FrameSize
      BY <2>1, <1>2, <3>2 DEF Sent, WireInv
    <3> QED
      BY <3>1, <3>2
  <2>3. FrameSize \in Nat \ {0} /\ FrameSize' \in Nat \ {0} /\ at \in 0..(FrameSize - 1)
    <3>1. payload \in Nat /\ payload' \in Nat
      BY <2>2 DEF WireInv
    <3>2. \A n \in Nat : n + (IF type = "MR60BHA2" THEN 9 ELSE 10) \in Nat \ {0}
      OBVIOUS
    <3>3. FrameSize \in Nat \ {0}
      BY <3>1, <3>2 DEF FrameSize
    <3>4. FrameSize' = payload' + (IF type = "MR60BHA2" THEN 9 ELSE 10)
      BY <2>1 DEF FrameSize
    <3>5. FrameSize' \in Nat \ {0}
      BY <3>1, <3>2, <3>4
    <3> QED
      BY <3>3, <3>5 DEF WireInv
  <2>4. at' \in 0..(FrameSize' - 1)
    <3>1. CASE at + 1 = FrameSize
      <4>1. at' = 0
        BY <1>2, <3>1 DEF Sent
      <4> DEFINE n == FrameSize'
      <4>2. n \in Nat \ {0}
        BY <2>3
      <4> HIDE DEF n
      <4>3. 0 \in 0..(n - 1)
        BY <4>2
      <4> QED
        BY <4>1, <4>3 DEF n
    <3>2. CASE at + 1 # FrameSize
      <4>1. at' = at + 1 /\ FrameSize' = FrameSize
        BY <1>2, <3>2 DEF Sent, FrameSize
      <4> QED
        BY <2>3, <3>2, <4>1
    <3> QED
      BY <3>1, <3>2
  <2>5. kind' \in {"clean", "busy"}
    BY <1>2 DEF Sent, WireInv, Kinds
  <2>6. whole' \in BOOLEAN
    BY <1>2 DEF Sent, WireInv
  <2>7. quiet' \in 0..Swallow
    BY <1>2, <2>1, <2>3 DEF Sent, WireInv
  <2> QED
    BY <1>2, <2>1, <2>2, <2>4, <2>5, <2>6, <2>7 DEF WireInv, Sensors
<1> QED
  BY <1>1, <1>2 DEF SensorNext, Read, Overflow

(* Every state a parser goes to is one of its own.                         *)
LEMMA ReadTypes ==
  ASSUME ParserInv, payload \in 0..256, Read
  PROVE  ParserInv'
<1>1. Resync => ParserInv'
  BY DEF Resync, Searching, ParserInv, Mr60States, LdStates
<1>2. ASSUME NEW state \in Mr60States \cup LdStates, NEW left \in 0..256, Goto(state, left)
      PROVE  ParserInv'
  BY <1>2 DEF ParserInv, Goto
<1>3. Lengths \subseteq 0..256 /\ parser.left \in 0..256
  BY DEF Lengths, MaxPayload, ParserInv
<1>4. ASSUME NEW b, Mr60Feed(b)
      PROVE  ParserInv'
  <2>1. Mr60Search(b) => ParserInv'
    <3>1. ASSUME NEW in \in BOOLEAN, parser' = [state |-> "header", left |-> 7, instep |-> in]
          PROVE  ParserInv'
      BY <3>1 DEF ParserInv, Mr60States
    <3> QED
      BY <3>1 DEF Mr60Search, ParserInv
  <2>2. Mr60Header => ParserInv'
    BY <1>1, <1>2, <1>3 DEF Mr60Header, Mr60States
  <2>3. Mr60Data => ParserInv'
    BY <1>2, <1>3 DEF Mr60Data, Mr60States
  <2> QED
    BY <1>1, <1>4, <2>1, <2>2, <2>3 DEF Mr60Feed, Mr60Checksum
<1>5. ASSUME NEW b, LdFeed(b)
      PROVE  ParserInv'
  <2>1. LdMark(b) => ParserInv'
    <3>1. ASSUME NEW in \in BOOLEAN, b \in DOMAIN After,
                 parser' = [state |-> After[b], left |-> 0, instep |-> in]
          PROVE  ParserInv'
      BY <3>1 DEF ParserInv, After, LdStates
    <3>2. parser.instep \in BOOLEAN
      BY DEF ParserInv
    <3> QED
      BY <1>1, <3>1, <3>2 DEF LdMark
  <2>2. LdLength => ParserInv'
    BY <1>1, <1>2, <1>3 DEF LdLength, LdStates
  <2>3. LdData => ParserInv'
    BY <1>2, <1>3 DEF LdData, LdStates
  <2> QED
    BY <1>1, <1>5, <2>1, <2>2, <2>3 DEF LdFeed, LdEnd
<1> QED
  BY <1>4, <1>5 DEF Read

(* A parser that is not searching has a byte to read.                      *)
LEMMA AheadIsPositive == Reading => Ahead \in Nat \ {0}
  BY DEF Reading, Ahead, Mr60Reading, Mr60Ahead, LdReading, LdAhead, LdStates

(* Detection, a byte read and a byte lost keep the invariant.              *)
LEMMA SensorKept ==
  ASSUME SensorInv, [SensorNext]_sensorVars
  PROVE  SensorInv'
<1>1. ASSUME NEW t \in Sensors, NEW started \in BOOLEAN, Detect(t, started)
      PROVE  SensorInv'
  <2>1. parser' = Searching' /\ ~parser'.instep
    BY <1>1 DEF Detect, Searching
  <2>2. ParserInv'
    BY <2>1 DEF ParserInv, Searching, Mr60States, LdStates
  <2> QED
    BY <1>1, <2>1, <2>2, WireKept
       DEF SensorInv, SensorNext, StepInv, ReachInv, SettleInv, Within
<1>2. CASE Read
  <2>1. reads /\ type \in Sensors /\ type' = type /\ Sent(FALSE)
    BY <1>2 DEF SensorInv, WireInv, Read
  <2>2. Swallow' = Swallow /\ Swallow \in Nat /\ FrameSize \in Nat /\ FrameSize >= 9
    <3>1. payload \in Nat
      BY DEF SensorInv, WireInv
    <3> QED
      BY <2>1, <3>1 DEF Swallow, FrameSize
  <2>3. at \in 0..(FrameSize - 1) /\ quiet \in 0..Swallow
    BY DEF SensorInv, WireInv
  <2>4. ParserInv'
    BY <1>2, ReadTypes DEF SensorInv, WireInv
  <2>5. WireInv'
    BY <1>2, WireKept DEF SensorInv, SensorNext
  <2>7. ASSUME Steady', ~parser'.instep
        PROVE  Within(Swallow - quiet - at)'
    <3> DEFINE k == Swallow - quiet - at
    <3>1. parser' = Searching' => Within(Swallow - quiet - at)'
      BY DEF Within
    <3>2. k \in Int
      BY <2>2, <2>3
    <3>3. (Reading => Ahead \in Nat \ {0}) /\ (Reading' => Ahead' \in Nat \ {0})
      <4>1. Reading' => Ahead' \in Nat \ {0}
        BY DEF Reading, Ahead, Mr60Reading, Mr60Ahead, LdReading, LdAhead, LdStates
      <4> QED
        BY <4>1, AheadIsPositive
    <3>4. CASE at + 1 # FrameSize
      <4>1. at' = at + 1 /\ quiet' = quiet /\ (whole' <=> whole) /\ kind' = kind
        BY <2>1, <2>3, <3>4 DEF Sent
      <4>2. whole /\ kind = "clean" /\ Steady
        BY <2>2, <2>3, <2>7, <4>1 DEF Steady
      <4>3. parser = Searching \/ (Reading /\ Ahead <= k)
        BY <1>2, <2>1, <2>7, <3>4, <4>2, Reads DEF SensorInv, SettleInv, Within
      <4>4. CASE parser = Searching
        BY <1>2, <2>7, <3>1, <4>2, <4>4, Reads
      <4>5. CASE Reading /\ Ahead <= k
        <5>1. parser' = Searching' \/ (Reading' /\ Ahead' <= Ahead - 1)
          BY <1>2, <4>5, Reads
        <5>2. Swallow' - quiet' - at' = k - 1
          BY <2>2, <2>3, <4>1
        <5> QED
          BY <3>1, <3>2, <3>3, <4>5, <5>1, <5>2 DEF Within
      <4> QED
        BY <4>3, <4>4, <4>5
    <3>5. CASE at + 1 = FrameSize
      <4>1. /\ at' = 0
            /\ quiet' # 0 =>
                 /\ whole /\ kind = "clean"
                 /\ quiet' = IF quiet + FrameSize < Swallow THEN quiet + FrameSize ELSE Swallow
        <5>1. /\ at' = 0
              /\ quiet' = IF ~whole \/ kind = "busy" THEN 0
                          ELSE IF quiet + FrameSize < Swallow THEN quiet + FrameSize ELSE Swallow
          BY <2>1, <3>5 DEF Sent
        <5>2. kind \in {"clean", "busy"}
          BY DEF SensorInv, WireInv
        <5> QED
          BY <5>1, <5>2
      <4>2. CASE quiet' = 0
        <5>1. Swallow' - quiet' - at' = Swallow'
          BY <2>2, <4>1, <4>2
        <5> QED
          BY <1>2, <2>1, <5>1, Reads DEF ReachInv, Within, Read
      <4>3. CASE quiet' # 0
        <5>1. Steady /\ at # 0
          BY <2>2, <3>5, <4>1, <4>3 DEF Steady
        <5>2. CASE parser.instep
          BY <1>2, <3>1, <3>5, <5>2, Reads
        <5>3. CASE parser = Searching
          BY <1>2, <3>1, <4>1, <4>3, <5>1, <5>3, Reads
        <5>4. CASE Reading /\ Ahead <= k
          <6>1. parser' = Searching' \/ (Reading' /\ Ahead' <= Ahead - 1)
            BY <1>2, <5>4, Reads
          <6>2. CASE quiet + FrameSize < Swallow
            <7>1. Swallow' - quiet' - at' = k - 1
              BY <2>2, <2>3, <3>5, <4>1, <4>3, <6>2
            <7> QED
              BY <3>1, <3>2, <3>3, <5>4, <6>1, <7>1 DEF Within
          <6>3. CASE quiet + FrameSize >= Swallow
            <7>1. k <= 1
              BY <2>2, <2>3, <3>5, <6>3
            <7>2. ~(Reading' /\ Ahead' <= Ahead - 1)
              BY <3>2, <3>3, <5>4, <7>1
            <7> QED
              BY <3>1, <6>1, <7>2
          <6> QED
            BY <2>2, <2>3, <6>2, <6>3
        <5> QED
          BY <2>1, <5>1, <5>2, <5>3, <5>4 DEF SensorInv, SettleInv, Within
      <4> QED
        BY <4>2, <4>3
    <3> QED
      BY <3>4, <3>5
  <2> QED
    BY <1>2, <2>4, <2>5, <2>7, Reads DEF SensorInv, SettleInv
<1>3. CASE Overflow
  <2>1. reads /\ type \in Sensors /\ type' = type /\ Sent(TRUE)
    BY <1>3 DEF SensorInv, WireInv, Overflow
  <2>2. /\ parser'.state = parser.state /\ parser'.left = parser.left
        /\ ~parser'.instep /\ ParserInv'
    BY <1>3 DEF SensorInv, ParserInv, Overflow
  <2>3. ReachInv'
    <3>1. Swallow' = Swallow /\ Within(Swallow) /\ Searching' = Searching
      BY <2>1 DEF SensorInv, ReachInv, Swallow, Searching
    <3>2. parser = Searching => parser' = Searching'
      <4>1. parser' = [parser EXCEPT !.instep = FALSE]
        BY <1>3 DEF Overflow
      <4>2. ~Searching.instep
        BY DEF Searching
      <4> QED
        BY <3>1, <4>1, <4>2 DEF SensorInv, ParserInv
    <3>3. (Reading' <=> Reading) /\ Ahead' = Ahead
      BY <2>1, <2>2 DEF Reading, Mr60Reading, LdReading, Ahead, Mr60Ahead, LdAhead
    <3> QED
      BY <3>1, <3>2, <3>3 DEF ReachInv, Within
  <2>4. StepInv'
    BY <2>2 DEF StepInv
  <2>5. SettleInv'
    <3>1. FrameSize \in Nat /\ at \in 0..(FrameSize - 1) /\ Swallow' \in Nat
      BY <2>1 DEF SensorInv, WireInv, FrameSize, Swallow
    <3>2. Steady' => at' = 0 /\ quiet' = 0
      BY <2>1, <3>1 DEF Sent, Steady
    <3>3. ASSUME at' = 0, quiet' = 0
          PROVE  Swallow' - quiet' - at' = Swallow'
      <4> DEFINE n == Swallow'
      <4>1. n \in Nat
        BY <3>1
      <4> HIDE DEF n
      <4>2. n - 0 - 0 = n
        BY <4>1
      <4> QED
        BY <3>3, <4>2 DEF n
    <3> QED
      BY <2>1, <2>3, <3>2, <3>3 DEF SettleInv, ReachInv, Within
  <2>6. WireInv'
    BY <1>3, WireKept DEF SensorInv, SensorNext
  <2> QED
    BY <2>2, <2>3, <2>4, <2>5, <2>6 DEF SensorInv
<1>4. CASE UNCHANGED sensorVars
  BY <1>4 DEF sensorVars, SensorInv, WireInv, ParserInv, StepInv, ReachInv, SettleInv,
              InStep, Mr60InStep, LdInStep, Within, Steady, Searching,
              Reading, Mr60Reading, LdReading, Ahead, Mr60Ahead, LdAhead,
              FrameSize, Swallow, wireVars
<1> QED
  BY <1>1, <1>2, <1>3, <1>4 DEF SensorNext

(* The inductive invariant holds.                                          *)
LEMMA SensorInvariant == SensorSpec => []SensorInv
  BY SensorStarts, SensorKept, PTL DEF SensorSpec

(* Type correctness of the sensor, for both types of sensor.               *)
THEOREM SensorTypeCorrect == SensorSpec => []SensorTypeOK
<1>1. SensorInv => SensorTypeOK
  <2> SUFFICES ASSUME SensorInv PROVE SensorTypeOK
    OBVIOUS
  <2>1. FrameSize \in 0..266 /\ Swallow \in 0..265
    BY DEF SensorInv, WireInv, FrameSize, Swallow
  <2>2. at \in 0..265 /\ quiet \in 0..265
    BY <2>1 DEF SensorInv, WireInv
  <2>3. parser.left \in 0..256 /\ parser.instep \in BOOLEAN
    BY DEF SensorInv, ParserInv
  <2> QED
    BY <2>2, <2>3 DEF SensorInv, WireInv, SensorTypeOK
<1> QED
  BY <1>1, SensorInvariant, PTL

(* After Swallow bytes of clean frames a parser looks for a start.         *)
THEOREM SensorSettles == SensorSpec => []SettlesInTime
<1>1. SensorInv => SettlesInTime
  <2> SUFFICES ASSUME SensorInv, reads, at = 0, quiet = Swallow
               PROVE  parser = Searching
    BY DEF SettlesInTime
  <2>1. ~parser.instep
    BY DEF SensorInv, StepInv, InStep, Mr60InStep, LdInStep, WireInv
  <2>2. Within(Swallow - quiet - at)
    BY <2>1 DEF SensorInv, SettleInv, Steady
  <2>3. Swallow - quiet - at = 0
    BY DEF Swallow
  <2>4. Reading => Ahead \in Nat \ {0}
    BY AheadIsPositive
  <2> QED
    BY <2>2, <2>3, <2>4 DEF Within
<1> QED
  BY <1>1, SensorInvariant, PTL

(* A parser in step stays with the frame to its last byte, and no further. *)
THEOREM SensorFramesAreWhole == SensorSpec => FramesAreWhole
<1> DEFINE Stays == parser.instep => IF at' = 0 THEN ~parser'.instep
                                     ELSE parser'.instep \/ ~whole'
       Between == at = 0 => ~parser.instep
<1>1. SensorInv => Between
  <2> SUFFICES ASSUME SensorInv, at = 0 PROVE ~parser.instep
    OBVIOUS
  <2>1. payload \in Nat
    BY DEF SensorInv, WireInv
  <2>2. ~Mr60InStep /\ ~LdInStep
    BY <2>1 DEF Mr60InStep, LdInStep
  <2> QED
    BY <2>2 DEF SensorInv, StepInv, InStep
<1>2. ASSUME SensorInv, Between', [SensorNext]_sensorVars
      PROVE  [Stays]_sensorVars
  <2>1. CASE Read
    <3>1. at' = IF at + 1 = FrameSize THEN 0 ELSE at + 1
      BY <2>1 DEF Read, Sent
    <3>2. parser.instep /\ at + 1 # FrameSize => parser'.instep
      BY <1>2, <2>1, Reads
    <3>3. parser.instep /\ at + 1 = FrameSize => at' = 0
      BY <3>1
    <3> QED
      BY <1>2, <3>2, <3>3
  <2>2. CASE Overflow
    <3>1. ~parser'.instep
      BY <1>2, <2>2 DEF Overflow, SensorInv, ParserInv
    <3>2. at' # 0 => ~whole'
      BY <2>2 DEF Overflow, Sent
    <3> QED
      BY <3>1, <3>2
  <2>3. ASSUME NEW t \in Sensors, NEW started \in BOOLEAN, Detect(t, started)
        PROVE  Stays
    <3>1. ~parser'.instep
      BY <2>3 DEF Detect, Searching
    <3>2. ~parser.instep
      BY <1>2, <2>3 DEF Detect, SensorInv, WireInv, StepInv
    <3> QED
      BY <3>1, <3>2
  <2> QED
    BY <1>2, <2>1, <2>2, <2>3 DEF SensorNext
<1> QED
  BY <1>1, <1>2, SensorInvariant, PTL DEF SensorSpec, FramesAreWhole
=============================================================================

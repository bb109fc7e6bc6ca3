--------------------------- MODULE CsiPath_proofs ---------------------------
(***************************************************************************)
(* Proofs about the way of a frame through the callback, for every         *)
(* interval, every cadence of the sync packets and every width of the      *)
(* sequence counter; about the sender, for every cap and doubling and any  *)
(* number of racing tasks; and that the second carries over to the path.   *)
(***************************************************************************)
EXTENDS CsiPath, TLAPS

(* The clocks of the callback: a send lies before the gate of the frame    *)
(* that follows it, and once a frame was held back the send lies before    *)
(* the gate that let that frame through.                                   *)
Gates ==
  /\ phase = "gate" => sendAge >= processAge
  /\ skips # 0 => sendAge >= processAge
  /\ phase = "gate" /\ skips # 0 => sendAge = Interval
  /\ phase = "sending" => skips = 0

(* The numbers since the last mark are counted by s_cb_count and by the    *)
(* sync packets that were lost.                                            *)
Counts ==
  mark # NoMark =>
    Since(mark) = owed + (IF phase # "idle" /\ counted = 0 THEN SyncEvery ELSE counted)

CollectorInv == CollectorTypeOK /\ Gates /\ Counts /\ SkipsAreSingle

CollectorNext ==
  \/ TakeForeign \/ Take \/ HoldBack \/ NoSync \/ EmitSync \/ LoseSync \/ Offer
  \/ Sent \/ NotSent \/ Pass

(* What the sender does is for the callback one of its steps or none.      *)
LEMMA PathStepsCollector == [PathNext]_pathVars => [CollectorNext]_collectorVars
  BY DEF PathNext, pathVars, CollectorNext, CallbackStep, Alone, SendSync,
         OfferToSender, Accepted, Refused, Within, OtherCallers, Time

LEMMA CollectorInvInit == CollectorInit => CollectorInv
  BY IntervalAssumption, SyncAssumption
  DEF CollectorInit, CollectorInv, CollectorTypeOK, Gates, Counts, Since, SkipsAreSingle, NoMark

(* Every step of the callback and every unit of time keep the invariant.   *)
LEMMA CollectorInvStep ==
  CollectorInv /\ [CollectorNext]_collectorVars => CollectorInv'
<1> SUFFICES ASSUME CollectorInv, [CollectorNext]_collectorVars PROVE CollectorInv'
  OBVIOUS
<1> USE IntervalAssumption, SyncAssumption
        DEF CollectorInv, CollectorTypeOK, Gates, Counts, Since, SkipsAreSingle, NoMark
<1>1. CASE TakeForeign
  BY <1>1 DEF TakeForeign, EarlyGate
<1>2. CASE Take
  BY <1>2 DEF Take, EarlyGate, Advance, Serialize, Following
<1>3. CASE HoldBack
  BY <1>3 DEF HoldBack, Advance
<1>4. CASE NoSync
  BY <1>4 DEF NoSync, SyncDue, Advance
<1>5. CASE EmitSync
  BY <1>5 DEF EmitSync, SyncDue, Advance
<1>6. CASE Offer
  BY <1>6 DEF Offer, Advance
<1>7. CASE Sent
  BY <1>7 DEF Sent, Advance
<1>8. CASE NotSent
  BY <1>8 DEF NotSent, Advance
<1>9. CASE Pass
  BY <1>9 DEF Pass, Older
<1>10. CASE LoseSync
  BY <1>10 DEF LoseSync, SyncDue, Advance
<1>11. CASE UNCHANGED collectorVars
  BY <1>11 DEF collectorVars
<1> QED
  BY <1>1, <1>2, <1>3, <1>4, <1>5, <1>6, <1>7, <1>8, <1>9, <1>10, <1>11 DEF CollectorNext

(* The invariant of the callback holds on the path, whatever the sender    *)
(* answers.                                                                *)
THEOREM CollectorInvariant == PathSpec => []CollectorInv
<1>1. PathInit => CollectorInv
  BY CollectorInvInit DEF PathInit
<1>2. CollectorInv /\ [PathNext]_pathVars => CollectorInv'
  BY CollectorInvStep, PathStepsCollector
<1> QED
  BY <1>1, <1>2, PTL DEF PathSpec

(* The second gate never holds back two frames in a row, for every         *)
(* interval and however the time falls between the two gates.              *)
THEOREM StreamAtWorstHalved == PathSpec => []SkipsAreSingle
  BY CollectorInvariant, PTL DEF CollectorInv

(* A frame handed to the sender lies no further behind the last sync       *)
(* packet that went out than the packets the driver refused since account  *)
(* for: for every cadence, across every wrap of s_sequence and through     *)
(* every cooldown.                                                         *)
THEOREM EveryFrameIsPlaced == PathSpec => []FramesArePlaced
<1>1. CollectorInv => FramesArePlaced
  BY SyncAssumption DEF CollectorInv, CollectorTypeOK, Counts, FramesArePlaced, Since, NoMark
<1> QED
  BY <1>1, CollectorInvariant, PTL

-----------------------------------------------------------------------------
(* A cooldown is never longer than the cap, nor shorter than the one       *)
(* before it.                                                              *)
LEMMA CooldownsGrow ==
  ASSUME NEW n \in Nat
  PROVE  Cooldown(n) \in 1..CapCooldown /\ Cooldown(n) <= Cooldown(n + 1)
<1> DEFINE Shift(m) == IF m < MaxShift THEN m ELSE MaxShift
           Doubled(m) == 2 ^ Shift(m)
<1>1. /\ Shift(n) \in 0..MaxShift /\ Shift(n + 1) \in 0..MaxShift
      /\ Shift(n + 1) = Shift(n) \/ (Shift(n + 1) > 0 /\ Shift(n + 1) - 1 = Shift(n))
  BY CooldownAssumption
<1>2. /\ Cooldown(n) = IF Doubled(n) > CapCooldown THEN CapCooldown ELSE Doubled(n)
      /\ Cooldown(n + 1) = IF Doubled(n + 1) > CapCooldown THEN CapCooldown ELSE Doubled(n + 1)
  BY DEF Cooldown
<1> HIDE DEF Shift
<1>3. Doubled(n) \in Nat \ {0} /\ Doubled(n + 1) \in Nat \ {0}
  BY <1>1, DoublingAssumption
<1>4. Doubled(n) <= Doubled(n + 1)
  <2>1. CASE Shift(n + 1) = Shift(n)
    <3>1. Doubled(n + 1) = Doubled(n)
      BY <2>1
    <3> HIDE DEF Doubled
    <3> QED
      BY <1>3, <3>1
  <2>2. CASE Shift(n + 1) > 0 /\ Shift(n + 1) - 1 = Shift(n)
    <3>1. 2 ^ (Shift(n + 1) - 1) <= 2 ^ Shift(n + 1)
      BY <1>1, <2>2, DoublingAssumption
    <3> QED
      BY <2>2, <3>1
  <2> QED
    BY <1>1, <2>1, <2>2
<1> HIDE DEF Doubled
<1> QED
  BY <1>2, <1>3, <1>4, CooldownAssumption

(* However many bulk tasks race, no cooldown outlives the cap and the      *)
(* streak that a task read stays a count.                                  *)
THEOREM SenderTypeCorrect == Spec => []TypeOK
<1>0. 0 \in 0..CapCooldown
  BY CooldownAssumption
<1>1. Init => TypeOK
  <2> SUFFICES ASSUME Init PROVE TypeOK
    OBVIOUS
  <2>1. armed \in BOOLEAN
    BY DEF Init
  <2>2. left \in 0..CapCooldown /\ last \in 0..CapCooldown /\ streak \in Nat /\ mixed \in BOOLEAN
    BY <1>0 DEF Init
  <2>3. seen \in [Bulk -> Nat]
    BY DEF Init
  <2> QED BY <2>1, <2>2, <2>3 DEF Init, TypeOK
<1>2. TypeOK /\ [Next]_vars => TypeOK'
  <2> SUFFICES ASSUME TypeOK, [Next]_vars PROVE TypeOK'
    OBVIOUS
  <2> USE CooldownAssumption DEF TypeOK, Goto
  <2>1. ASSUME NEW t \in Bulk, Step(t) PROVE TypeOK'
    <3>1. CASE Arm(t)
      <4>1. Cooldown(seen[t]) \in 0..CapCooldown
        BY CooldownsGrow
      <4>2. late' \subseteq Bulk
        BY <3>1 DEF Arm, PastGate
      <4>3. armed' \in BOOLEAN
        BY <3>1 DEF Arm
      <4>4. left' \in 0..CapCooldown /\ last' \in 0..CapCooldown
        BY <3>1, <4>1 DEF Arm
      <4>5. /\ pc' \in [Bulk -> {"idle", "timed", "clear", "send", "sent", "nomem", "streak", "arm"}]
            /\ seen' \in [Bulk -> Nat]
        BY <3>1 DEF Arm
      <4>6. streak' \in Nat /\ mixed' \in BOOLEAN
        BY <3>1 DEF Arm
      <4> QED BY <4>2, <4>3, <4>4, <4>5, <4>6
    <3>2. CASE Call(t) \/ Suppress(t) \/ Expire(t) \/ SendError(t)
      BY <3>2 DEF Call, Suppress, Expire, SendError
    <3>3. CASE SendNoMem(t)
      <4>1. mixed' \in BOOLEAN /\ last' \in 0..CapCooldown
        BY <1>0, <3>3 DEF SendNoMem
      <4> QED BY <3>3, <4>1 DEF SendNoMem
    <3>4. CASE Clear(t)
      BY <1>0, <3>4 DEF Clear
    <3>5. CASE SendOk(t)
      BY <1>0, <3>5 DEF SendOk
    <3>6. CASE ReadStreak(t) \/ WriteStreak(t)
      BY <3>6 DEF ReadStreak, WriteStreak
    <3>7. CASE ResetStreak(t)
      <4>1. mixed' \in BOOLEAN
        BY <3>7 DEF ResetStreak
      <4> QED BY <3>7, <4>1 DEF ResetStreak
    <3> QED BY <2>1, <3>1, <3>2, <3>3, <3>4, <3>5, <3>6, <3>7 DEF Step
  <2>2. CASE Tick
    BY <2>2 DEF Tick, InCooldown
  <2>3. CASE UNCHANGED vars
    BY <2>3 DEF vars
  <2> QED BY <2>1, <2>2, <2>3 DEF Next
<1> QED BY <1>1, <1>2, PTL DEF Spec

(* Whoever is past the gate in a cooldown was past it when it was set: the *)
(* gate lets nobody in while the deadline lies ahead, and a new deadline   *)
(* counts again who is in already.                                         *)
THEOREM LateCallsOnly == Spec => []OnlyLateCalls
<1>1. Init => OnlyLateCalls
  BY DEF Init, OnlyLateCalls, InCooldown
<1>2. TypeOK /\ OnlyLateCalls /\ [Next]_vars => OnlyLateCalls'
  <2> SUFFICES ASSUME TypeOK, OnlyLateCalls, [Next]_vars PROVE OnlyLateCalls'
    OBVIOUS
  <2> USE DEF OnlyLateCalls, InCooldown, PastGate, Goto
  <2>0. pc \in [Bulk -> {"idle", "timed", "clear", "send", "sent", "nomem", "streak", "arm"}]
    BY DEF TypeOK
  <2>1. ASSUME NEW t \in Bulk, Step(t) PROVE OnlyLateCalls'
    <3> USE <2>0
    <3>2. CASE Call(t)
      BY <3>2 DEF Call
    <3>3. CASE Suppress(t)
      BY <3>3 DEF Suppress
    <3>4. CASE Expire(t)
      BY <3>4 DEF Expire
    <3>5. CASE Clear(t)
      BY <3>5 DEF Clear
    <3>6. CASE SendOk(t)
      BY <3>6 DEF SendOk
    <3>7. CASE SendError(t)
      BY <3>7 DEF SendError
    <3>8. CASE SendNoMem(t)
      BY <3>8 DEF SendNoMem
    <3>9. CASE ReadStreak(t) \/ WriteStreak(t) \/ ResetStreak(t)
      BY <3>9 DEF ReadStreak, WriteStreak, ResetStreak
    <3>10. CASE Arm(t)
      BY <3>10 DEF Arm
    <3> QED
      BY <2>1, <3>2, <3>3, <3>4, <3>5, <3>6, <3>7, <3>8, <3>9, <3>10 DEF Step
  <2>3. CASE Tick
    <3>1. armed' = armed /\ late' = late /\ PastGate' = PastGate
      BY <2>3 DEF Tick
    <3>2. left > 0 /\ armed
      BY <2>3 DEF Tick
    <3> QED BY <3>1, <3>2
  <2>4. CASE UNCHANGED vars
    BY <2>4 DEF vars
  <2> QED BY <2>1, <2>3, <2>4 DEF Next
<1> QED BY <1>1, <1>2, SenderTypeCorrect, PTL DEF Spec

(* A run of failures whose calls have not overlapped: one call at most is  *)
(* past its send, and neither the streak nor what that call has read of it *)
(* falls behind the last cooldown.                                         *)
RunInv ==
  /\ mixed => last = 0
  /\ ~mixed => \A t, u \in PastSend : t = u
  /\ \A t \in Bulk : pc[t] = "sent" => last = 0
  /\ last # 0 => last <= Cooldown(streak)
  /\ \A t \in Bulk : pc[t] \in {"streak", "arm"} /\ last # 0 => last <= Cooldown(seen[t])
  /\ \A t \in Bulk : pc[t] = "arm" /\ ~mixed => streak = seen[t] + 1

LEMMA RunInvariant == Spec => [](TypeOK /\ RunInv)
<1>1. Init => RunInv
  BY DEF Init, RunInv, PastSend
<1>2. TypeOK /\ RunInv /\ [Next]_vars => RunInv'
  <2> SUFFICES ASSUME TypeOK, RunInv, [Next]_vars
               PROVE  RunInv'
    OBVIOUS
  <2> USE DEF RunInv, PastSend, Goto
  <2>0. /\ pc \in [Bulk -> {"idle", "timed", "clear", "send", "sent", "nomem", "streak", "arm"}]
        /\ seen \in [Bulk -> Nat] /\ streak \in Nat /\ last \in 0..CapCooldown
        /\ mixed \in BOOLEAN /\ CapCooldown \in Nat
    BY CooldownAssumption DEF TypeOK
  <2>1. ASSUME NEW t \in Bulk, Call(t) \/ Suppress(t) \/ Expire(t) \/ Clear(t) \/ SendError(t)
        PROVE  RunInv'
    BY <2>0, <2>1 DEF Call, Suppress, Expire, Clear, SendError
  <2>2. ASSUME NEW t \in Bulk, SendOk(t) PROVE RunInv'
    BY <2>0, <2>2 DEF SendOk
  <2>3. ASSUME NEW t \in Bulk, SendNoMem(t) PROVE RunInv'
    BY <2>0, <2>3 DEF SendNoMem
  <2>4. ASSUME NEW t \in Bulk, ReadStreak(t) PROVE RunInv'
    BY <2>0, <2>4 DEF ReadStreak
  <2>5. ASSUME NEW t \in Bulk, WriteStreak(t) PROVE RunInv'
    <3>1. Cooldown(seen[t]) \in 1..CapCooldown /\ Cooldown(seen[t]) <= Cooldown(seen[t] + 1)
          /\ Cooldown(seen[t] + 1) \in 1..CapCooldown
      BY <2>0, CooldownsGrow
    <3>2. streak' = seen[t] + 1 /\ last' = last /\ mixed' = mixed /\ seen' = seen
      BY <2>5 DEF WriteStreak
    <3>3. pc[t] = "streak" /\ pc' = [pc EXCEPT ![t] = "arm"]
      BY <2>5 DEF WriteStreak
    <3>4. last # 0 => last <= Cooldown(seen[t] + 1)
      BY <2>0, <3>1, <3>3
    <3>5. (last # 0 => last <= Cooldown(streak))'
      BY <3>2, <3>4
    <3>6. PastSend' = PastSend
      BY <2>0, <3>3
    <3>7. (\A u \in Bulk : pc[u] = "arm" /\ ~mixed => streak = seen[u] + 1)'
      BY <2>0, <3>2, <3>3
    <3> QED BY <2>0, <3>2, <3>3, <3>5, <3>6, <3>7
  <2>6. ASSUME NEW t \in Bulk, Arm(t) PROVE RunInv'
    <3>1. Cooldown(seen[t]) \in 1..CapCooldown /\ Cooldown(seen[t]) <= Cooldown(seen[t] + 1)
          /\ Cooldown(seen[t] + 1) \in 1..CapCooldown
      BY <2>0, CooldownsGrow
    <3>2. /\ pc[t] = "arm" /\ pc' = [pc EXCEPT ![t] = "idle"]
          /\ streak' = streak /\ seen' = [seen EXCEPT ![t] = 0]
          /\ mixed' = (mixed /\ PastSend # {t})
          /\ last' = IF mixed THEN 0 ELSE Cooldown(seen[t])
      BY <2>6 DEF Arm
    <3>3. PastSend' = PastSend \ {t}
      BY <2>0, <3>2
    <3>4. CASE mixed
      <4>1. last' = 0
        BY <3>2, <3>4
      <4>2. ~mixed' => PastSend' = {}
        BY <3>2, <3>3, <3>4
      <4> QED BY <2>0, <3>2, <4>1, <4>2
    <3>5. CASE ~mixed
      <4>1. PastSend' = {} /\ ~mixed'
        BY <2>0, <3>2, <3>3, <3>5
      <4>2. \A u \in Bulk : pc'[u] \notin {"sent", "nomem", "streak", "arm"}
        BY <4>1
      <4>3. last' = Cooldown(seen[t]) /\ streak' = seen[t] + 1
        BY <3>2, <3>5
      <4>4. last' <= Cooldown(streak')
        BY <3>1, <4>3
      <4>5. (last # 0 => last <= Cooldown(streak))'
        BY <4>4
      <4> QED BY <4>1, <4>2, <4>5
    <3> QED BY <3>4, <3>5
  <2>7. ASSUME NEW t \in Bulk, ResetStreak(t) PROVE RunInv'
    BY <2>0, <2>7 DEF ResetStreak
  <2>8. CASE Tick \/ UNCHANGED vars
    BY <2>8 DEF Tick, vars
  <2> QED BY <2>1, <2>2, <2>3, <2>4, <2>5, <2>6, <2>7, <2>8 DEF Next, Step
<1> QED BY <1>1, <1>2, SenderTypeCorrect, PTL DEF Spec

(* While no send succeeds and no two calls are past their sends at once,   *)
(* the cooldowns never get shorter, for any number of callers, any cap and *)
(* any number of doublings.                                                *)
THEOREM BacksOff == Spec => BackoffNeverShrinks
<1>1. TypeOK /\ RunInv /\ [Next]_vars => [last' # last /\ last' # 0 => last' >= last]_vars
  <2> SUFFICES ASSUME TypeOK, RunInv, Next, last' # last, last' # 0
               PROVE  last' >= last
    OBVIOUS
  <2>1. PICK t \in Bulk : Arm(t)
    BY DEF Next, Step, Call, Suppress, Expire, Clear, SendOk, SendError, SendNoMem,
           ReadStreak, WriteStreak, ResetStreak, Tick
  <2>2. ~mixed /\ last' = Cooldown(seen[t]) /\ pc[t] = "arm"
    BY <2>1 DEF Arm, Goto
  <2>3. Cooldown(seen[t]) \in 1..CapCooldown
    BY CooldownsGrow DEF TypeOK
  <2>4. last \in 0..CapCooldown /\ (last # 0 => last <= Cooldown(seen[t]))
    BY <2>2 DEF TypeOK, RunInv
  <2> QED BY <2>2, <2>3, <2>4, CooldownAssumption
<1> QED BY <1>1, RunInvariant, PTL DEF Spec, BackoffNeverShrinks

-----------------------------------------------------------------------------
(* The callback and the timers use the sender as StreamSender says: what   *)
(* is proved of it holds on the path.                                      *)
LEMMA PathRunsTheSender == PathSpec => Spec
<1>1. PathInit => Init
  BY DEF PathInit
<1>2. [PathNext]_pathVars => [Next]_vars
  <2> SUFFICES ASSUME [PathNext]_pathVars PROVE [Next]_vars
    OBVIOUS
  <2>1. Callback \in Bulk
    BY CallbackAssumption
  <2>2. CASE OfferToSender \/ Accepted \/ Refused \/ Within
    BY <2>1, <2>2 DEF OfferToSender, Accepted, Refused, Within, Next, Step
  <2>3. CASE Alone \/ SendSync
    BY <2>3 DEF Alone, SendSync
  <2>4. CASE OtherCallers
    BY <2>4 DEF OtherCallers, Next
  <2>5. CASE Time
    BY <2>5 DEF Time, Next
  <2>6. CASE UNCHANGED pathVars
    BY <2>6 DEF pathVars
  <2> QED
    BY <2>2, <2>3, <2>4, <2>5, <2>6 DEF PathNext, CallbackStep
<1> QED
  BY <1>1, <1>2, PTL DEF PathSpec, Spec

(* The callback and the sender stay within their types on the path.        *)
THEOREM PathTypeCorrect == PathSpec => []PathTypeOK
<1>1. CollectorInv => CollectorTypeOK
  BY DEF CollectorInv
<1> QED
  BY <1>1, CollectorInvariant, PathRunsTheSender, SenderTypeCorrect, PTL DEF PathTypeOK

(* On the path too a cooldown is broken only by late calls, whichever and  *)
(* however many other tasks send beside the callback.                      *)
THEOREM PathLateCallsOnly == PathSpec => []OnlyLateCalls
  BY PathRunsTheSender, LateCallsOnly, PTL

(* So does the backoff grow through every run of failures there.           *)
THEOREM PathBacksOff == PathSpec => BackoffNeverShrinks
  BY PathRunsTheSender, BacksOff, PTL
=============================================================================

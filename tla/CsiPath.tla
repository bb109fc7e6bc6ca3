------------------------------ MODULE CsiPath ------------------------------
(***************************************************************************)
(* The way of a CSI frame out of the node: the callback of CsiCollector    *)
(* calls the sender of StreamSender and waits for its answer.  It is not   *)
(* alone there: on every edge tier main.c starts the timer that sends the  *)
(* packets of WASM modules, and from tier 1 on the DSP task sends its own; *)
(* these are the other members of Bulk.                                    *)
(* The cooldown and the gates run on the same clock; nothing below depends *)
(* on how their units relate, so each passes at its own pace.              *)
(***************************************************************************)
EXTENDS StreamSender, CsiCollector

CONSTANT Callback  \* the WiFi task, which runs the CSI callback

ASSUME CallbackAssumption == Callback \in Bulk

pathVars == <<vars, collectorVars>>

PathInit == Init /\ CollectorInit

(* Mutant: a sync packet is suppressed in a cooldown, like a frame.        *)
AloneOrSuppressed ==
  /\ \/ TakeForeign \/ Take \/ HoldBack \/ NoSync
     \/ /\ InCooldown
        /\ Advance("sync", "idle")
        /\ UNCHANGED <<filtered, processAge, sendAge, callAge, counted, skips, sequence,
                       mark, owed>>
  /\ UNCHANGED vars

(* wifi_csi_callback outside the sender.                                   *)
Alone == (TakeForeign \/ Take \/ HoldBack \/ NoSync) /\ UNCHANGED vars

SendSync == (EmitSync \/ LoseSync) /\ UNCHANGED vars

OfferToSender == Offer /\ Call(Callback)

(* The steps of stream_sender_send that return, and those that go on.      *)
Accepted == Sent /\ ResetStreak(Callback)

Refused == NotSent /\ (Suppress(Callback) \/ SendError(Callback) \/ Arm(Callback))

Within ==
  /\ Expire(Callback) \/ Clear(Callback) \/ SendOk(Callback) \/ SendNoMem(Callback)
     \/ ReadStreak(Callback) \/ WriteStreak(Callback)
  /\ UNCHANGED collectorVars

CallbackStep == Alone \/ SendSync \/ OfferToSender \/ Accepted \/ Refused \/ Within

(* send_wasm_output and the packets of the DSP task.                       *)
OtherCallers == (\E t \in Bulk \ {Callback} : Step(t)) /\ UNCHANGED collectorVars

Time == \/ Tick /\ UNCHANGED collectorVars
        \/ Pass /\ UNCHANGED vars

PathNext == CallbackStep \/ OtherCallers \/ Time

PathSpec == PathInit /\ [][PathNext]_pathVars

(* The callback runs on once it is entered, and cooldowns pass.  Nothing   *)
(* is assumed of the frames that come, nor of the other callers.           *)
FairPathSpec ==
  /\ PathSpec
  /\ WF_pathVars(phase # "idle" /\ CallbackStep)
  /\ WF_pathVars(Tick /\ UNCHANGED collectorVars)

-----------------------------------------------------------------------------

PathTypeOK == TypeOK /\ CollectorTypeOK

(* However many callers race, the backoff ends: as long as frames keep     *)
(* coming through the gates, some call gets past the deadline.             *)
StreamResumes ==
  []<>(phase = "sending") => (armed ~> \E t \in Bulk : Sending(t))
=============================================================================

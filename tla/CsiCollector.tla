---------------------------- MODULE CsiCollector ----------------------------
(***************************************************************************)
(* The CSI callback of main/csi_collector.c, called by the WiFi task for   *)
(* every received frame: an early gate of 20 ms, the MAC filter, the       *)
(* serialisation, a second gate of 20 ms before the send, the edge ring    *)
(* and, every SyncEvery callbacks, a sync packet.                          *)
(*                                                                         *)
(* Both gates read the clock, and time passes between them: the second     *)
(* compares with the time read before the last send that succeeded.        *)
(* Times are kept as ages, in units the gates' interval is Interval of,    *)
(* and stop at Interval, past which no gate tells them apart.              *)
(*                                                                         *)
(* Left out: the bytes of a frame (the driver's reports fit the buffer, so *)
(* csi_serialize_frame takes them all), the counters that are only logged, *)
(* and the push into the edge ring, which SpscRing models from there on.   *)
(* The hop timer is never started, so the hop table has no effect.         *)
(***************************************************************************)
EXTENDS Integers

CONSTANTS
  Interval,  \* CSI_MIN_PROCESS_INTERVAL_US and CSI_MIN_SEND_INTERVAL_US
  SyncEvery, \* CONFIG_C6_SYNC_EVERY_N_FRAMES, 20
  SequenceWidth, \* the values of s_sequence, 2^32
  MaxOwed    \* bound: frames whose sync packets were lost in a row

ASSUME IntervalAssumption == Interval \in Nat \ {0}
ASSUME SyncAssumption ==
  /\ SyncEvery \in Nat \ {0} /\ SequenceWidth \in Nat /\ MaxOwed \in Nat
  /\ MaxOwed + SyncEvery < SequenceWidth

VARIABLES
  filtered,    \* s_filter_mac_set
  phase,       \* where the callback is: "idle", "gate", "sending", "sync"
  processAge,  \* now - s_last_process_us
  sendAge,     \* now - s_last_send_us
  callAge,     \* now - the time read at the second gate
  counted,     \* s_cb_count modulo SyncEvery
  skips,       \* history: frames in a row the second gate held back
  sequence,    \* s_sequence, the number of the next frame
  mark,        \* the s_sequence in the last sync packet that was sent
  owed         \* history: the frames the sync packets lost since would have marked

collectorVars == <<filtered, phase, processAge, sendAge, callAge, counted, skips, sequence,
                   mark, owed>>

NoMark == -1

(* csi_collector_set_node_id has captured the filter; the clock is past    *)
(* the first interval when the callback is registered.                     *)
CollectorInit ==
  /\ filtered \in BOOLEAN
  /\ phase = "idle"
  /\ processAge = Interval /\ sendAge = Interval /\ callAge = Interval
  /\ counted = 0 /\ skips = 0
  /\ sequence = 0 /\ mark = NoMark /\ owed = 0

Advance(from, to) == phase = from /\ phase' = to

-----------------------------------------------------------------------------
(* wifi_csi_callback up to the second gate.  A frame within the interval   *)
(* is dropped with no effect.                                              *)

(* n + 1 for a counter that wraps at width.                                *)
Following(n, width) == IF n + 1 = width THEN 0 ELSE n + 1

(* csi_serialize_frame: every frame takes a number, sent or not.           *)
Serialize == sequence' = Following(sequence, SequenceWidth)

EarlyGate == processAge = Interval /\ processAge' = 0

(* A frame of another sender: it has taken the interval all the same.      *)
TakeForeign ==
  /\ filtered
  /\ EarlyGate
  /\ phase = "idle"
  /\ UNCHANGED <<filtered, phase, sendAge, callAge, counted, skips, sequence, mark, owed>>

(* Mutant: the early gate does not note the time.                          *)
TakeUnmarked ==
  /\ processAge = Interval
  /\ Advance("idle", "gate")
  /\ counted' = Following(counted, SyncEvery)
  /\ Serialize
  /\ UNCHANGED <<filtered, processAge, sendAge, callAge, skips, mark, owed>>

Take ==
  /\ EarlyGate
  /\ Advance("idle", "gate")
  /\ counted' = Following(counted, SyncEvery)
  /\ Serialize
  /\ UNCHANGED <<filtered, sendAge, callAge, skips, mark, owed>>

-----------------------------------------------------------------------------
(* The second gate and the send.                                           *)

HoldBack ==
  /\ sendAge < Interval
  /\ Advance("gate", "sync")
  /\ skips' = skips + 1
  /\ UNCHANGED <<filtered, processAge, sendAge, callAge, counted, sequence, mark, owed>>

Offer ==
  /\ sendAge = Interval
  /\ Advance("gate", "sending")
  /\ callAge' = 0 /\ skips' = 0
  /\ UNCHANGED <<filtered, processAge, sendAge, counted, sequence, mark, owed>>

(* stream_sender_send returned: only a success starts a new interval.      *)
Sent ==
  /\ Advance("sending", "sync")
  /\ sendAge' = callAge
  /\ UNCHANGED <<filtered, processAge, callAge, counted, skips, sequence, mark, owed>>

NotSent ==
  /\ Advance("sending", "sync")
  /\ UNCHANGED <<filtered, processAge, sendAge, callAge, counted, skips, sequence, mark, owed>>

-----------------------------------------------------------------------------
(* The end of the callback.                                                *)

SyncDue == counted = 0

(* The sync packet goes through stream_sender_send_priority.               *)
EmitSync ==
  /\ SyncDue
  /\ Advance("sync", "idle")
  /\ mark' = sequence /\ owed' = 0
  /\ UNCHANGED <<filtered, processAge, sendAge, callAge, counted, skips, sequence>>

(* The send fails, with ENOMEM or another error, and nobody looks: the next*)
(* packet is due SyncEvery callbacks later.                                *)
LoseSync ==
  /\ SyncDue /\ owed + SyncEvery <= MaxOwed
  /\ Advance("sync", "idle")
  /\ owed' = owed + SyncEvery
  /\ UNCHANGED <<filtered, processAge, sendAge, callAge, counted, skips, sequence, mark>>

NoSync ==
  /\ ~SyncDue
  /\ Advance("sync", "idle")
  /\ UNCHANGED <<filtered, processAge, sendAge, callAge, counted, skips, sequence, mark, owed>>

Older(age) == IF age < Interval THEN age + 1 ELSE age

Pass ==
  /\ \E age \in {processAge, sendAge, callAge} : age < Interval
  /\ processAge' = Older(processAge)
  /\ sendAge' = Older(sendAge)
  /\ callAge' = Older(callAge)
  /\ UNCHANGED <<filtered, phase, counted, skips, sequence, mark, owed>>

-----------------------------------------------------------------------------

CollectorTypeOK ==
  /\ filtered \in BOOLEAN
  /\ phase \in {"idle", "gate", "sending", "sync"}
  /\ processAge \in 0..Interval /\ sendAge \in 0..Interval /\ callAge \in 0..Interval
  /\ counted \in 0..(SyncEvery - 1)
  /\ skips \in Nat
  /\ sequence \in 0..(SequenceWidth - 1) /\ mark \in {NoMark} \cup 0..(SequenceWidth - 1)
  /\ owed \in 0..MaxOwed

(* The gates read the clock at different moments, so the second may hold   *)
(* back a frame the first let through; but never two in a row, however     *)
(* the time falls: the stream is at worst halved.                          *)
SkipsAreSingle == skips <= 1

(* The numbers taken since n, modulo the width of s_sequence.              *)
Since(n) == IF sequence >= n THEN sequence - n ELSE sequence - n + SequenceWidth

(* Only sync packets that the driver itself refused cost the host its      *)
(* bearings, the ENOMEM backoff none: once a first packet is out, a frame  *)
(* on its way out is one of the SyncEvery numbered after the last mark, or *)
(* of the SyncEvery more that each packet lost since would have marked.    *)
FramesArePlaced ==
  phase = "sending" /\ mark # NoMark => Since(mark) \in 1..(SyncEvery + owed)
=============================================================================

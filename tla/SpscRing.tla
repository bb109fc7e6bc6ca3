------------------------------ MODULE SpscRing ------------------------------
(***************************************************************************)
(* The lock-free single-producer single-consumer ring of                   *)
(* main/edge_processing.c, between wifi_csi_callback on core 0 and         *)
(* edge_task on core 1.                                                    *)
(*                                                                         *)
(* A slot is written and copied in two parts, the I/Q bytes and the        *)
(* metadata (iq_len, rssi, channel, timestamp), between which the other    *)
(* core may run.  The CSI callback is already live when app_main calls     *)
(* edge_processing_init, which clears the ring under it: on core 0 the     *)
(* callback preempts the memset but is never preempted by it.              *)
(***************************************************************************)
EXTENDS Integers, Sequences

CONSTANTS
  Slots,     \* EDGE_RING_SLOTS
  MaxFrames  \* bound: frames the radio delivers

ASSUME SlotsAssumption == Slots \in Nat \ {0}
ASSUME FramesAssumption == MaxFrames \in Nat

VARIABLES
  phase,     \* edge_processing_init: "live" before it, "cleared" with the slots
             \* zeroed, "ready" after the memset, then "consuming" or "passthrough"
  head, tail,
  iq, meta,  \* the two parts of each slot, named by the frame they hold; 0 is empty
  frames,    \* CSI frames captured so far; a frame is its number
  pushing,   \* where ring_push is: "idle", "iq", "meta" or "publish"
  popping,   \* where ring_pop is: "idle", "iq", "meta" or "advance"
  out,       \* the slot edge_task is copying into
  drops,     \* s_ring_drops
  accepted,  \* history: the frames ring_push accepted since the ring was cleared
  delivered  \* history: the slots ring_pop returned

producer == <<frames, pushing, drops>>
consumer == <<popping, out>>
vars == <<phase, head, tail, iq, meta, producer, consumer, accepted, delivered>>

Index == 0..(Slots - 1)

Succ(i) == (i + 1) % Slots
EmptySlot == [iq |-> 0, meta |-> 0]

(* The ring starts in zeroed memory.                                       *)
Init ==
  /\ phase = "live"
  /\ head = 0 /\ tail = 0
  /\ iq = [i \in Index |-> 0] /\ meta = [i \in Index |-> 0]
  /\ frames = 0 /\ pushing = "idle" /\ drops = 0
  /\ popping = "idle" /\ out = EmptySlot
  /\ accepted = <<>> /\ delivered = <<>>

-----------------------------------------------------------------------------
(* edge_processing_init: memset(&s_ring, 0, ...) runs over the slots, then *)
(* over head and tail; then the DSP task starts, unless the tier is 0 or   *)
(* the task cannot be created.                                             *)

ClearSlots ==
  /\ phase = "live" /\ pushing = "idle"
  /\ phase' = "cleared"
  /\ iq' = [i \in Index |-> 0] /\ meta' = [i \in Index |-> 0]
  /\ UNCHANGED <<head, tail, producer, consumer, accepted, delivered>>

ClearIndices ==
  /\ phase = "cleared" /\ pushing = "idle"
  /\ phase' = "ready"
  /\ head' = 0 /\ tail' = 0
  /\ accepted' = <<>>
  /\ UNCHANGED <<iq, meta, producer, consumer, delivered>>

StartTask ==
  /\ phase = "ready" /\ pushing = "idle"
  /\ phase' \in {"consuming", "passthrough"}
  /\ UNCHANGED <<head, tail, iq, meta, producer, consumer, accepted, delivered>>

-----------------------------------------------------------------------------
(* ring_push, called by edge_enqueue_csi.                                  *)

(* Mutant: the ring counts as full only when every slot is used.           *)
NeverFull == FALSE

Full == Succ(head) = tail

Drop ==
  /\ pushing = "idle" /\ frames < MaxFrames
  /\ Full
  /\ frames' = frames + 1
  /\ drops' = drops + 1
  /\ UNCHANGED <<phase, head, tail, iq, meta, pushing, consumer, accepted, delivered>>

BeginPush ==
  /\ pushing = "idle" /\ frames < MaxFrames
  /\ ~Full
  /\ frames' = frames + 1
  /\ pushing' = "iq"
  /\ UNCHANGED <<phase, head, tail, iq, meta, drops, consumer, accepted, delivered>>

WriteIq ==
  /\ pushing = "iq"
  /\ iq' = [iq EXCEPT ![head] = frames]
  /\ pushing' = "meta"
  /\ UNCHANGED <<phase, head, tail, meta, frames, drops, consumer, accepted, delivered>>

(* Mutant: without the barrier the metadata may still be on its way when   *)
(* head moves.                                                             *)
WriteMetaLate ==
  /\ pushing = "meta"
  /\ pushing' = "publish"
  /\ UNCHANGED <<phase, head, tail, iq, meta, frames, drops, consumer, accepted, delivered>>

WriteMeta ==
  /\ pushing = "meta"
  /\ meta' = [meta EXCEPT ![head] = frames]
  /\ pushing' = "publish"
  /\ UNCHANGED <<phase, head, tail, iq, frames, drops, consumer, accepted, delivered>>

Publish ==
  /\ pushing = "publish"
  /\ head' = Succ(head)
  /\ accepted' = Append(accepted, frames)
  /\ pushing' = "idle"
  /\ UNCHANGED <<phase, tail, iq, meta, frames, drops, consumer, delivered>>

-----------------------------------------------------------------------------
(* ring_pop, called by edge_task for each frame of a batch.                *)

BeginPop ==
  /\ phase = "consuming" /\ popping = "idle"
  /\ tail # head
  /\ popping' = "iq"
  /\ UNCHANGED <<phase, head, tail, iq, meta, producer, out, accepted, delivered>>

ReadIq ==
  /\ popping = "iq"
  /\ out' = [out EXCEPT !.iq = iq[tail]]
  /\ popping' = "meta"
  /\ UNCHANGED <<phase, head, tail, iq, meta, producer, accepted, delivered>>

ReadMeta ==
  /\ popping = "meta"
  /\ out' = [out EXCEPT !.meta = meta[tail]]
  /\ popping' = "advance"
  /\ UNCHANGED <<phase, head, tail, iq, meta, producer, accepted, delivered>>

(* Mutant: the consumer jumps to the newest frame.                         *)
AdvanceToHead ==
  /\ popping = "advance"
  /\ tail' = head
  /\ delivered' = Append(delivered, out)
  /\ popping' = "idle"
  /\ UNCHANGED <<phase, head, iq, meta, producer, out, accepted>>

Advance ==
  /\ popping = "advance"
  /\ tail' = Succ(tail)
  /\ delivered' = Append(delivered, out)
  /\ popping' = "idle"
  /\ UNCHANGED <<phase, head, iq, meta, producer, out, accepted>>

-----------------------------------------------------------------------------

Producer == Drop \/ BeginPush \/ WriteIq \/ WriteMeta \/ Publish
Consumer == BeginPop \/ ReadIq \/ ReadMeta \/ Advance
Next == ClearSlots \/ ClearIndices \/ StartTask \/ Producer \/ Consumer

Spec == Init /\ [][Next]_vars

(* FreeRTOS runs both tasks to the end of what they began; the radio owes  *)
(* no frame, so BeginPush and Drop are not fair.                           *)
FairSpec ==
  /\ Spec
  /\ WF_vars(WriteIq \/ WriteMeta \/ Publish)
  /\ WF_vars(Consumer)

-----------------------------------------------------------------------------

TypeOK ==
  /\ phase \in {"live", "cleared", "ready", "consuming", "passthrough"}
  /\ head \in Index /\ tail \in Index
  /\ iq \in [Index -> Nat] /\ meta \in [Index -> Nat]
  /\ frames \in Nat
  /\ pushing \in {"idle", "iq", "meta", "publish"}
  /\ drops \in Nat
  /\ popping \in {"idle", "iq", "meta", "advance"}
  /\ out \in [iq : Nat, meta : Nat]
  /\ accepted \in Seq(Nat)
  /\ delivered \in Seq([iq : Nat, meta : Nat])

(* The cores never touch one slot at the same time: while the DSP task     *)
(* copies slots[tail], the callback writes another slot.                   *)
NoSharedSlot == pushing # "idle" /\ popping # "idle" => head # tail

(* The DSP task receives the accepted frames in order, each once and each  *)
(* whole: no slot mixes the I/Q of one frame with the metadata of another, *)
(* and none is left over from before edge_processing_init.                 *)
InOrderAndWhole ==
  /\ Len(delivered) <= Len(accepted)
  /\ \A k \in 1..Len(delivered) :
       delivered[k] = [iq |-> accepted[k], meta |-> accepted[k]]

(* A frame is dropped only when all the slots but one hold frames the DSP  *)
(* task has not taken, so a burst loses its newest frames and no old ones. *)
Backlog == Len(accepted) - Len(delivered)
DropOnlyWhenFull == [][drops' # drops => Backlog = Slots - 1]_vars

(* The frames that wait, as whole slots.                                   *)
Whole(frame) == [iq |-> frame, meta |-> frame]
Waiting == [k \in 1..Backlog |-> Whole(accepted[Len(delivered) + k])]

Queue == INSTANCE BoundedQueue WITH
  Items <- {Whole(frame) : frame \in 1..MaxFrames}, Capacity <- Slots - 1,
  queue <- Waiting, taken <- delivered, lost <- drops

(* With all its half-written and half-copied slots the ring is a queue of  *)
(* Slots - 1 frames: a frame goes in and comes out whole and in one step,  *)
(* the oldest one first, and only a full ring drops one.                   *)
ImplementsQueue == Queue!Spec

(* Every accepted frame reaches the DSP task once that task runs.          *)
EveryFrameDelivered ==
  \A k \in 1..MaxFrames :
    (phase = "consuming" /\ Len(accepted) >= k) ~> (Len(delivered) >= k)
=============================================================================

---------------------------- MODULE StreamSender ----------------------------
(***************************************************************************)
(* The UDP sender of main/stream_sender.c and its ENOMEM backoff.          *)
(*                                                                         *)
(* stream_sender_send is called by the CSI callback, by the esp_timer task *)
(* for the packets of WASM modules and, from edge tier 1 on, by the DSP    *)
(* task on the other core.  s_backoff_until_us and s_enomem_streak are     *)
(* plain globals without a lock, so the steps of the callers interleave.   *)
(* stream_sender_send_priority touches neither, whatever its send meets:   *)
(* the control packets pass beside this module, and the one whose outcome  *)
(* matters is the sync packet of CsiCollector.                             *)
(*                                                                         *)
(* Time is relative: left is s_backoff_until_us minus now, in units of the *)
(* base cooldown, and armed says s_backoff_until_us > 0.  The counter      *)
(* s_enomem_suppressed only paces a log line and is left out, as is a      *)
(* tear of the 64-bit deadline between two 32-bit stores.                  *)
(***************************************************************************)
EXTENDS Integers

CONSTANTS
  Bulk,        \* the tasks that call stream_sender_send
  MaxShift,    \* the largest doubling, 5
  CapCooldown, \* ENOMEM_COOLDOWN_MAX_MS over ENOMEM_COOLDOWN_MS, 20
  MaxStreak    \* bound: the streak

ASSUME CooldownAssumption ==
  MaxShift \in Nat /\ CapCooldown \in Nat \ {0} /\ MaxStreak \in Nat

(* Arithmetic that the provers do not know and TLC computes.               *)
ASSUME DoublingAssumption ==
  /\ \A n \in 0..MaxShift : 2 ^ n \in Nat \ {0}
  /\ \A n \in 0..MaxShift : n > 0 => 2 ^ (n - 1) <= 2 ^ n

VARIABLES
  armed, left,  \* s_backoff_until_us
  streak,       \* s_enomem_streak
  pc,           \* where each task is in its call
  seen,         \* the streak the task read in the ENOMEM branch
  last,         \* history: the last cooldown of a run of failures, 0 when it ends
  mixed,        \* history: the calls past their sends have overlapped
  late          \* history: the other calls past the gate when the cooldown was set

vars == <<armed, left, streak, pc, seen, last, mixed, late>>

Init ==
  /\ armed = FALSE /\ left = 0 /\ streak = 0
  /\ pc = [t \in Bulk |-> "idle"]
  /\ seen = [t \in Bulk |-> 0]
  /\ last = 0 /\ mixed = FALSE /\ late = {}

Goto(t, from, to) == pc[t] = from /\ pc' = [pc EXCEPT ![t] = to]

InCooldown == armed /\ left > 0

(* The calls that found no deadline, or a past one, and have yet to send.  *)
PastGate == {t \in Bulk : pc[t] \in {"clear", "send"}}

(* The calls that have yet to update the streak or the deadline.           *)
PastSend == {t \in Bulk : pc[t] \in {"sent", "nomem", "streak", "arm"}}

(* Mutant: the doubling wraps instead of saturating.                       *)
WrappedCooldown(n) ==
  LET doubled == 2 ^ (n % (MaxShift + 1))
  IN  IF doubled > CapCooldown THEN CapCooldown ELSE doubled

Cooldown(n) ==
  LET doubled == 2 ^ (IF n < MaxShift THEN n ELSE MaxShift)
  IN  IF doubled > CapCooldown THEN CapCooldown ELSE doubled

-----------------------------------------------------------------------------
(* stream_sender_send: the gate.                                           *)

(* Mutant: the gate is skipped.                                            *)
CallUngated(t) ==
  /\ Goto(t, "idle", "send")
  /\ UNCHANGED <<armed, left, streak, seen, last, mixed, late>>

Call(t) ==
  /\ Goto(t, "idle", IF armed THEN "timed" ELSE "send")
  /\ UNCHANGED <<armed, left, streak, seen, last, mixed, late>>

Suppress(t) ==
  /\ InCooldown
  /\ Goto(t, "timed", "idle")
  /\ UNCHANGED <<armed, left, streak, seen, last, mixed, late>>

(* Mutant: the call that finds the deadline passed returns all the same.   *)
ExpireAndReturn(t) ==
  /\ ~InCooldown
  /\ Goto(t, "timed", "idle")
  /\ UNCHANGED <<armed, left, streak, seen, last, mixed, late>>

Expire(t) ==
  /\ ~InCooldown
  /\ Goto(t, "timed", "clear")
  /\ UNCHANGED <<armed, left, streak, seen, last, mixed, late>>

Clear(t) ==
  /\ Goto(t, "clear", "send")
  /\ armed' = FALSE /\ left' = 0
  /\ UNCHANGED <<streak, seen, last, mixed, late>>

-----------------------------------------------------------------------------
(* stream_sender_send: sendto and what follows it.                         *)

SendOk(t) ==
  /\ Goto(t, "send", "sent")
  /\ last' = 0 /\ mixed' = (PastSend # {}) /\ late' = late \ {t}
  /\ UNCHANGED <<armed, left, streak, seen>>

SendError(t) ==
  /\ Goto(t, "send", "idle")
  /\ late' = late \ {t}
  /\ UNCHANGED <<armed, left, streak, seen, last, mixed>>

SendNoMem(t) ==
  /\ streak < MaxStreak /\ \A u \in Bulk : seen[u] < MaxStreak
  /\ Goto(t, "send", "nomem")
  /\ mixed' = (PastSend # {}) /\ last' = IF mixed' THEN 0 ELSE last
  /\ late' = late \ {t}
  /\ UNCHANGED <<armed, left, streak, seen>>

ReadStreak(t) ==
  /\ Goto(t, "nomem", "streak")
  /\ seen' = [seen EXCEPT ![t] = streak]
  /\ UNCHANGED <<armed, left, streak, last, mixed, late>>

WriteStreak(t) ==
  /\ Goto(t, "streak", "arm")
  /\ streak' = seen[t] + 1
  /\ UNCHANGED <<armed, left, seen, last, mixed, late>>

Arm(t) ==
  /\ Goto(t, "arm", "idle")
  /\ armed' = TRUE /\ left' = Cooldown(seen[t])
  /\ last' = IF mixed THEN 0 ELSE Cooldown(seen[t])
  /\ mixed' = (mixed /\ PastSend # {t})
  /\ seen' = [seen EXCEPT ![t] = 0]
  /\ late' = PastGate \ {t}
  /\ UNCHANGED streak

ResetStreak(t) ==
  /\ Goto(t, "sent", "idle")
  /\ streak' = 0
  /\ mixed' = (mixed /\ PastSend # {t})
  /\ UNCHANGED <<armed, left, seen, last, late>>

-----------------------------------------------------------------------------

Tick ==
  /\ InCooldown
  /\ left' = left - 1
  /\ UNCHANGED <<armed, streak, pc, seen, last, mixed, late>>

Step(t) ==
  \/ Call(t) \/ Suppress(t) \/ Expire(t) \/ Clear(t)
  \/ SendOk(t) \/ SendError(t) \/ SendNoMem(t)
  \/ ReadStreak(t) \/ WriteStreak(t) \/ Arm(t) \/ ResetStreak(t)

Next ==
  \/ \E t \in Bulk : Step(t)
  \/ Tick

Spec == Init /\ [][Next]_vars

-----------------------------------------------------------------------------

TypeOK ==
  /\ armed \in BOOLEAN /\ left \in 0..CapCooldown /\ streak \in Nat
  /\ pc \in [Bulk -> {"idle", "timed", "clear", "send", "sent", "nomem", "streak", "arm"}]
  /\ seen \in [Bulk -> Nat]
  /\ last \in 0..CapCooldown /\ mixed \in BOOLEAN /\ late \subseteq Bulk

Sending(t) == pc[t] = "send"

(* However many callers race: a cooldown is broken only by calls that were *)
(* past the gate when it was set, each with at most one frame.  (One of    *)
(* them that found an older deadline passed takes back the new one as it   *)
(* goes, line 95: that late call ends the cooldown early.)                 *)
OnlyLateCalls == InCooldown => PastGate \subseteq late

(* While no send succeeds the cooldowns never get shorter, at any length   *)
(* of the run of failures.  A run ends, too, where two calls are past      *)
(* their sends at once: line 109 counts without a lock, and one of them    *)
(* may lose the increment or the reset of the other.                       *)
BackoffNeverShrinks == [][last' # last /\ last' # 0 => last' >= last]_vars
=============================================================================

---------------------------- MODULE WasmRuntime ----------------------------
(***************************************************************************)
(* The slots of main/wasm_runtime.c and the handlers of wasm_upload.c.     *)
(*                                                                         *)
(* Three tasks touch a slot: the HTTP server (one task, so one request at  *)
(* a time, under s_mutex), the DSP task in wasm_runtime_on_frame and the   *)
(* esp_timer task in wasm_runtime_on_timer.  The last two take no lock, so *)
(* the mutex excludes nobody and is not modelled: a request may come       *)
(* between any two of the steps that test a slot, name it in               *)
(* s_cur_slot_id, clear its events and call into it, and while a module's  *)
(* code runs.                                                              *)
(*                                                                         *)
(* A module is named by the number of its upload.  Its code, manifest and  *)
(* telemetry are abstract: it exports on_frame, on_timer, both or neither, *)
(* emits events, and a frame ends in an error or takes some share of its   *)
(* budget.  One without on_init is one whose on_init does nothing.         *)
(***************************************************************************)
EXTENDS Integers

CONSTANTS
  Slots,       \* WASM_MAX_MODULES
  Requests,    \* the kinds of HTTP request clients send
  Exports,     \* the sets of dispatchers that a module may have a function for
  FaultLimit,  \* budget faults that stop a module, 10
  ErrorLimit,  \* errors that stop a module, 100
  MaxUploads,  \* bound: uploads
  MaxInits     \* bound: starts of one module

ASSUME SlotsAssumption == Slots \in Nat \ {0}
ASSUME LimitsAssumption == FaultLimit \in Nat \ {0, 1} /\ ErrorLimit \in Nat \ {0, 1}
ASSUME ExportsAssumption == Exports \subseteq SUBSET {"frame", "timer"}
ASSUME BoundsAssumption == MaxUploads \in Nat /\ MaxInits \in Nat \ {0}

VARIABLES
  state,      \* slot->state
  module,     \* the module whose runtime the slot holds; 0 is none
  exports,    \* the dispatchers whose function is not NULL in the slot
  arena,      \* slot->arena: "kept", "lost" (NULL) or "dangling" (freed)
  faults,     \* slot->budget_faults
  errors,     \* slot->error_count
  events,     \* slot->events: the modules that emitted them
  current,    \* s_cur_slot_id
  http,       \* the request: "idle", or the slot whose module it starts
  step,       \* where each dispatcher is in its loop's body
  picked,     \* the module whose on_timer the timer task found
  call,       \* the module each task is executing; 0 is none
  at,         \* the loop index of on_frame and of on_timer
  uploads,    \* uploads so far
  inits, row, failed, \* history per slot: its module's on_init calls, its
                      \* overruns in a row, its failed frames
  early,      \* history per slot: the calls each dispatcher made of its module
              \* before the first on_init returned
  fresh       \* history: the modules that emitted since a dispatcher cleared its slot

slots == <<state, module, exports>>
counts == <<faults, errors>>
loops == <<step, picked, at>>
history == <<inits, row, failed, early>>
vars == <<slots, arena, counts, events, current, http, call, loops, uploads, history, fresh>>

Slot == 1..Slots
Dispatchers == {"frame", "timer"}
Tasks == Dispatchers \cup {"http"}
NoSlot == 0

All(v) == [s \in Slot |-> v]
Both(v) == [t \in Dispatchers |-> v]

(* wasm_runtime_init: an arena that cannot be allocated leaves NULL.       *)
Init ==
  /\ state = All("empty") /\ module = All(0) /\ exports = All({})
  /\ arena \in [Slot -> {"kept", "lost"}]
  /\ faults = All(0) /\ errors = All(0) /\ events = All({})
  /\ current = 1 /\ http = NoSlot /\ call = [t \in Tasks |-> 0]
  /\ step = Both("test") /\ picked = 0 /\ at = Both(1)
  /\ uploads = 0
  /\ inits = All(0) /\ row = All(0) /\ failed = All(0) /\ fresh = Both({})
  /\ early = All(Both(0))

Put(f, s, v) == [f EXCEPT ![s] = v]

-----------------------------------------------------------------------------
(* wasm_upload_handler: load into the first empty slot, then start.        *)

FirstFree(s) == state[s] = "empty" /\ \A r \in Slot : r < s => state[r] # "empty"

Accepts(kind) == kind \in Requests /\ http = NoSlot

Load(s) ==
  /\ Accepts("upload") /\ uploads < MaxUploads /\ FirstFree(s)
  /\ uploads' = uploads + 1
  /\ state' = Put(state, s, "loaded")
  /\ module' = Put(module, s, uploads')
  /\ \E functions \in Exports : exports' = Put(exports, s, functions)
  /\ errors' = Put(errors, s, 0)
  /\ events' = Put(events, s, {})
  /\ http' = s
  /\ inits' = Put(inits, s, 0) /\ row' = Put(row, s, 0) /\ failed' = Put(failed, s, 0)
  /\ early' = Put(early, s, Both(0))
  /\ UNCHANGED <<arena, faults, current, call, loops, fresh>>

(* m3_NewRuntime fails: the binary is freed, and it is the arena.          *)
LoadWithoutRuntime(s) ==
  /\ Accepts("upload") /\ uploads < MaxUploads /\ FirstFree(s)
  /\ uploads' = uploads + 1
  /\ arena' = Put(arena, s, IF arena[s] = "kept" THEN "dangling" ELSE arena[s])
  /\ UNCHANGED <<slots, counts, events, current, http, call, loops, history, fresh>>

(* Parse, load or link fails: the slot is freed and zeroed, arena and all. *)
LoadBadModule(s) ==
  /\ Accepts("upload") /\ uploads < MaxUploads /\ FirstFree(s)
  /\ uploads' = uploads + 1
  /\ arena' = Put(arena, s, "lost")
  /\ faults' = Put(faults, s, 0) /\ errors' = Put(errors, s, 0)
  /\ events' = Put(events, s, {})
  /\ UNCHANGED <<slots, current, http, call, loops, history, fresh>>

-----------------------------------------------------------------------------
(* wasm_runtime_start, from the upload handler or from wasm_start_handler. *)

Startable(s) == state[s] \in {"loaded", "stopped"}

RequestStart(s) ==
  /\ Accepts("start") /\ Startable(s) /\ inits[s] < MaxInits
  /\ http' = s
  /\ UNCHANGED <<slots, arena, counts, events, current, call, loops, uploads, history, fresh>>

(* The call of on_init; s_cur_slot_id stays what it was.                   *)
BeginInit ==
  /\ http # NoSlot /\ call["http"] = 0
  /\ Startable(http)
  /\ call' = Put(call, "http", module[http])
  /\ inits' = Put(inits, http, inits[http] + 1)
  /\ UNCHANGED <<slots, arena, counts, events, current, http, loops, uploads, row, failed, early, fresh>>

(* A dispatcher wrote "error" into the slot before the start took place.   *)
StartRefused ==
  /\ http # NoSlot /\ call["http"] = 0
  /\ ~Startable(http)
  /\ http' = NoSlot
  /\ UNCHANGED <<slots, arena, counts, events, current, call, loops, uploads, history, fresh>>

InitSucceeds ==
  /\ call["http"] # 0
  /\ state' = Put(state, http, "running")
  /\ call' = Put(call, "http", 0) /\ http' = NoSlot
  /\ UNCHANGED <<module, exports, arena, counts, events, current, loops, uploads, history, fresh>>

InitFails ==
  /\ call["http"] # 0
  /\ state' = Put(state, http, "error")
  /\ errors' = Put(errors, http, errors[http] + 1)
  /\ call' = Put(call, "http", 0) /\ http' = NoSlot
  /\ UNCHANGED <<module, exports, arena, faults, events, current, loops, uploads, history, fresh>>

-----------------------------------------------------------------------------
(* wasm_stop_handler and wasm_delete_handler.                              *)

Stop(s) ==
  /\ Accepts("stop") /\ state[s] = "running"
  /\ state' = Put(state, s, "stopped")
  /\ UNCHANGED <<module, exports, arena, counts, events, current, http, call, loops, uploads, history, fresh>>

Unload(s) ==
  /\ Accepts("unload") /\ state[s] # "empty"
  /\ state' = Put(state, s, "empty")
  /\ module' = Put(module, s, 0) /\ exports' = Put(exports, s, {})
  /\ faults' = Put(faults, s, 0) /\ errors' = Put(errors, s, 0)
  /\ events' = Put(events, s, {})
  /\ UNCHANGED <<arena, current, http, call, loops, uploads, history, fresh>>

-----------------------------------------------------------------------------
(* wasm_runtime_on_frame and wasm_runtime_on_timer.                        *)

Following(s) == (s % Slots) + 1

(* Mutant: the state is not tested.                                        *)
CallableInAnyState(t) == t \in exports[at[t]]

Callable(t) == state[at[t]] = "running" /\ t \in exports[at[t]]

GoOn(t, from, to) == step[t] = from /\ step' = Put(step, t, to)

Skip(t) ==
  /\ step[t] = "test" /\ ~Callable(t)
  /\ at' = Put(at, t, Following(at[t]))
  /\ UNCHANGED <<slots, arena, counts, events, current, http, call, step, picked,
                 uploads, history, fresh>>

(* From here on nothing keeps the HTTP task from the slot.                 *)
Choose(t) ==
  /\ Callable(t)
  /\ GoOn(t, "test", "select")
  /\ picked' = IF t = "timer" THEN module[at[t]] ELSE picked
  /\ UNCHANGED <<slots, arena, counts, events, current, http, call, at, uploads, history, fresh>>

Select(t) ==
  /\ GoOn(t, "select", "clear")
  /\ current' = at[t]
  /\ UNCHANGED <<slots, arena, counts, events, http, call, picked, at, uploads, history, fresh>>

(* Mutant: the slot's events are not cleared before the call.              *)
ClearNothing(t) ==
  /\ GoOn(t, "clear", "call")
  /\ fresh' = Put(fresh, t, {})
  /\ UNCHANGED <<slots, arena, counts, events, current, http, call, picked, at, uploads, history>>

ClearEvents(t) ==
  /\ GoOn(t, "clear", "call")
  /\ events' = Put(events, at[t], {})
  /\ fresh' = Put(fresh, t, {})
  /\ UNCHANGED <<slots, arena, counts, current, http, call, picked, at, uploads, history>>

(* A module whose first on_init has not returned.                          *)
Unstarted(s) ==
  /\ module[s] # 0
  /\ \/ inits[s] = 0
     \/ inits[s] = 1 /\ http = s /\ call["http"] # 0

CountIfEarly(t) ==
  early' = IF Unstarted(at[t]) /\ call'[t] = module[at[t]]
           THEN [early EXCEPT ![at[t]][t] = @ + 1] ELSE early

(* on_frame reads the clock before it calls, and the function again after  *)
(* it; on_timer calls either what it tested or what is there now.          *)
CallModule(t) ==
  /\ GoOn(t, "call", "run")
  /\ \/ t \in exports[at[t]] /\ call' = Put(call, t, module[at[t]])
     \/ t = "timer" /\ call' = Put(call, t, picked)
  /\ picked' = IF t = "timer" THEN 0 ELSE picked
  /\ CountIfEarly(t)
  /\ UNCHANGED <<slots, arena, counts, events, current, http, at, uploads,
                 inits, row, failed, fresh>>

(* The slot was emptied, or reloaded with a module that lacks the function:*)
(* a call of NULL, and the board boots.                                    *)
CallNull(t) ==
  /\ step[t] = "call" /\ t \notin exports[at[t]]
  /\ state' = All("empty") /\ module' = All(0) /\ exports' = All({})
  /\ arena' \in [Slot -> {"kept", "lost"}]
  /\ faults' = All(0) /\ errors' = All(0) /\ events' = All({})
  /\ current' = 1 /\ http' = NoSlot /\ call' = [u \in Tasks |-> 0]
  /\ step' = Both("test") /\ picked' = 0 /\ at' = Both(1)
  /\ inits' = All(0) /\ row' = All(0) /\ failed' = All(0) /\ fresh' = Both({})
  /\ early' = All(Both(0))
  /\ UNCHANGED uploads

Cleared(t) == step[t] \in {"call", "run"}

(* host_csi_emit_event: the event goes to the slot s_cur_slot_id names.    *)
Emit(t) ==
  /\ call[t] # 0
  /\ events' = Put(events, current, events[current] \cup {call[t]})
  /\ fresh' = [d \in Dispatchers |-> IF Cleared(d) THEN fresh[d] \cup {call[t]} ELSE {}]
  /\ UNCHANGED <<slots, arena, counts, current, http, call, loops, uploads, history>>

Leave(t) ==
  /\ GoOn(t, "run", "test")
  /\ call' = Put(call, t, 0) /\ fresh' = Put(fresh, t, {})
  /\ at' = Put(at, t, Following(at[t]))
  /\ UNCHANGED picked

(* send_wasm_output, when there is something to send.                      *)
Send(t) == events' = Put(events, at[t], {})

(* The history follows a module, not the slot it has left.                 *)
Note(h, t, n) == IF module[at[t]] = call[t] THEN Put(h, at[t], n) ELSE h

(* Mutant: the limit is compared with > instead of >=.                     *)
FrameFailsOneMore ==
  LET s == at["frame"]
  IN  /\ Leave("frame")
      /\ errors[s] <= ErrorLimit
      /\ errors' = Put(errors, s, errors[s] + 1)
      /\ state' = IF errors'[s] > ErrorLimit THEN Put(state, s, "error") ELSE state
      /\ failed' = Note(failed, "frame", failed[s] + 1)
      /\ UNCHANGED <<module, exports, arena, faults, events, current, http, uploads, inits, row, early>>

FrameFails ==
  LET s == at["frame"]
  IN  /\ Leave("frame")
      /\ errors[s] <= ErrorLimit
      /\ errors' = Put(errors, s, errors[s] + 1)
      /\ state' = IF errors'[s] >= ErrorLimit THEN Put(state, s, "error") ELSE state
      /\ failed' = Note(failed, "frame", failed[s] + 1)
      /\ UNCHANGED <<module, exports, arena, faults, events, current, http, uploads, inits, row, early>>

(* Mutant: a fault is counted after the comparison with the limit.         *)
ComparesBeforeCounting ==
  LET s == at["frame"]
  IN  /\ Leave("frame")
      /\ faults' = Put(faults, s, faults[s] + 1)
      /\ row' = Note(row, "frame", row[s] + 1)
      /\ IF faults[s] >= FaultLimit
         THEN state' = Put(state, s, "error") /\ UNCHANGED events
         ELSE Send("frame") /\ UNCHANGED state
      /\ UNCHANGED <<module, exports, arena, errors, current, http, uploads, inits, failed, early>>

FrameOverruns ==
  LET s == at["frame"]
  IN  /\ Leave("frame")
      /\ faults' = Put(faults, s, faults[s] + 1)
      /\ row' = Note(row, "frame", row[s] + 1)
      /\ IF faults'[s] >= FaultLimit
         THEN state' = Put(state, s, "error") /\ UNCHANGED events
         ELSE Send("frame") /\ UNCHANGED state
      /\ UNCHANGED <<module, exports, arena, errors, current, http, uploads, inits, failed, early>>

(* Within the budget; only a frame under half of it clears the faults.     *)
FrameInTime ==
  /\ Leave("frame")
  /\ \/ faults' = Put(faults, at["frame"], 0)
     \/ faults' = faults
  /\ row' = Note(row, "frame", 0)
  /\ Send("frame")
  /\ UNCHANGED <<slots, arena, errors, current, http, uploads, inits, failed, early>>

TimerReturns ==
  /\ Leave("timer")
  /\ \/ errors' = errors
     \/ errors[at["timer"]] <= ErrorLimit
        /\ errors' = Put(errors, at["timer"], errors[at["timer"]] + 1)
  /\ Send("timer")
  /\ UNCHANGED <<slots, arena, faults, current, http, uploads, history>>

-----------------------------------------------------------------------------

Upload == \E s \in Slot : Load(s) \/ LoadWithoutRuntime(s) \/ LoadBadModule(s)
Manage == \E s \in Slot : RequestStart(s) \/ Stop(s) \/ Unload(s)
Starting == BeginInit \/ StartRefused \/ InitSucceeds \/ InitFails
Dispatch ==
  \E t \in Dispatchers :
    Skip(t) \/ Choose(t) \/ Select(t) \/ ClearEvents(t) \/ CallModule(t) \/ CallNull(t)
Return == FrameFails \/ FrameOverruns \/ FrameInTime \/ TimerReturns

Next == Upload \/ Manage \/ Starting \/ Dispatch \/ Return \/ \E t \in Tasks : Emit(t)

Spec == Init /\ [][Next]_vars

-----------------------------------------------------------------------------

TypeOK ==
  /\ state \in [Slot -> {"empty", "loaded", "running", "stopped", "error"}]
  /\ module \in [Slot -> 0..MaxUploads] /\ exports \in [Slot -> SUBSET Dispatchers]
  /\ arena \in [Slot -> {"kept", "lost", "dangling"}]
  /\ faults \in [Slot -> Nat] /\ errors \in [Slot -> Nat]
  /\ events \in [Slot -> SUBSET (1..MaxUploads)]
  /\ current \in Slot /\ http \in Slot \cup {NoSlot}
  /\ call \in [Tasks -> 0..MaxUploads] /\ at \in [Dispatchers -> Slot]
  /\ step \in [Dispatchers -> {"test", "select", "clear", "call", "run"}]
  /\ picked \in 0..MaxUploads
  /\ uploads \in 0..MaxUploads
  /\ fresh \in [Dispatchers -> SUBSET (1..MaxUploads)]
  /\ inits \in [Slot -> Nat] /\ row \in [Slot -> Nat] /\ failed \in [Slot -> Nat]
  /\ early \in [Slot -> [Dispatchers -> Nat]]

(* Unless it is stopped and restarted meanwhile, a module that overruns    *)
(* its budget FaultLimit times in a row is not running any more.           *)
RunawayStops ==
  \A s \in Slot : state[s] = "running" /\ inits[s] = 1 => row[s] < FaultLimit

(* Unless it is stopped and restarted meanwhile, a module runs no more     *)
(* after ErrorLimit failed frames, whatever errors its on_timer adds.      *)
FailingStops ==
  \A s \in Slot : state[s] = "running" /\ inits[s] = 1 => failed[s] < ErrorLimit

(* However calls, failures, deletions and reloads interleave, what a       *)
(* dispatcher sends after a call was emitted since it cleared the slot for *)
(* that call: the events that on_init or a failed frame left in the slot   *)
(* ride in no later packet.                                                *)
EventsAreOfThisCall ==
  \A t \in Dispatchers : Cleared(t) => events[at[t]] \subseteq fresh[t]

(* The state is tested long before the call and without the lock, so a     *)
(* dispatcher may enter a module uploaded meanwhile whose on_init has not  *)
(* returned (wasm_runtime.h:24: "called once when module is loaded").      *)
(* However requests interleave, each dispatcher does so once per module at *)
(* most, with the test it had passed: the next one keeps it out.           *)
OneEarlyCall == \A s \in Slot, t \in Dispatchers : early[s][t] <= 1

(* wasm_runtime.c:93: s_cur_slot_id is the "Slot being executed (for       *)
(* emit_event)".  An event lands in the slot of the module that emitted it.*)
EventsLandInTheirSlot == \A s \in Slot : events[s] \subseteq {module[s]}
=============================================================================

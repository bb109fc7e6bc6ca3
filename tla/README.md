# TLA+ models and proofs of the ESP32 CSI node firmware

This directory is the verification project kept beside the firmware of the
ESP32 CSI node (`src/adapted-node/esp32-csi-node/main`). The tree
`src/ruview-reference-node/esp32-csi-node` is the same firmware (it differs in
LED lines of `main.c`, the README and the sdkconfig), so one model stands for
both. File names below are relative to `main/`.

## The system

A node captures WiFi channel state information (CSI) in the WiFi driver's
callback, streams it by UDP to an aggregator, and processes it on the second
core into presence, vital signs, falls and person counts; it keeps its clock in
step with its neighbours, hosts WASM sensing modules uploaded over HTTP, and
adapts its radio and sensing mode to what it observes.

### Contexts that run concurrently

| context | where it runs | what it does |
|---|---|---|
| `app_main` | core 0, lowest priority | boots the components in order, then returns |
| WiFi task | core 0, high priority | `event_handler`, `wifi_csi_callback`, ESP-NOW `on_recv` |
| DSP task (`edge_task`) | core 1 | pops the ring, `process_frame`, WASM `on_frame`, sends vitals, features and compressed frames |
| FreeRTOS timer task | core 0 | ESP-NOW beacon, the three loops of the adaptive controller |
| esp_timer task | core 0 | hop timer, WASM `on_timer`, LED |
| HTTP server task | core 0 | OTA upload, WASM upload / start / stop / unload |
| swarm task, mmWave task, display task | any | slow consumers of snapshots |
| 802.15.4 ISR (C6) | interrupt | `receive_done` of the time sync |

### Components, their state and what makes them correct

| component | state | operations | correct when |
|---|---|---|---|
| ESP-NOW sync (`c6_sync_espnow.c`) | leader flag and id, offset, smoothed offset, last beacon | init, receive, beacon timer, get_epoch, is_valid | the lowest id leads, followers stamp the leader's time |
| 802.15.4 sync (`c6_timesync.c`) | the same, keyed by EUI-64 | init, receive ISR, beacon timer | the same; a heard leader is not usurped |
| CSI collector (`csi_collector.c`) | rate gates, sequence, hop table | CSI callback, hop, self-ping | every accepted frame is numbered and offered once; sync packets name a sequence |
| UDP sender (`stream_sender.c`) | back-off deadline and streak | send, priority send | ENOMEM makes the bulk senders pause, longer while it lasts; control traffic is still tried |
| frame ring (`edge_processing.c:45-88`) | 16 slots, head, tail, drops | push (WiFi task), pop (DSP task) | frames come out in order, whole and once; overload only drops the newest |
| edge DSP (`edge_processing.c`) | presence, fall and person state, vitals packet | process_frame, vitals packet | a reported presence, fall or person is real and a real one is reported |
| WASM runtime (`wasm_runtime.c`) | four slots, arenas | load, start, stop, unload, on_frame, on_timer | no task runs a module another frees; no slot or arena is lost |
| WASM upload, RVF (`wasm_upload.c`, `rvf_parser.c`) | none | HTTP handlers, container parser | only verified modules load |
| adaptive controller (`adaptive_controller*.c`) | mode, mesh epoch, profile | fast, medium and slow loop | the mode follows the observations; each change is announced once |
| mesh frames (`rv_mesh.c`, `rv_feature_state.c`) | sequence numbers | encode, decode, send | a corrupted frame is refused |
| radio ops (`rv_radio_ops_*.c`) | channel, profile | set_channel, set_profile, get_health | health reports the radio's real state |
| WiFi station and boot (`main.c`) | retry count, event bits | event handler, `app_main` | the node comes up connected, and comes back |
| OTA (`ota_update.c`) | partitions, PSK | upload, status | the boot partition always holds a complete image |
| swarm bridge (`swarm_bridge.c`) | vitals snapshot, counters | register, heartbeat, ingest | the seed knows the node and hears of it |
| mmWave sensor (`mmwave_sensor.c`, `mmwave_detect.h`) | parser state, last reading | probe, feed byte | only checked frames change the reading |
| NVS configuration (`nvs_config.c`) | configuration record | load | every field in range |
| LP core (`c6_lp_core.c`, `lp_core/main.c`) | debounce state | poll, arm, hibernate | one wake per confirmed edge |
| power, TWT, soft-AP (`power_mgmt.c`, `c6_twt.c`, `c6_softap_he.c`) | mode flags | init, renegotiate | out-of-range settings are clamped |
| display (`display_*.c`), mock CSI (`mock_csi.c`) | LVGL objects; scenario clock | draw; synthesize | not about the sensing path |

### Behaviours that are hard to test

- **Callbacks live before their module is initialised.** ESP-NOW's `on_recv`
  is registered before the candidate state is written
  (`c6_sync_espnow.c:202-219`); the CSI callback pushes into the ring while
  `edge_processing_init` clears it (`edge_processing.c:1360`).
- **Lock-free sharing between the two cores and the timer tasks.** The frame
  ring, the sender's back-off (`stream_sender.c:95-122`), the published vitals
  packet (`edge_processing.c:908` against `:1313`), the WASM slots and
  `s_cur_slot_id` (`wasm_runtime.c:658-747`).
- **An interrupt inside init and inside a timer callback** (`c6_timesync.c:181`,
  `:230`).
- **Loss, delay and resets** of beacons and boards; **lost bytes** on a UART whose
  frames hold bytes that look like marks (`mmwave_sensor.c:161`).
- **Two rate gates that read the clock at different moments** and share a frame's
  fate (`csi_collector.c:260`, `:287`).
- **State on two machines**: `provision.py` keeps a file on the host that should
  say what is in the node's flash (`provision.py:509`).
- **Debounces and cached measurements** that only a long sequence of legal
  inputs can break: presence, person count, fall counter, yield window,
  profile selection.
- **Failures half way**: a module that does not load, a timer that does not
  start, an upload or a flash that is cut off.
- **Progress**: the mesh settles, an accepted frame is delivered, a suppressed
  stream resumes.

`PROJECT.json` lists each at its line under `hazards`, with the properties that
watch it.

## Modules

| module | models | proofs |
|---|---|---|
| `LowestIdElection` | abstract: opinions about the leader only move down, towards boards that exist | |
| `EspNowSync` (`MCEspNowSync`) | `c6_sync_espnow.c` on a set of boards and their channel | `EspNowSync_proofs` |
| `TimeSync154` | `c6_timesync.c` on a set of boards and their channel | `TimeSync154_proofs` |
| `BoundedQueue` | abstract: a queue that takes an item in or gives its oldest out in one step and turns one away only when full | |
| `SpscRing` | the frame ring of `edge_processing.c`, with `edge_processing_init` | `SpscRing_proofs` |
| `StreamSender` | `stream_sender.c` | in `CsiPath_proofs` |
| `CsiCollector` | `wifi_csi_callback` of `csi_collector.c` | in `CsiPath_proofs` |
| `CsiPath` (`MCCsiPath`) | composes `CsiCollector` and `StreamSender`, with the other callers of the sender | `CsiPath_proofs` |
| `WasmRuntime` (`MCWasmRuntime`) | `wasm_runtime.c` with the requests of `wasm_upload.c` | `WasmRuntime_proofs` |
| `EdgeVitals` | what `process_frame` remembers and decides | `EdgeVitals_proofs` |
| `AdaptiveController` (`MCAdaptiveController`) | `adaptive_controller*.c`, the yield window of `csi_collector.c`, the published packet | `AdaptiveController_proofs` |
| `AtomicUpdate` | abstract: the build a node would start changes in one step, to one an authorised client sent | |
| `OtaUpdate` | `ota_update.c`, the partitions and the key through resets | in `Node_proofs` |
| `NodeBoot` | `main.c`: `app_main`, `wifi_init_sta`, `event_handler`, with the WiFi driver | in `Node_proofs` |
| `Node` (`MCNode`) | composes `NodeBoot` and `OtaUpdate` through restarts and power failures | `Node_proofs` |
| `Provisioning` (`MCProvisioning`) | `provision.py`, what `nvs_config.c` reads of it, the hop table | in `Node_proofs` |
| `MmwaveSensor` | the probe and the two parsers of `mmwave_sensor.c` | in `EdgeVitals_proofs` |

An operator introduced as a *mutant* is a plausible wrong version of the
definition below it. No specification uses it; putting it in the definition's
place must break the property that `PROJECT.json` names under `mutants`.
Variables marked *history* are not in the code: they remember what a property
compares.

### EspNowSync

Each board has the statics of the C file (`isLeader` for `s_is_leader`, and so
on), a clock that restarts at every boot, a program counter for
`c6_sync_espnow_init` and one for `beacon_timer_cb`. `Register`,
`BecomeCandidate`, `IdentifyLeader` and `StartTimer` are the statements of init.
The timer callback is a step for each access that `on_recv` may come before:
`TimerFires` reads the clock, `TimerTests` the flag and the age of the last
beacon, `TimerPromotes` the id; `ReadsFlag` and `SendBeacon` are `send_beacon`,
which reads the flag again and then the clock. `OnRecv` is the whole receive
callback. A beacon is one record in `air` per receiver; it ages with time and is
lost when too old or at any moment (`Lose`). `Tick` advances the clock of each
board or leaves it behind, so two crystals may drift apart without a limit.
`Crash` resets a board. Beacons without the leader flag change only diagnostic
counters and are left out.

`SyncAccuracy` compares a follower's offset with `truth`, the span of the offsets
there really were when its samples were sent; with drifting clocks nothing more
can be asked of an average. It speaks of followers inside the timeout: past it
the code keeps stamping with the last offset (see the findings).

`LowestIdElection` says what the protocol is for. Its refinement mapping takes
a board's opinion from `leaderId` once init has written it.

### TimeSync154

`Enable` arms reception and `StartAsCandidate` writes the statics and starts the
timer; `Receive` is the interrupt, which may come between them, and between
`TimerReadsClock` and the decision that follows (`SendBeacon`, `Promote`,
`KeepFollowing`). In the second place it finds `s_last_seen_us` ahead of the
time the callback has read; the unsigned difference is huge and `decision` turns
to "promote". Here the last leader heard wins, whatever its EUI, so there is no
election to refine: `RivalsSettle` says what remains of it. Of the offset only
`clock` is kept, the board whose clock it leads to. A `Tick` is one beacon
period, in which every timer fires and every beacon arrives or is lost. The KNOWN
ISSUE in the source (`c6_timesync.c:119-127`, the driver delivers one frame and
then none) is the case in which all are lost: the model assumes of no beacon that
it arrives, and `RivalsSettle` is stated of pairs of boards whose reception goes
on.

### SpscRing

A slot is two words, the I/Q and the metadata, so that a copy can be torn;
`pushing` and `popping` say where each side is inside its function. `phase` is
`edge_processing_init` clearing the ring under the live callback. The callback
preempts init on core 0 but is not preempted by it, hence init's steps wait for
`pushing = "idle"`. Frames are their numbers. The batch limit and the delays of
`edge_task` only decide when the consumer runs, which is open anyway.
`ImplementsQueue` maps the queue of `BoundedQueue` to the accepted frames not yet
delivered, each as a whole slot: `Publish` puts one in, `Advance` takes the oldest
out, `Drop` turns one away and `ClearIndices` clears; the rest stutters.

### StreamSender

Each access to the unprotected globals is a step of a calling task: the gate, the
clearing of an expired deadline, `sendto` and its outcome, the read and the write
of the streak, the arming. Several tasks call it on every node: the CSI callback,
the esp_timer task with the packets of WASM modules (`main.c:397-411`,
`wasm_runtime.c:744`), from edge tier 1 on the DSP task. Time is `left`, the
deadline minus now in units of the base cooldown. `stream_sender_send_priority`
touches neither deadline nor streak, so it is no step of this module. `late` is the
history of the calls that were past the gate when a cooldown was set, `last` that
of the cooldowns of one run of failures, and `mixed` says that two calls are or
were past their sends at once, where one may overwrite the other's streak.

### CsiCollector and CsiPath

`CsiCollector` has one action per stretch of `wifi_csi_callback`: the first gate
with the MAC filter behind it (`TakeForeign` returns there, having used the slot,
`Take` numbers the frame), the second gate (`HoldBack` or `Offer`), the answer
of the sender (`Sent`, `NotSent`) and the sync packet: `EmitSync` when it goes out,
`LoseSync` when the send fails, which nobody looks at (`csi_collector.c:346`), and
`NoSync` when none is due. Before the first packet went out there is no `mark`, and
`owed` counts the frames that the packets lost since the last one would have
marked. The
two gates read the clock at different moments, so all times are kept as ages and
`Pass` may come between any two steps. `CsiPath` lets the callback wait inside
`stream_sender_send` (`OfferToSender`, `Within`, then `Accepted` or `Refused`) and
run the rest by itself; sync packets go out by `stream_sender_send_priority`
(`SendSync`). `OtherCallers` lets the other tasks run the sender beside it. The frame's other way, into the ring, is
`SpscRing`.

### WasmRuntime

The HTTP server is one task, so requests come one at a time, but a module's
`on_init` runs for a while (`BeginInit` ... `InitSucceeds`/`InitFails`). The
dispatchers `frame` and `timer` walk the slots without a lock, in steps between
which the HTTP task may stop, unload or reload the slot: `Skip` or `Choose` tests
it, `Select` sets `s_cur_slot_id`, `ClearEvents` empties its events, `CallModule`
calls what the slot holds by then, `CallNull` is the call of a function that has
gone, which boots the board, and `Leave` writes back into whatever the slot has
become. on_timer may call the function it tested (`picked`) or read the slot
again, as the compiler chooses. `arena` follows `slot->arena` through the failure paths of load. What
wasm3 computes is open: a call emits any number of events and ends in an
error, an overrun or in time. `fresh` is the history of what a dispatcher's slot
was given since it was cleared, `early` of the calls a module got before its first
`on_init` returned. The dead-band filter and the size of the event
buffer are data. The guards `errors <= ErrorLimit` bound the counters.

### EdgeVitals

One action, `Frame`, is `process_frame`, each step an operator of the function
it translates: `PresenceStep` (`presence_flag_update`), `FallStep`,
`PersonStep` (`person_count_debounce` and the marking of active groups) and
`PacketStep`. Its inputs are the comparisons the code makes; the filters and
rates only choose among them. Frames that the early returns reject change
nothing here and are stuttering. The ages stop counting when their comparison
is decided.

### AdaptiveController

FreeRTOS runs the timer callbacks one after the other, so `FastTick`,
`ReadMotion`/`ReadPresence` (or `NoPacket`), `Apply` and `Emit` are one fast
loop that only the DSP task interleaves with: `PublishMotion` and
`PublishPresence` are its two stores into the packet, the two reads the copy in
`edge_get_vitals`. `SlowTick` is the slow loop. `Yield` is the static window
that the fast loop, the feature packet and the health message all turn.
`Decide` is the policy with its thresholds; `anomaly` stays FALSE because
`collect_observation` writes 0 there. The medium loop only logs.

### NodeBoot, OtaUpdate and Node

`NodeBoot` has one action per stretch of `app_main` between two calls that can
block, return early or fail (`stage`), one per branch of `event_handler`, and
the driver's side: an association may break at any time, before or after it has
an address, and each change posts an event that the handler takes later from
`events`. The driver does not reconnect by itself, and an association that is
gone yields no address. `config` and `identity` say where the
values in `g_nvs_config` and in the statics of `csi_collector.c` come from, since
the driver's start may overwrite the former. `drops` is a history.

In `OtaUpdate` a partition is a sequence of blocks, so that power can fail
inside an image; `Receive` erases a block and `Write` fills it, which is what
`esp_ota_write` does with sequential writes. `Finish` and `Reject` are the
verification in `esp_ota_end`. `Restarted` is the bootloader's choice.
`Provision` is `provision.py`, which replaces the whole NVS partition, and
`WriteKey` any other means of writing the key. A receive timeout is retried
without a limit and so is no step. `ImplementsAtomicUpdate` maps the abstract
`boots` to the image in the selected partition.

`Node` lets an upload begin only when the boot has started the server and the
station is up, makes the start of the server and the reading of the key one
step, and lets `esp_restart` and a power failure reset both parts.

### Provisioning

A call of `provision.py` is `Begin` (merge, checks), then `Flash` and `Save`, with
`Interrupted` between any two of them, and `DryRun`. `FlashFails` may leave the node
as it was or cut the write amid the keys: `app_main` erases the partition on two
errors only, and some of the keys is neither. A state file that cannot be parsed
counts as none (`Prior`). Settings are partial functions; `Merged` is the merge with
the state file (`Over`: flags win over stored values), `nvs` what the node holds,
`Accepted` the checks on the result. The node's side is not a step: `TdmSlot`,
`CsiChannel`, `DwellMs`, `HopCount` and `ChannelList` are what `nvs_config_load`
makes of the flash at the next boot, and `HopTable` what the collector ends up
with: `FirstChannel` at its init, the list when `app_main` sets the table after it.

`asked` remembers every setting that reached the node or the state file since the
last reset, `unsaved` those that the file may not hold: given by a call that was cut
between the flash and the file, or lost with an unreadable file. `torn` says that
the last write was cut. Two runs of the script at once are not modelled.

### MmwaveSensor

A byte is the name of its place in a frame; inside a *busy* frame any byte may look
like a mark. The lengths of the payloads are a constant for each radar, within what
the parser takes: for the MR60BHA2 from none to 30 bytes, the presence frames of one
byte among them, whose length byte reads like a start (`Kinds`). `Mr60Search` ...
`Mr60Checksum` and `LdMark` ... `LdEnd` are the states of the two parsers,
`Overflow` a byte the UART's buffer lost. The outcome of a header read out of step,
its checksum included, is open, so a length may be anything `Lengths` admits.
`parser.instep`, `whole` and `quiet` are histories.

## Checks

`tlc -config X.cfg M` for each row; the last column says what the outcome is.

| run | configuration | shows |
|---|---|---|
| `espnow_two_boards` | `EspNowTwo.cfg` | `LowestIdWins`, `SyncAccuracy`, `FollowsWhatItMeasured`, `NoSecondReign`, `ImplementsElection`, `Agreement` hold |
| `timesync_154` | `TimeSync154.cfg` | `ValidFollowerWasLed`, `SilenceIsShort`, `RivalsSettle` hold |
| `csi_ring` | `SpscRing.cfg` | `NoSharedSlot`, `ImplementsQueue`, `EveryFrameDelivered` hold |
| `csi_path` | `CsiPath.cfg` | with two racing callers `OnlyLateCalls`, `SkipsAreSingle`, `FramesArePlaced`, `BackoffNeverShrinks`, `StreamResumes` hold |
| `wasm_slots` | `WasmSlots.cfg` | `RunawayStops`, `FailingStops`, `EventsAreOfThisCall`, `OneEarlyCall` hold |
| `wasm_two_slots` | `WasmTwoSlots.cfg` | `EventsLandInTheirSlot` is violated (finding 1) |
| `edge_vitals` | `EdgeVitals.cfg` | `AbsenceIsSustained`, `SustainedAbsenceClears`, `CountIsPersistent`, `LastingCountWins`, `AlertHasOwnEvidence` hold |
| `adaptive_controller` | `Adaptive.cfg` | `ProfileFollowsState`, `YieldIsNoticed`, `AnomalyClosesItsEpoch` hold |
| `node_lifecycle` | `Node.cfg` | `OneAttempt`, `GivingUpIsFinal`, `IdentityFromFlash`, `RunningImageIntact`, `ImplementsAtomicUpdate`, `EveryBootEnds` hold |
| `provisioning` | `Provisioning.cfg` | `NodeHoldsWhatWasAsked`, `NodeObeys`, `HopTableIsWhole` hold |
| `provisioning_dwell` | `ProvisioningDwell.cfg` | `DwellFallsBack` is violated (finding 2) |
| `mmwave_sensor` | `MmwaveSensor.cfg` | `SettlesInTime`, `FramesAreWhole` hold |

Every module has a type invariant; where there is an inductive invariant it is a
part of it, and so proved rather than run.

### Bounds, and why they are enough

- *EspNowSync*: two boards, of which the lower may reset once before its clock
  moves; clocks up to 2 that drift, a timeout of 1, a delay of 1. That is enough
  for a beacon to arrive in every phase of init and of the timer callback, late,
  overtaken or after its sender's reset, for two samples to meet in the average
  and for a timeout to pass. The safety properties and the refinement are proved
  for any number of boards and resets; only `Agreement` rests on the bound. It
  holds in the model where clocks stop at their bound, since nothing in the
  election waits for a clock.
- *SpscRing*: three slots and seven frames: the indices wrap twice, the ring
  fills and empties, and init clears it at any fill.
- *TimeSync154*: two boards with two boots each and a window of two periods for
  thirty: a beacon finds its receiver in every phase, and the window runs out.
  The two invariants are proved for any number of boards and any window.
- *CsiPath*: the callback and one other caller, a cap of two units and one doubling
  for the firmware's 20 and five, and a streak up to 3, past the saturation; gates
  of two units, so that time can pass before, between and after them; a sync packet
  every two callbacks, of which one in a row may be lost, and a counter of five
  values, which wraps between them. The proofs cover any number of callers, any
  cap, number of doublings, interval and cadence; only `StreamResumes` rests on
  the bound.
- *WasmRuntime*: one slot suffices for the races of requests with the
  dispatchers, since slots share only `s_cur_slot_id`. The limits are 3 for 10 and
  100; three uploads and two starts of each module allow a slot to be reloaded
  twice under a dispatcher. The proofs cover any number of slots and any limits.
  The violation run has two slots and uploads only.
- *EdgeVitals*: debounces of 3, 2 and 2 frames, counters that wrap (fall) or
  saturate (clear) at 3, two persons, an interval and a cooldown of one
  time unit, frames none or one unit apart: any number of frames may fall within
  a cooldown, or a cooldown between two frames. The proofs cover all values.
- *AdaptiveController*: windows and emission every two ticks, four epochs, a
  quiet and a busy room: torn reads need two energies.
- *Node*: two retries, two builds of two blocks, bodies up to four, two
  accepted uploads and two power failures or provisionings: an upload can fail in
  the middle, be followed by another over its remains, and both partitions be
  written in turn.
- *Provisioning*: three calls with up to two settings each, values on either
  side of the limits of the host and of the node: a setting can be given, lost by
  an interrupted call, and needed by the check of a third.
- *MmwaveSensor*: payloads of 0, 1, 4, 8 and 30 bytes (the ends of the range and
  the frames the source names) and of 13 and 35 for the LD2410; the length limits
  are the code's, and any number of frames may come and be lost. The proofs cover
  any lengths that the parsers take.

`CHECK_DEADLOCK FALSE` stands where the bounds themselves stop the system: when
boots, clocks, frames, uploads, resets, the streak or the lost packets are used up. `EdgeVitals` and
`AdaptiveController` never stop and are checked for deadlock; a node without a
mmWave sensor has nothing left to do, nor has a user who is out of calls.

### Fairness, and why the code justifies it

- `EspNowSync!FairSpec`: app_main runs init to its end and the auto-reload
  timer fires again and again (weak fairness for each board); and if the board with
  the lowest MAC broadcasts for ever, every other board hears it again and again
  (strong fairness). Without the last no protocol agrees; of all other beacons
  nothing is assumed. `Agreement` asks that the lowest board eventually stays up
  with its timer running; others may still reset.
- `SpscRing!FairSpec`: each task finishes a copy it began, and the DSP task
  polls the ring for ever (`edge_task`'s loop). The radio owes no frame.
- `CsiPath!FairPathSpec`: the callback, once entered, runs on, and the time of a
  cooldown passes. Nothing is assumed of the other callers, nor of the frames: that
  they keep coming through the gates is the premise of `StreamResumes`, not a
  fairness condition, since the gate comes before the MAC filter and a busy foreign
  sender could take every slot (`csi_collector.c:256-268`).
- `TimeSync154!FairSpec`: time passes, timers fire, a beacon does not stay in the
  air. Nothing makes one arrive. `RivalsSettle` has the premise that of two boards
  one goes on hearing the other (strong fairness of that one's `Receive`); where the
  KNOWN ISSUE strikes, rivals last.
- `Node!FairSpec`: `app_main` and the event loop are scheduled, and a connection
  attempt ends, well or badly (the driver's timeouts). Nothing makes an access point
  answer DHCP or drop the link: `app_main` waits for either without a timeout
  (`main.c:141`), and `EveryBootEnds` names that wait as the one exception.

## Proofs

`tlapm M.tla` checks each `_proofs` module; the only assumptions are the named
ASSUMEs of the modules, which TLC evaluates in the runs.

**EspNowSync** (any set of boards, any timeout, EMA weight and delay).
`TypeCorrect`; `LowestIdAlwaysWins`; `NoTakeover`; `FollowersAreAccurate`;
`FollowersMeasured`; `ProtocolIsElection`. None of the properties is inductive.
`LeadershipInv` says what a board may hold in *every* phase of init, before
`LowestIdWins` starts to apply: between the two writes of the candidate state a
board may carry another board's id. `HistoryInv` says that the receiver's clock has
advanced no further since a frame was sent than the frame is old. So a sample falls
short of the offset there was by the delivery delay at most, and `AccuracyInv`
follows for the average by the rounding of the shift (`EmaStaysBetween`), however
the clocks drift. The refinement uses both: each step of the protocol is a step of
the election or a stutter.

**SpscRing** (any number of slots, any number of frames). `RingInv` maps the
positions of `accepted` that are not yet delivered onto the slots from `tail` to
`head`, says what each of those slots holds and where a copy in progress
stands. `CoresNeverShareASlot`, `DeliveryIsFaithful` and `OnlyAFullRingDrops`
follow. It is needed because the properties speak of histories, and only the
positions tie a history to the slots. `RingIsQueue` is the refinement, one
step of the ring at a time: publishing appends the frame to what waits
(`PublishPuts`), the slot that `ring_pop` has copied is the head of it
(`AdvanceTakes`), and full indices are a full queue (`FullMeansFull`).

**TimeSync154** (any set of boards, any window). `SyncInv` rests on the period: a
beacon in flight was sent in this one (`AirInv`), a timer callback decides in the
one it fires in (`DueInv`), and a follower past the window is about to be seen by
its timer and not about to be kept (`TurnInv`). `FollowersWereLed` follows from
`LedInv`, that a follower has heard the board whose clock it shows since that
board was last heard of; `SilenceEnds` from `TurnInv`.

**StreamSender** (any number of racing tasks, any cap). `SenderTypeCorrect`: no
cooldown outlives the cap. `LateCallsOnly` is inductive with it. `BacksOff` needs
`RunInv`: as long as no two calls of a run of failures have overlapped, neither the
streak nor what the one call past its send has read of it falls behind the last
cooldown; with `CooldownsGrow` the next is no shorter. That powers of two grow is an
induction over data; it is assumed up to `MaxShift`, for which TLC computes it
(`DoublingAssumption`).

**CsiPath** (any interval, any sync cadence, any width of the counter, any pace of
the clocks). `StreamAtWorstHalved` needs to know how the two gates lie in time
(`Gates`): a frame held back leaves the last send before the gate that let it
through. `EveryFrameIsPlaced` needs that the counter of callbacks counts the
numbers since the mark, those of the lost packets included (`Counts`). Each step of the path is a step of the sender
or leaves it alone, which carries the sender's theorems over (`PathLateCallsOnly`,
`PathBacksOff`, `PathTypeCorrect`).

**WasmRuntime** (any number of slots and uploads, any limits). A dispatcher writes
into a slot whatever the slot has become, and calls whatever it holds, so the
invariant says what it can meet there: a module that has not returned from its first
`on_init` is not running, so each dispatcher reaches it with at most the one test it
had passed before (`EarlyInv`) and leaves at most one overrun or failure behind
(`UnstartedInv`); one that a call outlived has not overrun (`OutlivedInv`); and the
counters in the code are never behind what the module did (`CountsInv`).
`OverrunsStopAModule`, `FailuresStopAModule` and `OneEarlyCallAtMost` follow;
`NoStaleEvents` needs no more than the types.

**EdgeVitals** (any thresholds). `DebounceInv` relates each counter in the code
to the history it stands for: while the flag is up the clear count is the run
of low scores; while the count differs from the last raw count the streak is
its run; the fall counter never exceeds the evidence since the last alert, even
when the byte wraps. The five properties of the run follow from it, and
`FlagFalls`.

**MmwaveSensor** (any bytes and any lengths the parsers take, in `EdgeVitals_proofs`,
since `send_vitals_packet` reads the sensor). In step, the parser's state follows
from the place of the wire's byte (`StepInv`). Out of step the proof bounds how many
bytes the parser still reads before it looks for a start: 38 and 265 at most
(`ReachInv`), and a frame that arrives whole and has no false mark brings that nearer
by its length (`SettleInv`). `SensorSettles` follows: clean frames that add up to 38
or 265 bytes suffice. `SensorFramesAreWhole` rests on `StepInv`: a parser in step
leaves the frame at its last byte and not before. `SensorTypeCorrect` too.

**AdaptiveController** (any thresholds and windows). `ProfileIsPinned` is
inductive once the policy is shown to pair each new state with its profile
(`DecisionFits`); `EpochsOrderMessages` needs that the epoch of the last
anomaly is behind the current one. `CollapseIsNoticed` rests on `WindowInv`: the
window holds the last `age` ticks, and the one before it was closed at `run - age`,
so a run longer than both has measured itself, whoever turned the windows.
`TypeCorrect` needs that the bound on the epochs holds back the tick and not the
decision it ends in.

**NodeBoot** (any number of retries). `EventsFitTheLink` says which events can
still wait in each state of the link: only an address can be overtaken by its
own loss. With it the retry counter counts the losses, and `ConnectsOneAtATime`,
`GivesUpForGood` and `IdentityIsKept` follow.

**OtaUpdate** (any builds, any sizes). `UpdateInv`: until the restart the
selected partition is the running one, the target is the other, and what has
been written of it is the build the request claims, which has a voucher.
`RunningImageIsSafe` follows, and `UpdateIsAtomic`: only `Select` changes the
image a reset would start.

**Node**. `NodeIsItsParts`: each step of the composition is a step of either
part or leaves it alone, so a run of the node is a run of both, and `NodeIsSafe`
carries the theorems over. `Node` extends its two parts, whose specifications
therefore have names of their own (`BootSpec`, `OtaSpec`).

**Provisioning** (any settings a user may give, any number of calls, in
`Node_proofs`, since it is the configuration the node boots with).
`ProvisionInv`: the state file and what was asked for agree but for the dwell
time and for what the file may not hold (`FileInv`); a call on its way carries their
merge, which has passed the checks, and once it has flashed the node holds just
that (`CallInv`); so the keys of a write that was not cut obey the host's checks
(`Sound`), whatever was interrupted before. `NodeGetsWhatWasAsked`,
`NodeObeysTheHost` and `HopTableHoldsTheList` follow.
`OfferedAssumption` says of the settings what argparse enforces: slots and totals
are numbers and a hop list is a list of numbers.

Only model-checked: the liveness properties `Agreement`, `RivalsSettle`,
`EveryFrameDelivered`, `StreamResumes` and `EveryBootEnds`, since the prover
handles neither fairness nor ENABLED; and the two violations. Every other property
of a run, and every type invariant, is a theorem. Nothing is
claimed of filters and estimators, whose loops are not modelled.

## Findings

1. **An event can land in another module's slot.** `s_cur_slot_id`, the "Slot being
  executed (for emit_event)" (`wasm_runtime.c:93`), is one global for two dispatchers
  and for `on_init`, which never sets it: the event is recorded in the slot of another
  module (`wasm_runtime.c:218`) and may leave in its packet.
2. **A later call resets the hop dwell time.** `--hop-dwell` has a default, so the
   merge takes it for given and flashes 200 ms over the stored value
   (`provision.py:348`, against `:99`).

Seen while modelling, and stated by no run:

- An ESP-NOW beacon received between `esp_now_register_recv_cb` and
  `s_is_leader = true` seeds the smoothed offset; init makes the board a candidate
  and keeps it, so a leader may add an offset to its clock, although
  `c6_sync_espnow.c:237` says that get_epoch falls back to the raw clock there.
- Two callers of `stream_sender_send`, and there are two on every tier, can both see
  the old deadline expire; the second then clears the one the first has just set
  (`stream_sender.c:95`). `OnlyLateCalls` says that nobody else gets through.
- A slot that is unloaded and reloaded between a dispatcher's test and its call gets
  the new module called before its `on_init` (`wasm_runtime.c:660`, against
  `wasm_runtime.h:24`); `OneEarlyCall` says that this happens once per dispatcher at
  most. If the slot is empty by then, the call is of NULL and the board boots.
- A module that fails to load costs the slot its arena, which is freed and forgotten,
  or freed and still referenced (`wasm_runtime.c:499`, `:512`, against "Fixed 160 KB
  PSRAM arenas per slot").
- `provision.py` flashes the node and then writes the state file: a call that stops in
  between leaves settings on the node that the next partial call removes
  (`provision.py:509`, against `:97`). So does an unreadable state file with those it
  held.
- A write to the NVS partition that is cut leaves some of the keys, which nothing
  erases: a TDM slot without its total counts as slot 0, a hop count without its list
  fills the table with channel 0. The next whole call repairs both.
- A sync packet that the driver refuses is lost without notice
  (`csi_collector.c:346`); until the next the host places frames by an older mark, and
  before the first by none.
- An access point that takes the station in and never gives it an address holds
  `app_main` for ever (`main.c:141`).
- A fall may be in no vitals packet: an alert resets the counter, the flag falls
  with the first calm frame, and packets go once a second
  (`edge_processing.c:1200`, `README.md:675`).
- `c6_timesync.h:11` and `:34` speak of the lowest EUI; the code follows whoever
  was heard last. `:42` and `:60` promise an offset of 0 without a leader and on
  the leader; a promotion keeps the old one. `is_valid` is true for the first
  window of uptime. A beacon between the timer's clock read and its comparison
  promotes a board beside a live leader; `RivalsSettle` says that it passes.
- The slots of the first gate are taken before the MAC filter
  (`csi_collector.c:260`): a busy foreign sender thins out the one listened to.
- `edge_processing.c:1099` indexes the phases of this frame with a selection made
  on an earlier one; if that had more subcarriers, the entry was not written for
  this frame (line 795 guards the same index, 1099 does not).
- Compressed frames hold the difference to the frame before, which is stored even
  if its send failed; there is no key frame to recover at.
- The self-ping is started at boot if a gateway is known then, and not again
  (`csi_collector.c:400`).
- The NVS key `csi_channel` reaches only the first entry of the hop table, which a
  table of two channels or more overwrites (`csi_collector.c:664`), and without a hop timer no radio is ever set to it.
- `provision.py --reset` by itself deletes the state file and then fails without
  having wiped the node; it accepts more than six hop channels, which the node
  ignores; the help of `--vital-win` gives a default outside the node's range.
- `mmwave_sensor_get_state` is a plain copy (`mmwave_sensor.h` calls it
  thread-safe); a sensor counts as detected even if its task did not start, and a
  reading never expires. An MR60BHA2 whose frames hold start bytes, as every presence
  frame does (its length is 1), can keep the parser out of step for as long as they
  come.
- A failed registration at the seed is logged as retried with the next heartbeat
  (`swarm_bridge.c:268`), which sends another id and counts none.
- `c6_sync_espnow.h:40` promises the local clock when no leader was heard within
  the timeout; a follower whose leader fell silent keeps its last offset.
- With two callers the streak can miss a reset or an increment
  (`stream_sender.c:109`).
- `README.md:545` speaks of ten consecutive budget faults; frames between half
  and the whole budget keep the count (`wasm_runtime.c:709`), so the ten need
  not be consecutive.
- `on_init` runs again at every start after a stop (`wasm_runtime.h:24` says
  once, after load).
- Unloading frees a runtime that a dispatcher may be executing.
- The start, stop and delete URIs end in a wildcard, which needs a matching
  function that `ota_update.c` does not set.
- `presence_score` equals `motion_energy` (`edge_processing.c:1154`), so a quiet
  presence, the condition for RESP_HIGH_SENS, is only ever a torn read; and
  ALERT is unreachable while `anomaly_score` is 0 (`adaptive_controller.c:132`).
- A torn read of the vitals packet can select RESP_HIGH_SENS, and the default
  branch of the policy sets the profile only on a state change, so an empty room
  may stay there against "Default: passive low rate"
  (`adaptive_controller_decide.c:75`).
- `provision.py` has no `--ota-psk` option, which `ota_update.c:44` and `:271`
  send the operator to, and nothing else in the repository writes the key; it
  also replaces the whole NVS partition, key included.
- `ota_update.c:5` speaks of rollback support; no sdkconfig enables it and no
  code marks an image as valid, so a build that boots but does not work stays.
- `OTA_MAX_SIZE` is 900 KB and "matches CI binary size gate"
  (`ota_update.c:26`); the gate in the component's README is 950 KB and
  `partitions_4mb.csv:3` gives a binary of about 978 KB, which is refused.
- A peer that vanishes in an upload is retried for ever (`ota_update.c:154`) on
  the one HTTP task.
- After MAX_RETRY losses in a row nothing connects again until a reset, however
  long the node had been up (`main.c:72`); `main.c:342` says `wifi_init_sta`
  blocks until the station is connected, but it also returns on failure.
- Only the node id and the MAC filter are captured before the driver starts; the
  target address, channel, thresholds and swarm settings are still read from the
  structure that may be overwritten.
- `main.c:327` starts channel hopping; `csi_collector_start_hop_timer` has no
  caller, so no hop ever happens.
- `c6_lp_core_arm`, `swarm_bridge_update_vitals` and
  `swarm_bridge_update_happiness` have no callers either: the LP gate is never
  armed and heartbeats carry zeros.
- The first yield window reports 0, so every boot passes through DEGRADED and
  announces a yield collapse.
- Any positive energy counts at least one person, in an empty room too.

## Not modelled

What is left out of a modelled part is named in its section and in the notes of
`PROJECT.json`. Whole parts that are left out, and why:

- *Numbers.* Filters, rates, variances, calibration and delta compression of
  `edge_processing.c` are loops over floating-point or sample data; they decide
  only which comparisons come out how, and `EdgeVitals` leaves these open.
- *Encoders and parsers without state*: `rv_mesh.c`, `rv_feature_state.c`,
  `rvf_parser.c`, the bytes of a CSI frame. Their inputs and verdicts are in the
  models that use them; their layout is for unit tests.
- *Swarm bridge*: one task that posts and forgets. Nothing writes the snapshot it
  sends and nothing reads its counters; what a lost post does to the seed is not
  in this repository.
- *LP core*: `c6_lp_core_arm` has no caller, so the program never runs.
- *Power, TWT, soft-AP*: driver settings made once at boot, one flag each.
- *Display, mock CSI generator, test node, host tests*: they draw, generate input
  or bring up a board, and the sensing path does not depend on them.
- *Reference node*: the same sources as the adapted node up to the lines named at
  the top, which the map therefore does not name a second time. That is close to
  half of the implementation's lines; of the adapted node's firmware the models
  stand for the parts that keep state or run concurrently.

Worth doing if the code moves on: `EventsLandInTheirSlot` as an invariant to prove,
once `s_cur_slot_id` is per task; the LP program if the
firmware comes to arm it.

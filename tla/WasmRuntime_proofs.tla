-------------------------- MODULE WasmRuntime_proofs --------------------------
(***************************************************************************)
(* The WASM runtime for any number of slots, uploads and limits.  The two  *)
(* dispatchers call and write into a slot whatever it holds by now; the    *)
(* invariant says what they can meet there: a module that was loaded       *)
(* meanwhile and whose on_init has not returned is entered at most once by *)
(* each of them, and its counters never fall behind what it did.           *)
(***************************************************************************)
EXTENDS WasmRuntime, TLAPS

(* What a slot's state says of the module in it.                           *)
SlotsInv ==
  \A s \in Slot :
    /\ state[s] = "empty" => module[s] = 0
    /\ state[s] \in {"loaded", "running", "stopped"} => module[s] # 0
    /\ state[s] \in {"running", "stopped"} => inits[s] > 0

(* The slot of the request under way is not taken away from it.            *)
RequestInv ==
  /\ http # NoSlot => module[http] # 0 /\ state[http] \in {"loaded", "stopped", "error"}
  /\ call["http"] # 0 => http # NoSlot /\ inits[http] > 0

(* An unstarted module does not run, so on_frame comes to it at most once, *)
(* with a test passed before it was loaded.                                *)
UnstartedInv ==
  \A s \in Slot : Unstarted(s) =>
    /\ row[s] + failed[s] <= 1
    /\ at["frame"] = s /\ step["frame"] # "test" => row[s] = 0 /\ failed[s] = 0

(* The dispatcher that is on its way to such a module has not called it.   *)
EarlyInv ==
  \A s \in Slot, t \in Dispatchers :
    /\ early[s][t] <= 1
    /\ Unstarted(s) /\ at[t] = s /\ step[t] \in {"select", "clear", "call"} => early[s][t] = 0

(* A call that outlived its module finds one that never overran.           *)
OutlivedInv ==
  LET s == at["frame"]
  IN  step["frame"] = "run" /\ module[s] # 0 /\ module[s] # call["frame"] => row[s] = 0

(* The counters of a slot are never behind what its module did.            *)
CountsInv ==
  \A s \in Slot : module[s] # 0 => row[s] <= faults[s] /\ failed[s] <= errors[s]

IInv ==
  /\ TypeOK
  /\ SlotsInv /\ RequestInv
  /\ UnstartedInv /\ EarlyInv /\ OutlivedInv /\ CountsInv
  /\ RunawayStops /\ FailingStops

-----------------------------------------------------------------------------

(* The dispatchers' loop stays on the slots.                               *)
LEMMA FollowingIsASlot ==
  ASSUME NEW s \in Slot
  PROVE  Following(s) \in Slot
BY SlotsAssumption DEF Following, Slot

LEMMA FirstSlot == 1 \in Slot
BY SlotsAssumption DEF Slot

LEMMA InitIInv == Init => IInv
<1> SUFFICES ASSUME Init PROVE IInv
  OBVIOUS
<1>1. 1 \in Slot
  BY SlotsAssumption DEF Slot
<1>2. TypeOK
  <2>1. arena \in [Slot -> {"kept", "lost", "dangling"}]
    BY DEF Init
  <2> QED BY <1>1, <2>1, BoundsAssumption DEF Init, TypeOK, Tasks, Dispatchers, All, Both
<1>3. SlotsInv /\ UnstartedInv /\ CountsInv /\ RunawayStops /\ FailingStops
  BY DEF Init, All, Both, SlotsInv, Unstarted, UnstartedInv, CountsInv, RunawayStops, FailingStops
<1>5. EarlyInv
  BY DEF Init, All, Both, EarlyInv, Unstarted, Slot, Dispatchers
<1>4. RequestInv /\ OutlivedInv
  BY DEF Init, All, Both, RequestInv, OutlivedInv, Tasks, Dispatchers, NoSlot
<1> QED BY <1>2, <1>3, <1>4, <1>5 DEF IInv

(* What a slot holds.                                                      *)
SlotTypes ==
  /\ state \in [Slot -> {"empty", "loaded", "running", "stopped", "error"}]
  /\ module \in [Slot -> 0..MaxUploads] /\ exports \in [Slot -> SUBSET Dispatchers]
  /\ arena \in [Slot -> {"kept", "lost", "dangling"}]
  /\ uploads \in 0..MaxUploads

(* Its events.                                                             *)
EventTypes ==
  /\ events \in [Slot -> SUBSET (1..MaxUploads)]
  /\ fresh \in [Dispatchers -> SUBSET (1..MaxUploads)]

(* Where the tasks are.                                                    *)
TaskTypes ==
  /\ current \in Slot /\ http \in Slot \cup {NoSlot}
  /\ call \in [Tasks -> 0..MaxUploads] /\ at \in [Dispatchers -> Slot]
  /\ step \in [Dispatchers -> {"test", "select", "clear", "call", "run"}]
  /\ picked \in 0..MaxUploads

(* Its counters.                                                           *)
CountTypes ==
  /\ faults \in [Slot -> Nat] /\ errors \in [Slot -> Nat]
  /\ inits \in [Slot -> Nat] /\ row \in [Slot -> Nat] /\ failed \in [Slot -> Nat]
  /\ early \in [Slot -> [Dispatchers -> Nat]]

(* Types, group by group.                                                  *)
LEMMA SlotTypesKept ==
  ASSUME TypeOK, RequestInv, [Next]_vars
  PROVE  SlotTypes'
<1> USE BoundsAssumption, SlotsAssumption
       DEF slots, loops, counts, history, TypeOK, SlotTypes, Tasks, Dispatchers, NoSlot, Put
<1>1. ASSUME NEW s \in Slot, Load(s) PROVE SlotTypes'
  <2>1. exports' \in [Slot -> SUBSET Dispatchers]
    BY <1>1, ExportsAssumption DEF Load
  <2>2. state' \in [Slot -> {"empty", "loaded", "running", "stopped", "error"}]
    BY <1>1 DEF Load
  <2>3. module' \in [Slot -> 0..MaxUploads] /\ uploads' \in 0..MaxUploads
    BY <1>1 DEF Load
  <2>4. arena' \in [Slot -> {"kept", "lost", "dangling"}]
    BY <1>1 DEF Load
  <2> QED BY <2>1, <2>2, <2>3, <2>4
<1>2. ASSUME NEW s \in Slot, LoadWithoutRuntime(s) \/ LoadBadModule(s)
      PROVE  SlotTypes'
  <2>1. CASE LoadWithoutRuntime(s)
    BY <2>1 DEF LoadWithoutRuntime
  <2>2. CASE LoadBadModule(s)
    BY <2>2 DEF LoadBadModule
  <2> QED BY <1>2, <2>1, <2>2
<1>3. ASSUME NEW s \in Slot, RequestStart(s) \/ Stop(s) \/ Unload(s)
      PROVE  SlotTypes'
  <2>1. CASE RequestStart(s)
    BY <2>1 DEF RequestStart
  <2>2. CASE Stop(s)
    BY <2>2 DEF Stop
  <2>3. CASE Unload(s)
    BY <2>3 DEF Unload
  <2> QED BY <1>3, <2>1, <2>2, <2>3
<1>4. CASE BeginInit \/ StartRefused
  BY <1>4, FollowingIsASlot DEF BeginInit, StartRefused
<1>5. CASE InitSucceeds \/ InitFails
  BY <1>5, FollowingIsASlot
     DEF InitSucceeds, InitFails, RequestInv
<1>6. ASSUME NEW t \in Dispatchers, Skip(t) \/ Choose(t) \/ Select(t)
      PROVE  SlotTypes'
  BY <1>6, FollowingIsASlot
     DEF Skip, Choose, Select, GoOn, Callable, slots
<1>13. ASSUME NEW t \in Dispatchers, ClearEvents(t) \/ CallModule(t)
      PROVE  SlotTypes'
  BY <1>13, FollowingIsASlot DEF ClearEvents, CallModule, GoOn, slots
<1>14. ASSUME NEW t \in Dispatchers, CallNull(t)
      PROVE  SlotTypes'
  BY <1>14, FirstSlot DEF CallNull, All, Both
<1>7. ASSUME NEW t \in Tasks, Emit(t) PROVE SlotTypes'
  BY <1>7, FollowingIsASlot DEF Emit
<1>8. CASE FrameFails
  BY <1>8, FollowingIsASlot DEF FrameFails, Leave, GoOn, Note
<1>9. CASE FrameOverruns
  BY <1>9, FollowingIsASlot DEF FrameOverruns, Leave, GoOn, Send, Note
<1>10. CASE FrameInTime
  BY <1>10, FollowingIsASlot DEF FrameInTime, Leave, GoOn, Send, Note
<1>11. CASE TimerReturns
  BY <1>11, FollowingIsASlot DEF TimerReturns, Leave, GoOn, Send
<1>12. CASE UNCHANGED vars
  BY <1>12, FollowingIsASlot DEF vars
<1> QED BY <1>1, <1>2, <1>3, <1>4, <1>5, <1>6, <1>7, <1>8, <1>9, <1>10, <1>11, <1>12, <1>13, <1>14
        DEF Next, Upload, Manage, Starting, Dispatch, Return

LEMMA EventTypesKept ==
  ASSUME TypeOK, RequestInv, [Next]_vars
  PROVE  EventTypes'
<1> USE BoundsAssumption, SlotsAssumption
       DEF slots, loops, counts, history, TypeOK, EventTypes, Tasks, Dispatchers, NoSlot, Put
<1>1. ASSUME NEW s \in Slot, Load(s) PROVE EventTypes'
  BY <1>1, FollowingIsASlot DEF Load
<1>2. ASSUME NEW s \in Slot, LoadWithoutRuntime(s) \/ LoadBadModule(s)
      PROVE  EventTypes'
  BY <1>2, FollowingIsASlot
     DEF LoadWithoutRuntime, LoadBadModule
<1>3. ASSUME NEW s \in Slot, RequestStart(s) \/ Stop(s) \/ Unload(s)
      PROVE  EventTypes'
  BY <1>3, FollowingIsASlot DEF RequestStart, Stop, Unload
<1>4. CASE BeginInit \/ StartRefused
  BY <1>4, FollowingIsASlot DEF BeginInit, StartRefused
<1>5. CASE InitSucceeds \/ InitFails
  BY <1>5, FollowingIsASlot
     DEF InitSucceeds, InitFails, RequestInv
<1>6. ASSUME NEW t \in Dispatchers, Skip(t) \/ Choose(t) \/ Select(t)
      PROVE  EventTypes'
  BY <1>6, FollowingIsASlot
     DEF Skip, Choose, Select, GoOn, Callable, slots
<1>13. ASSUME NEW t \in Dispatchers, ClearEvents(t) \/ CallModule(t)
      PROVE  EventTypes'
  <2>1. CASE ClearEvents(t)
    BY <2>1 DEF ClearEvents, GoOn, slots
  <2>2. CASE CallModule(t)
    BY <2>2 DEF CallModule, GoOn, slots
  <2> QED BY <1>13, <2>1, <2>2
<1>14. ASSUME NEW t \in Dispatchers, CallNull(t)
      PROVE  EventTypes'
  BY <1>14, FirstSlot DEF CallNull, All, Both
<1>7. ASSUME NEW t \in Tasks, Emit(t) PROVE EventTypes'
  BY <1>7, FollowingIsASlot DEF Emit
<1>8. CASE FrameFails
  BY <1>8, FollowingIsASlot DEF FrameFails, Leave, GoOn, Note
<1>9. CASE FrameOverruns
  BY <1>9, FollowingIsASlot DEF FrameOverruns, Leave, GoOn, Send, Note
<1>10. CASE FrameInTime
  BY <1>10, FollowingIsASlot DEF FrameInTime, Leave, GoOn, Send, Note
<1>11. CASE TimerReturns
  BY <1>11, FollowingIsASlot DEF TimerReturns, Leave, GoOn, Send
<1>12. CASE UNCHANGED vars
  BY <1>12, FollowingIsASlot DEF vars
<1> QED BY <1>1, <1>2, <1>3, <1>4, <1>5, <1>6, <1>7, <1>8, <1>9, <1>10, <1>11, <1>12, <1>13, <1>14
        DEF Next, Upload, Manage, Starting, Dispatch, Return

LEMMA TaskTypesKept ==
  ASSUME TypeOK, RequestInv, [Next]_vars
  PROVE  TaskTypes'
<1> USE BoundsAssumption, SlotsAssumption
       DEF slots, loops, counts, history, TypeOK, TaskTypes, Tasks, Dispatchers, NoSlot, Put
<1>1. ASSUME NEW s \in Slot, Load(s) PROVE TaskTypes'
  BY <1>1, FollowingIsASlot DEF Load
<1>2. ASSUME NEW s \in Slot, LoadWithoutRuntime(s) \/ LoadBadModule(s)
      PROVE  TaskTypes'
  BY <1>2, FollowingIsASlot
     DEF LoadWithoutRuntime, LoadBadModule
<1>3. ASSUME NEW s \in Slot, RequestStart(s) \/ Stop(s) \/ Unload(s)
      PROVE  TaskTypes'
  BY <1>3, FollowingIsASlot DEF RequestStart, Stop, Unload
<1>4. CASE BeginInit \/ StartRefused
  BY <1>4, FollowingIsASlot DEF BeginInit, StartRefused
<1>5. CASE InitSucceeds \/ InitFails
  BY <1>5, FollowingIsASlot
     DEF InitSucceeds, InitFails, RequestInv
<1>6. ASSUME NEW t \in Dispatchers, Skip(t) \/ Choose(t) \/ Select(t)
      PROVE  TaskTypes'
  BY <1>6, FollowingIsASlot
     DEF Skip, Choose, Select, GoOn, Callable, slots
<1>13. ASSUME NEW t \in Dispatchers, ClearEvents(t) \/ CallModule(t)
      PROVE  TaskTypes'
  BY <1>13, FollowingIsASlot DEF ClearEvents, CallModule, GoOn, slots
<1>14. ASSUME NEW t \in Dispatchers, CallNull(t)
      PROVE  TaskTypes'
  BY <1>14, FirstSlot DEF CallNull, All, Both
<1>7. ASSUME NEW t \in Tasks, Emit(t) PROVE TaskTypes'
  BY <1>7, FollowingIsASlot DEF Emit
<1>8. CASE FrameFails
  BY <1>8, FollowingIsASlot DEF FrameFails, Leave, GoOn, Note
<1>9. CASE FrameOverruns
  BY <1>9, FollowingIsASlot DEF FrameOverruns, Leave, GoOn, Send, Note
<1>10. CASE FrameInTime
  BY <1>10, FollowingIsASlot DEF FrameInTime, Leave, GoOn, Send, Note
<1>11. CASE TimerReturns
  BY <1>11, FollowingIsASlot DEF TimerReturns, Leave, GoOn, Send
<1>12. CASE UNCHANGED vars
  BY <1>12, FollowingIsASlot DEF vars
<1> QED BY <1>1, <1>2, <1>3, <1>4, <1>5, <1>6, <1>7, <1>8, <1>9, <1>10, <1>11, <1>12, <1>13, <1>14
        DEF Next, Upload, Manage, Starting, Dispatch, Return

LEMMA CountTypesKept ==
  ASSUME TypeOK, RequestInv, [Next]_vars
  PROVE  CountTypes'
<1> USE BoundsAssumption, SlotsAssumption
       DEF slots, loops, counts, history, TypeOK, CountTypes, Tasks, Dispatchers, NoSlot, Put
<1>1. ASSUME NEW s \in Slot, Load(s) PROVE CountTypes'
  BY <1>1, FollowingIsASlot DEF Load, Both
<1>2. ASSUME NEW s \in Slot, LoadWithoutRuntime(s) \/ LoadBadModule(s)
      PROVE  CountTypes'
  <2>1. CASE LoadWithoutRuntime(s)
    BY <2>1 DEF LoadWithoutRuntime
  <2>2. CASE LoadBadModule(s)
    BY <2>2 DEF LoadBadModule
  <2> QED BY <1>2, <2>1, <2>2
<1>3. ASSUME NEW s \in Slot, RequestStart(s) \/ Stop(s) \/ Unload(s)
      PROVE  CountTypes'
  <2>1. CASE RequestStart(s) \/ Stop(s)
    BY <2>1 DEF RequestStart, Stop
  <2>2. CASE Unload(s)
    BY <2>2 DEF Unload
  <2> QED BY <1>3, <2>1, <2>2
<1>4. CASE BeginInit \/ StartRefused
  <2>1. CASE BeginInit
    BY <2>1 DEF BeginInit
  <2>2. CASE StartRefused
    BY <2>2 DEF StartRefused
  <2> QED BY <1>4, <2>1, <2>2
<1>5. CASE InitSucceeds \/ InitFails
  <2>1. CASE InitSucceeds
    BY <2>1 DEF InitSucceeds
  <2>2. CASE InitFails
    BY <2>2 DEF InitFails, RequestInv
  <2> QED BY <1>5, <2>1, <2>2
<1>6. ASSUME NEW t \in Dispatchers, Skip(t) \/ Choose(t) \/ Select(t)
      PROVE  CountTypes'
  BY <1>6, FollowingIsASlot
     DEF Skip, Choose, Select, GoOn, Callable, slots
<1>13. ASSUME NEW t \in Dispatchers, ClearEvents(t) \/ CallModule(t)
      PROVE  CountTypes'
  <2>1. CASE ClearEvents(t)
    BY <2>1 DEF ClearEvents, GoOn, slots
  <2>2. CASE CallModule(t)
    BY <2>2 DEF CallModule, CountIfEarly, GoOn, slots
  <2> QED BY <1>13, <2>1, <2>2
<1>14. ASSUME NEW t \in Dispatchers, CallNull(t)
      PROVE  CountTypes'
  BY <1>14, FirstSlot DEF CallNull, All, Both
<1>7. ASSUME NEW t \in Tasks, Emit(t) PROVE CountTypes'
  BY <1>7, FollowingIsASlot DEF Emit
<1>8. CASE FrameFails
  BY <1>8, FollowingIsASlot DEF FrameFails, Leave, GoOn, Note
<1>9. CASE FrameOverruns
  BY <1>9, FollowingIsASlot DEF FrameOverruns, Leave, GoOn, Send, Note
<1>10. CASE FrameInTime
  BY <1>10 DEF FrameInTime, Leave, Note
<1>11. CASE TimerReturns
  BY <1>11, FollowingIsASlot DEF TimerReturns, Leave, GoOn, Send
<1>12. CASE UNCHANGED vars
  BY <1>12, FollowingIsASlot DEF vars
<1> QED BY <1>1, <1>2, <1>3, <1>4, <1>5, <1>6, <1>7, <1>8, <1>9, <1>10, <1>11, <1>12, <1>13, <1>14
        DEF Next, Upload, Manage, Starting, Dispatch, Return

LEMMA TypeKept ==
  ASSUME TypeOK, RequestInv, [Next]_vars
  PROVE  TypeOK'
BY SlotTypesKept, EventTypesKept, TaskTypesKept, CountTypesKept
   DEF TypeOK, SlotTypes, EventTypes, TaskTypes, CountTypes

(* At its limit a module is in error; a start finds it without a count.    *)
LEMMA StoppedByTheLimit ==
  ASSUME IInv, [Next]_vars
  PROVE  (RunawayStops /\ FailingStops)'
<1> USE SlotsAssumption, LimitsAssumption
       DEF slots, loops, counts, history, IInv, TypeOK, RunawayStops,
           FailingStops, CountsInv, UnstartedInv, Unstarted, RequestInv,
           SlotsInv, Tasks, Dispatchers, NoSlot, Put
<1>1. ASSUME NEW s \in Slot, Load(s) PROVE (RunawayStops /\ FailingStops)'
  BY <1>1, FollowingIsASlot DEF Load, FirstFree, Accepts
<1>2. ASSUME NEW s \in Slot, LoadWithoutRuntime(s) \/ LoadBadModule(s)
      PROVE  (RunawayStops /\ FailingStops)'
  BY <1>2, FollowingIsASlot
     DEF LoadWithoutRuntime, LoadBadModule, FirstFree, Accepts
<1>3. ASSUME NEW s \in Slot, RequestStart(s)
      PROVE  (RunawayStops /\ FailingStops)'
  BY <1>3, FollowingIsASlot
     DEF RequestStart, Startable, Accepts
<1>4. ASSUME NEW s \in Slot, Stop(s) \/ Unload(s)
      PROVE  (RunawayStops /\ FailingStops)'
  BY <1>4, FollowingIsASlot DEF Stop, Unload, Accepts
<1>5. CASE BeginInit
  BY <1>5, FollowingIsASlot DEF BeginInit, Startable
<1>6. CASE StartRefused
  BY <1>6, FollowingIsASlot DEF StartRefused
<1>7. CASE InitSucceeds \/ InitFails
  BY <1>7, FollowingIsASlot DEF InitSucceeds, InitFails
<1>8. ASSUME NEW t \in Dispatchers, Skip(t) \/ Choose(t) \/ Select(t)
      PROVE  (RunawayStops /\ FailingStops)'
  BY <1>8, FollowingIsASlot
     DEF Skip, Choose, Select, GoOn, Callable, slots
<1>15. ASSUME NEW t \in Dispatchers, ClearEvents(t) \/ CallModule(t)
      PROVE  (RunawayStops /\ FailingStops)'
  BY <1>15, FollowingIsASlot DEF ClearEvents, CallModule, GoOn, slots
<1>16. ASSUME NEW t \in Dispatchers, CallNull(t)
      PROVE  (RunawayStops /\ FailingStops)'
  BY <1>16, FirstSlot DEF CallNull, All, Both
<1>9. ASSUME NEW t \in Tasks, Emit(t) PROVE (RunawayStops /\ FailingStops)'
  BY <1>9, FollowingIsASlot DEF Emit
<1>10. CASE FrameFails
  BY <1>10, FollowingIsASlot DEF FrameFails, Leave, GoOn, Note
<1>11. CASE FrameOverruns
  BY <1>11, FollowingIsASlot DEF FrameOverruns, Leave, GoOn, Note
<1>12. CASE FrameInTime
  BY <1>12, FollowingIsASlot DEF FrameInTime, Leave, GoOn, Send, Note
<1>13. CASE TimerReturns
  BY <1>13, FollowingIsASlot DEF TimerReturns, Leave, GoOn, Send
<1>14. CASE UNCHANGED vars
  BY <1>14, FollowingIsASlot DEF vars
<1> QED BY <1>1, <1>2, <1>3, <1>4, <1>5, <1>6, <1>7, <1>8, <1>9, <1>10, <1>11, <1>12, <1>13, <1>14, <1>15, <1>16
        DEF Next, Upload, Manage, Starting, Dispatch, Return

(* Each step keeps each part of the invariant.                             *)
LEMMA SlotsKept ==
  ASSUME IInv, [Next]_vars
  PROVE  SlotsInv'
<1> USE SlotsAssumption, LimitsAssumption
       DEF slots, loops, counts, history, IInv, TypeOK, SlotsInv, RequestInv,
           Tasks, Dispatchers, NoSlot, Put
<1>1. ASSUME NEW s \in Slot, Load(s) PROVE SlotsInv'
  BY <1>1, FollowingIsASlot DEF Load, FirstFree, Accepts
<1>2. ASSUME NEW s \in Slot, LoadWithoutRuntime(s) \/ LoadBadModule(s)
      PROVE  SlotsInv'
  BY <1>2, FollowingIsASlot
     DEF LoadWithoutRuntime, LoadBadModule, FirstFree, Accepts
<1>3. ASSUME NEW s \in Slot, RequestStart(s) PROVE SlotsInv'
  BY <1>3, FollowingIsASlot
     DEF RequestStart, Startable, Accepts
<1>4. ASSUME NEW s \in Slot, Stop(s) \/ Unload(s) PROVE SlotsInv'
  BY <1>4, FollowingIsASlot DEF Stop, Unload, Accepts
<1>5. CASE BeginInit
  BY <1>5, FollowingIsASlot DEF BeginInit, Startable
<1>6. CASE StartRefused
  BY <1>6, FollowingIsASlot DEF StartRefused
<1>7. CASE InitSucceeds \/ InitFails
  BY <1>7, FollowingIsASlot DEF InitSucceeds, InitFails
<1>8. ASSUME NEW t \in Dispatchers, Skip(t) \/ Choose(t) \/ Select(t)
      PROVE  SlotsInv'
  BY <1>8, FollowingIsASlot
     DEF Skip, Choose, Select, GoOn, Callable, slots
<1>15. ASSUME NEW t \in Dispatchers, ClearEvents(t) \/ CallModule(t)
      PROVE  SlotsInv'
  BY <1>15, FollowingIsASlot DEF ClearEvents, CallModule, GoOn, slots
<1>16. ASSUME NEW t \in Dispatchers, CallNull(t)
      PROVE  SlotsInv'
  BY <1>16, FirstSlot DEF CallNull, All, Both
<1>9. ASSUME NEW t \in Tasks, Emit(t) PROVE SlotsInv'
  BY <1>9, FollowingIsASlot DEF Emit
<1>10. CASE FrameFails
  BY <1>10, FollowingIsASlot DEF FrameFails, Leave, GoOn, Note
<1>11. CASE FrameOverruns
  BY <1>11, FollowingIsASlot DEF FrameOverruns, Leave, GoOn, Note
<1>12. CASE FrameInTime
  BY <1>12, FollowingIsASlot DEF FrameInTime, Leave, GoOn, Send, Note
<1>13. CASE TimerReturns
  BY <1>13, FollowingIsASlot DEF TimerReturns, Leave, GoOn, Send
<1>14. CASE UNCHANGED vars
  BY <1>14, FollowingIsASlot DEF vars
<1> QED BY <1>1, <1>2, <1>3, <1>4, <1>5, <1>6, <1>7, <1>8, <1>9, <1>10, <1>11, <1>12, <1>13, <1>14, <1>15, <1>16
        DEF Next, Upload, Manage, Starting, Dispatch, Return

LEMMA RequestKept ==
  ASSUME IInv, [Next]_vars
  PROVE  RequestInv'
<1> USE SlotsAssumption, LimitsAssumption
       DEF slots, loops, counts, history, IInv, TypeOK, RequestInv, SlotsInv, Tasks, Dispatchers, NoSlot, Put
<1>1. ASSUME NEW s \in Slot, Load(s) PROVE RequestInv'
  BY <1>1, FollowingIsASlot DEF Load, FirstFree, Accepts
<1>2. ASSUME NEW s \in Slot, LoadWithoutRuntime(s) \/ LoadBadModule(s)
      PROVE  RequestInv'
  BY <1>2, FollowingIsASlot
     DEF LoadWithoutRuntime, LoadBadModule, FirstFree, Accepts
<1>3. ASSUME NEW s \in Slot, RequestStart(s) PROVE RequestInv'
  BY <1>3, FollowingIsASlot
     DEF RequestStart, Startable, Accepts
<1>4. ASSUME NEW s \in Slot, Stop(s) \/ Unload(s) PROVE RequestInv'
  BY <1>4, FollowingIsASlot DEF Stop, Unload, Accepts
<1>5. CASE BeginInit
  BY <1>5, FollowingIsASlot DEF BeginInit, Startable
<1>6. CASE StartRefused
  BY <1>6, FollowingIsASlot DEF StartRefused
<1>7. CASE InitSucceeds \/ InitFails
  BY <1>7, FollowingIsASlot DEF InitSucceeds, InitFails
<1>8. ASSUME NEW t \in Dispatchers, Skip(t) \/ Choose(t) \/ Select(t)
      PROVE  RequestInv'
  BY <1>8, FollowingIsASlot
     DEF Skip, Choose, Select, GoOn, Callable, slots
<1>15. ASSUME NEW t \in Dispatchers, ClearEvents(t) \/ CallModule(t)
      PROVE  RequestInv'
  BY <1>15, FollowingIsASlot DEF ClearEvents, CallModule, GoOn, slots
<1>16. ASSUME NEW t \in Dispatchers, CallNull(t)
      PROVE  RequestInv'
  BY <1>16, FirstSlot DEF CallNull, All, Both
<1>9. ASSUME NEW t \in Tasks, Emit(t) PROVE RequestInv'
  BY <1>9, FollowingIsASlot DEF Emit
<1>10. CASE FrameFails
  BY <1>10, FollowingIsASlot DEF FrameFails, Leave, GoOn, Note
<1>11. CASE FrameOverruns
  BY <1>11, FollowingIsASlot DEF FrameOverruns, Leave, GoOn, Note
<1>12. CASE FrameInTime
  BY <1>12, FollowingIsASlot DEF FrameInTime, Leave, GoOn, Send, Note
<1>13. CASE TimerReturns
  BY <1>13, FollowingIsASlot DEF TimerReturns, Leave, GoOn, Send
<1>14. CASE UNCHANGED vars
  BY <1>14, FollowingIsASlot DEF vars
<1> QED BY <1>1, <1>2, <1>3, <1>4, <1>5, <1>6, <1>7, <1>8, <1>9, <1>10, <1>11, <1>12, <1>13, <1>14, <1>15, <1>16
        DEF Next, Upload, Manage, Starting, Dispatch, Return

(* A test that was passed lets on_frame into a slot once.                  *)
LEMMA UnstartedKept ==
  ASSUME IInv, [Next]_vars
  PROVE  UnstartedInv'
<1> USE SlotsAssumption, LimitsAssumption
       DEF slots, loops, counts, history, IInv, TypeOK, UnstartedInv, Unstarted, SlotsInv, RequestInv,
           Tasks, Dispatchers, NoSlot, Put
<1>1. ASSUME NEW s \in Slot, Load(s) PROVE UnstartedInv'
  BY <1>1, FollowingIsASlot DEF Load, FirstFree, Accepts
<1>2. ASSUME NEW s \in Slot, LoadWithoutRuntime(s) \/ LoadBadModule(s)
      PROVE  UnstartedInv'
  BY <1>2, FollowingIsASlot
     DEF LoadWithoutRuntime, LoadBadModule, FirstFree, Accepts
<1>3. ASSUME NEW s \in Slot, RequestStart(s) PROVE UnstartedInv'
  BY <1>3, FollowingIsASlot
     DEF RequestStart, Startable, Accepts
<1>4. ASSUME NEW s \in Slot, Stop(s) \/ Unload(s) PROVE UnstartedInv'
  BY <1>4, FollowingIsASlot DEF Stop, Unload, Accepts
<1>5. CASE BeginInit
  <2>1. UNCHANGED <<module, at, step, row, failed>>
    BY <1>5 DEF BeginInit
  <2>2. \A s \in Slot : Unstarted(s)' => Unstarted(s)
    BY <1>5 DEF BeginInit, Startable
  <2> QED BY <2>1, <2>2
<1>6. CASE StartRefused
  BY <1>6, FollowingIsASlot DEF StartRefused
<1>7. CASE InitSucceeds \/ InitFails
  BY <1>7, FollowingIsASlot DEF InitSucceeds, InitFails
<1>8. ASSUME NEW t \in Dispatchers, Skip(t) \/ Choose(t) \/ Select(t)
      PROVE  UnstartedInv'
  BY <1>8, FollowingIsASlot
     DEF Skip, Choose, Select, GoOn, Callable, slots
<1>15. ASSUME NEW t \in Dispatchers, ClearEvents(t) \/ CallModule(t)
      PROVE  UnstartedInv'
  BY <1>15, FollowingIsASlot DEF ClearEvents, CallModule, GoOn, slots
<1>16. ASSUME NEW t \in Dispatchers, CallNull(t)
      PROVE  UnstartedInv'
  BY <1>16, FirstSlot DEF CallNull, All, Both
<1>9. ASSUME NEW t \in Tasks, Emit(t) PROVE UnstartedInv'
  BY <1>9, FollowingIsASlot DEF Emit
<1>10. CASE FrameFails
  BY <1>10, FollowingIsASlot DEF FrameFails, Leave, GoOn, Note
<1>11. CASE FrameOverruns
  BY <1>11, FollowingIsASlot DEF FrameOverruns, Leave, GoOn, Note
<1>12. CASE FrameInTime
  BY <1>12, FollowingIsASlot DEF FrameInTime, Leave, GoOn, Send, Note
<1>13. CASE TimerReturns
  BY <1>13, FollowingIsASlot DEF TimerReturns, Leave, GoOn, Send
<1>14. CASE UNCHANGED vars
  BY <1>14, FollowingIsASlot DEF vars
<1> QED BY <1>1, <1>2, <1>3, <1>4, <1>5, <1>6, <1>7, <1>8, <1>9, <1>10, <1>11, <1>12, <1>13, <1>14, <1>15, <1>16
        DEF Next, Upload, Manage, Starting, Dispatch, Return

(* No test lets a dispatcher into an unstarted module.                     *)
LEMMA EarlyKept ==
  ASSUME IInv, [Next]_vars
  PROVE  EarlyInv'
<1> USE SlotsAssumption, LimitsAssumption
       DEF slots, loops, counts, history, IInv, TypeOK, EarlyInv, Unstarted, SlotsInv, RequestInv,
           Tasks, Dispatchers, NoSlot, Put
<1>1. ASSUME NEW s \in Slot, Load(s) PROVE EarlyInv'
  BY <1>1, FollowingIsASlot DEF Load, Both, FirstFree, Accepts
<1>2. ASSUME NEW s \in Slot, LoadWithoutRuntime(s) \/ LoadBadModule(s)
      PROVE  EarlyInv'
  BY <1>2, FollowingIsASlot
     DEF LoadWithoutRuntime, LoadBadModule, FirstFree, Accepts
<1>3. ASSUME NEW s \in Slot, RequestStart(s) PROVE EarlyInv'
  BY <1>3, FollowingIsASlot
     DEF RequestStart, Startable, Accepts
<1>4. ASSUME NEW s \in Slot, Stop(s) \/ Unload(s) PROVE EarlyInv'
  BY <1>4, FollowingIsASlot DEF Stop, Unload, Accepts
<1>5. CASE BeginInit
  BY <1>5, FollowingIsASlot DEF BeginInit, Startable
<1>6. CASE StartRefused
  BY <1>6, FollowingIsASlot DEF StartRefused
<1>7. CASE InitSucceeds \/ InitFails
  <2>1. CASE InitSucceeds
    BY <2>1 DEF InitSucceeds
  <2>2. CASE InitFails
    BY <2>2 DEF InitFails
  <2> QED BY <1>7, <2>1, <2>2
<1>8. ASSUME NEW t \in Dispatchers, Skip(t) \/ Choose(t) \/ Select(t)
      PROVE  EarlyInv'
  BY <1>8, FollowingIsASlot
     DEF Skip, Choose, Select, GoOn, Callable, slots
<1>15. ASSUME NEW t \in Dispatchers, ClearEvents(t) \/ CallModule(t)
      PROVE  EarlyInv'
  <2>1. CASE ClearEvents(t)
    BY <2>1 DEF ClearEvents, GoOn, slots
  <2>2. CASE CallModule(t)
    BY <2>2 DEF CallModule, CountIfEarly, GoOn, slots
  <2> QED BY <1>15, <2>1, <2>2
<1>16. ASSUME NEW t \in Dispatchers, CallNull(t)
      PROVE  EarlyInv'
  BY <1>16, FirstSlot DEF CallNull, All, Both
<1>9. ASSUME NEW t \in Tasks, Emit(t) PROVE EarlyInv'
  BY <1>9, FollowingIsASlot DEF Emit
<1>10. CASE FrameFails
  BY <1>10, FollowingIsASlot DEF FrameFails, Leave, GoOn, Note
<1>11. CASE FrameOverruns
  BY <1>11, FollowingIsASlot DEF FrameOverruns, Leave, GoOn, Note
<1>12. CASE FrameInTime
  BY <1>12, FollowingIsASlot DEF FrameInTime, Leave, GoOn, Send, Note
<1>13. CASE TimerReturns
  BY <1>13, FollowingIsASlot DEF TimerReturns, Leave, GoOn, Send
<1>14. CASE UNCHANGED vars
  BY <1>14, FollowingIsASlot DEF vars
<1> QED BY <1>1, <1>2, <1>3, <1>4, <1>5, <1>6, <1>7, <1>8, <1>9, <1>10, <1>11, <1>12, <1>13, <1>14, <1>15, <1>16
        DEF Next, Upload, Manage, Starting, Dispatch, Return

(* While on_frame is in a call nothing else adds to the overruns.          *)
LEMMA OutlivedKept ==
  ASSUME IInv, [Next]_vars
  PROVE  OutlivedInv'
<1> USE SlotsAssumption, LimitsAssumption
       DEF slots, loops, counts, history, IInv, TypeOK, OutlivedInv, UnstartedInv, SlotsInv,
           Tasks, Dispatchers, NoSlot, Put
<1>1. ASSUME NEW s \in Slot, Load(s) PROVE OutlivedInv'
  BY <1>1, FollowingIsASlot DEF Load, FirstFree, Accepts
<1>2. ASSUME NEW s \in Slot, LoadWithoutRuntime(s) \/ LoadBadModule(s)
      PROVE  OutlivedInv'
  BY <1>2, FollowingIsASlot
     DEF LoadWithoutRuntime, LoadBadModule, FirstFree, Accepts
<1>3. ASSUME NEW s \in Slot, RequestStart(s) PROVE OutlivedInv'
  BY <1>3, FollowingIsASlot
     DEF RequestStart, Startable, Accepts
<1>4. ASSUME NEW s \in Slot, Stop(s) \/ Unload(s) PROVE OutlivedInv'
  BY <1>4, FollowingIsASlot DEF Stop, Unload, Accepts
<1>5. CASE BeginInit
  BY <1>5, FollowingIsASlot DEF BeginInit, Startable
<1>6. CASE StartRefused
  BY <1>6, FollowingIsASlot DEF StartRefused
<1>7. CASE InitSucceeds \/ InitFails
  BY <1>7, FollowingIsASlot DEF InitSucceeds, InitFails
<1>8. ASSUME NEW t \in Dispatchers, Skip(t) \/ Choose(t) \/ Select(t)
      PROVE  OutlivedInv'
  BY <1>8, FollowingIsASlot
     DEF Skip, Choose, Select, GoOn, Callable, slots
<1>15. ASSUME NEW t \in Dispatchers, ClearEvents(t) \/ CallModule(t)
      PROVE  OutlivedInv'
  BY <1>15, FollowingIsASlot DEF ClearEvents, CallModule, GoOn, slots
<1>16. ASSUME NEW t \in Dispatchers, CallNull(t)
      PROVE  OutlivedInv'
  BY <1>16, FirstSlot DEF CallNull, All, Both
<1>9. ASSUME NEW t \in Tasks, Emit(t) PROVE OutlivedInv'
  BY <1>9, FollowingIsASlot DEF Emit
<1>10. CASE FrameFails
  BY <1>10, FollowingIsASlot DEF FrameFails, Leave, GoOn, Note
<1>11. CASE FrameOverruns
  BY <1>11, FollowingIsASlot DEF FrameOverruns, Leave, GoOn, Note
<1>12. CASE FrameInTime
  BY <1>12, FollowingIsASlot DEF FrameInTime, Leave, GoOn, Send, Note
<1>13. CASE TimerReturns
  BY <1>13, FollowingIsASlot DEF TimerReturns, Leave, GoOn, Send
<1>14. CASE UNCHANGED vars
  BY <1>14, FollowingIsASlot DEF vars
<1> QED BY <1>1, <1>2, <1>3, <1>4, <1>5, <1>6, <1>7, <1>8, <1>9, <1>10, <1>11, <1>12, <1>13, <1>14, <1>15, <1>16
        DEF Next, Upload, Manage, Starting, Dispatch, Return

(* Counters are reset with their module, or by its own calls.              *)
LEMMA CountsKept ==
  ASSUME IInv, [Next]_vars
  PROVE  CountsInv'
<1> USE SlotsAssumption, LimitsAssumption
       DEF slots, loops, counts, history, IInv, TypeOK, CountsInv, OutlivedInv, SlotsInv,
           Tasks, Dispatchers, NoSlot, Put
<1>1. ASSUME NEW s \in Slot, Load(s) PROVE CountsInv'
  BY <1>1, FollowingIsASlot DEF Load, FirstFree, Accepts
<1>2. ASSUME NEW s \in Slot, LoadWithoutRuntime(s) \/ LoadBadModule(s)
      PROVE  CountsInv'
  BY <1>2, FollowingIsASlot
     DEF LoadWithoutRuntime, LoadBadModule, FirstFree, Accepts
<1>3. ASSUME NEW s \in Slot, RequestStart(s) PROVE CountsInv'
  BY <1>3, FollowingIsASlot
     DEF RequestStart, Startable, Accepts
<1>4. ASSUME NEW s \in Slot, Stop(s) \/ Unload(s) PROVE CountsInv'
  BY <1>4, FollowingIsASlot DEF Stop, Unload, Accepts
<1>5. CASE BeginInit
  BY <1>5, FollowingIsASlot DEF BeginInit, Startable
<1>6. CASE StartRefused
  BY <1>6, FollowingIsASlot DEF StartRefused
<1>7. CASE InitSucceeds \/ InitFails
  <2>1. CASE InitSucceeds
    BY <2>1 DEF InitSucceeds
  <2>2. CASE InitFails
    BY <2>2 DEF InitFails
  <2> QED BY <1>7, <2>1, <2>2
<1>8. ASSUME NEW t \in Dispatchers, Skip(t) \/ Choose(t) \/ Select(t)
      PROVE  CountsInv'
  BY <1>8, FollowingIsASlot
     DEF Skip, Choose, Select, GoOn, Callable, slots
<1>15. ASSUME NEW t \in Dispatchers, ClearEvents(t) \/ CallModule(t)
      PROVE  CountsInv'
  BY <1>15, FollowingIsASlot DEF ClearEvents, CallModule, GoOn, slots
<1>16. ASSUME NEW t \in Dispatchers, CallNull(t)
      PROVE  CountsInv'
  BY <1>16, FirstSlot DEF CallNull, All, Both
<1>9. ASSUME NEW t \in Tasks, Emit(t) PROVE CountsInv'
  BY <1>9, FollowingIsASlot DEF Emit
<1>10. CASE FrameFails
  BY <1>10, FollowingIsASlot DEF FrameFails, Leave, GoOn, Note
<1>11. CASE FrameOverruns
  BY <1>11, FollowingIsASlot DEF FrameOverruns, Leave, GoOn, Note
<1>12. CASE FrameInTime
  BY <1>12, FollowingIsASlot DEF FrameInTime, Leave, GoOn, Send, Note
<1>13. CASE TimerReturns
  <2>1. UNCHANGED <<module, faults, row, failed>>
    BY <1>13 DEF TimerReturns
  <2>2. at["timer"] \in Slot
    OBVIOUS
  <2>3. \A s \in Slot : errors'[s] \in Nat /\ errors'[s] >= errors[s]
    <3>1. \/ errors' = errors
          \/ errors' = [errors EXCEPT ![at["timer"]] = errors[at["timer"]] + 1]
      BY <1>13 DEF TimerReturns
    <3>2. errors \in [Slot -> Nat]
      OBVIOUS
    <3> QED BY ONLY <2>2, <3>1, <3>2
  <2> QED BY <2>1, <2>3
<1>14. CASE UNCHANGED vars
  BY <1>14, FollowingIsASlot DEF vars
<1> QED BY <1>1, <1>2, <1>3, <1>4, <1>5, <1>6, <1>7, <1>8, <1>9, <1>10, <1>11, <1>12, <1>13, <1>14, <1>15, <1>16
        DEF Next, Upload, Manage, Starting, Dispatch, Return

-----------------------------------------------------------------------------

LEMMA RuntimeInvariant == Spec => []IInv
<1>1. IInv /\ [Next]_vars => IInv'
  BY TypeKept, StoppedByTheLimit, SlotsKept, RequestKept, UnstartedKept,
     EarlyKept, OutlivedKept, CountsKept DEF IInv
<1> QED BY <1>1, InitIInv, PTL DEF Spec

(* Every variable keeps its type for any number of slots and uploads.      *)
THEOREM TypeCorrect == Spec => []TypeOK
BY RuntimeInvariant, PTL DEF IInv

(* For every limit a module that overruns that often in a row is stopped.  *)
THEOREM OverrunsStopAModule == Spec => []RunawayStops
BY RuntimeInvariant, PTL DEF IInv

(* For every limit a module with that many failed frames is stopped.       *)
THEOREM FailuresStopAModule == Spec => []FailingStops
BY RuntimeInvariant, PTL DEF IInv

(* Each dispatcher calls a module at most once before its on_init returned,*)
(* for any number of slots and however uploads and deletions come between. *)
THEOREM OneEarlyCallAtMost == Spec => []OneEarlyCall
<1>1. IInv => OneEarlyCall
  BY DEF IInv, EarlyInv, OneEarlyCall
<1> QED BY <1>1, RuntimeInvariant, PTL

LEMMA EventsKept ==
  ASSUME TypeOK, EventsAreOfThisCall, [Next]_vars
  PROVE  EventsAreOfThisCall'
<1> USE SlotsAssumption
       DEF slots, loops, counts, history, TypeOK, EventsAreOfThisCall, Cleared, Tasks, Dispatchers, NoSlot, Put
<1>1. ASSUME NEW s \in Slot, Load(s) PROVE EventsAreOfThisCall'
  BY <1>1 DEF Load
<1>2. ASSUME NEW s \in Slot, LoadWithoutRuntime(s) \/ LoadBadModule(s)
      PROVE  EventsAreOfThisCall'
  <2>1. CASE LoadWithoutRuntime(s)
    BY <2>1 DEF LoadWithoutRuntime
  <2>2. CASE LoadBadModule(s)
    BY <2>2 DEF LoadBadModule
  <2> QED BY <1>2, <2>1, <2>2
<1>3. ASSUME NEW s \in Slot, RequestStart(s) \/ Stop(s) \/ Unload(s)
      PROVE  EventsAreOfThisCall'
  BY <1>3 DEF RequestStart, Stop, Unload
<1>4. CASE Starting
  BY <1>4 DEF Starting, BeginInit, StartRefused, InitSucceeds, InitFails
<1>5. ASSUME NEW t \in Dispatchers, Skip(t) \/ Choose(t) \/ Select(t)
      PROVE  EventsAreOfThisCall'
  BY <1>5
     DEF Skip, Choose, Select, GoOn, Callable, slots
<1>12. ASSUME NEW t \in Dispatchers, ClearEvents(t) \/ CallModule(t)
      PROVE  EventsAreOfThisCall'
  <2>1. CASE ClearEvents(t)
    BY <2>1 DEF ClearEvents, GoOn, slots
  <2>2. CASE CallModule(t)
    BY <2>2 DEF CallModule, GoOn, slots
  <2> QED BY <1>12, <2>1, <2>2
<1>13. ASSUME NEW t \in Dispatchers, CallNull(t)
      PROVE  EventsAreOfThisCall'
  BY <1>13, FirstSlot DEF CallNull, All, Both
<1>6. ASSUME NEW t \in Tasks, Emit(t) PROVE EventsAreOfThisCall'
  BY <1>6 DEF Emit
<1>7. CASE FrameFails
  BY <1>7 DEF FrameFails, Leave, GoOn
<1>8. CASE FrameOverruns
  BY <1>8 DEF FrameOverruns, Leave, GoOn, Send
<1>9. CASE FrameInTime
  BY <1>9 DEF FrameInTime, Leave, GoOn, Send
<1>10. CASE TimerReturns
  BY <1>10 DEF TimerReturns, Leave, GoOn, Send
<1>11. CASE UNCHANGED vars
  BY <1>11 DEF vars
<1> QED BY <1>1, <1>2, <1>3, <1>4, <1>5, <1>6, <1>7, <1>8, <1>9, <1>10, <1>11, <1>12, <1>13
        DEF Next, Upload, Manage, Dispatch, Return

(* A packet carries only what was emitted since its dispatcher cleared the *)
(* slot.                                                                   *)
THEOREM NoStaleEvents == Spec => []EventsAreOfThisCall
<1>1. Init => EventsAreOfThisCall
  BY DEF Init, All, Both, Cleared, EventsAreOfThisCall, Tasks, Dispatchers
<1>2. TypeOK /\ EventsAreOfThisCall /\ [Next]_vars => EventsAreOfThisCall'
  BY EventsKept
<1> QED BY <1>1, <1>2, TypeCorrect, PTL DEF Spec
=============================================================================

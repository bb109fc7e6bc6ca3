----------------------------- MODULE TimeSync154 -----------------------------
(***************************************************************************)
(* The 802.15.4 time sync of main/c6_timesync.c on a set of ESP32-C6       *)
(* boards in radio range of each other.                                    *)
(*                                                                         *)
(* The radio's interrupt (esp_ieee802154_receive_done) preempts both       *)
(* app_main in c6_timesync_init, which arms reception before it writes the *)
(* statics, and beacon_timer_cb between its clock read and its decision.   *)
(* Other than in c6_sync_espnow.c the last leader heard wins, whatever its *)
(* EUI, and a beacon carries the sender's raw clock.                       *)
(*                                                                         *)
(* One Tick is TS_BEACON_MS.  Of s_offset_us only matters whose clock it   *)
(* leads to; s_leader_eui is written but decides nothing, since the epoch  *)
(* of a beacon is never 0; the frame counters only feed a log line.        *)
(***************************************************************************)
EXTENDS Naturals

CONSTANTS
  Boards,
  Window,   \* TS_VALID_WINDOW_MS over TS_BEACON_MS, 30
  MaxBoots  \* bound: how often each board may boot

ASSUME WindowAssumption == Window \in Nat \ {0}
ASSUME BootsAssumption == MaxBoots \in Nat

VARIABLES
  phase,    \* where c6_timesync_init is
  leads,    \* s_is_leader
  clock,    \* the board whose clock local time plus s_offset_us shows
  age,      \* ticks since s_last_seen_us, up to Window + 2
  decision, \* what beacon_timer_cb has to go by between its two reads
  due,      \* the boards whose timer has not fired in this tick
  air,      \* <<sender, receiver>> of the beacons in flight
  boots,    \* how often each board has booted
  silence   \* history: ticks since each board's last beacon, up to Window + 2

statics == <<leads, clock, age>>
vars == <<phase, statics, decision, due, air, boots, silence>>

(* "armed": reception is on, the statics are not written.  "mute": the     *)
(* beacon timer could not be created.  "failed": the radio was not enabled *)
Phases == {"off", "armed", "running", "mute", "failed"}

Receiving(b) == phase[b] \in {"armed", "running", "mute"}
Operational(b) == phase[b] \in {"running", "mute"}

Older(n) == IF n <= Window + 1 THEN n + 1 ELSE n

Init ==
  /\ phase = [b \in Boards |-> "off"]
  /\ leads = [b \in Boards |-> FALSE]
  /\ clock = [b \in Boards |-> b]
  /\ age = [b \in Boards |-> 0]
  /\ decision = [b \in Boards |-> "none"]
  /\ due = {} /\ air = {}
  /\ boots = [b \in Boards |-> 0]
  /\ silence = [b \in Boards |-> Window + 2]

-----------------------------------------------------------------------------
(* c6_timesync_init.                                                       *)

Enable(b) ==
  /\ phase[b] = "off" /\ boots[b] < MaxBoots
  /\ \E p \in {"armed", "failed"} : phase' = [phase EXCEPT ![b] = p]
  /\ boots' = [boots EXCEPT ![b] = @ + 1]
  /\ UNCHANGED <<statics, decision, due, air, silence>>

(* Mutant: the board starts as a follower of whoever was last heard.       *)
StartAsFollower(b) ==
  /\ phase[b] = "armed"
  /\ \E p \in {"running", "mute"} : phase' = [phase EXCEPT ![b] = p]
  /\ age' = [age EXCEPT ![b] = 0]
  /\ UNCHANGED <<leads, clock, decision, due, air, boots, silence>>

(* The statics and the timer.  An offset measured in between stays.        *)
StartAsCandidate(b) ==
  /\ phase[b] = "armed"
  /\ \E p \in {"running", "mute"} : phase' = [phase EXCEPT ![b] = p]
  /\ leads' = [leads EXCEPT ![b] = TRUE]
  /\ age' = [age EXCEPT ![b] = 0]
  /\ UNCHANGED <<clock, decision, due, air, boots, silence>>

-----------------------------------------------------------------------------
(* esp_ieee802154_receive_done with a leader's beacon.                     *)

(* Mutant: a leader that hears another keeps leading.                      *)
AdoptOnly(s, b) ==
  /\ Receiving(b)
  /\ air' = air \ {<<s, b>>}
  /\ IF leads[b] THEN UNCHANGED <<clock, age, decision>>
     ELSE /\ clock' = [clock EXCEPT ![b] = s]
          /\ age' = [age EXCEPT ![b] = 0]
          /\ decision' = [decision EXCEPT ![b] = IF @ = "none" THEN @ ELSE "promote"]
  /\ UNCHANGED <<leads, phase, due, boots, silence>>

(* The offset leads to the sender's clock and the receiver steps down.  A  *)
(* timer callback that has read its clock now finds s_last_seen_us ahead   *)
(* of it; the unsigned difference passes for a lost leader.                *)
Adopt(s, b) ==
  /\ Receiving(b)
  /\ air' = air \ {<<s, b>>}
  /\ clock' = [clock EXCEPT ![b] = s]
  /\ age' = [age EXCEPT ![b] = 0]
  /\ leads' = [leads EXCEPT ![b] = FALSE]
  /\ decision' = [decision EXCEPT ![b] = IF @ = "none" THEN @ ELSE "promote"]
  /\ UNCHANGED <<phase, due, boots, silence>>

Receive(s, b) == <<s, b>> \in air /\ Adopt(s, b)

-----------------------------------------------------------------------------
(* beacon_timer_cb.                                                        *)

(* Mutant: the window is a period too long.                                *)
TimerReadsClockLater(b) ==
  /\ phase[b] = "running" /\ b \in due /\ decision[b] = "none"
  /\ decision' = [decision EXCEPT ![b] = IF age[b] > Window + 1 THEN "promote" ELSE "keep"]
  /\ UNCHANGED <<phase, statics, due, air, boots, silence>>

TimerReadsClock(b) ==
  /\ phase[b] = "running" /\ b \in due /\ decision[b] = "none"
  /\ decision' = [decision EXCEPT ![b] = IF age[b] > Window THEN "promote" ELSE "keep"]
  /\ UNCHANGED <<phase, statics, due, air, boots, silence>>

Done(b) ==
  /\ decision' = [decision EXCEPT ![b] = "none"]
  /\ due' = due \ {b}

(* send_beacon; a transmission that fails reaches nobody.                  *)
SendBeacon(b) ==
  /\ decision[b] # "none" /\ leads[b]
  /\ Done(b)
  /\ air' = air \cup ({b} \X {r \in Boards \ {b} : Receiving(r)})
  /\ silence' = [silence EXCEPT ![b] = 0]
  /\ UNCHANGED <<phase, statics, boots>>

(* The offset is left as it was, so the new leader keeps the old clock.    *)
Promote(b) ==
  /\ decision[b] = "promote" /\ ~leads[b]
  /\ Done(b)
  /\ leads' = [leads EXCEPT ![b] = TRUE]
  /\ UNCHANGED <<phase, clock, age, air, boots, silence>>

KeepFollowing(b) ==
  /\ decision[b] = "keep" /\ ~leads[b]
  /\ Done(b)
  /\ UNCHANGED <<phase, statics, air, boots, silence>>

Timer(b) == TimerReadsClock(b) \/ SendBeacon(b) \/ Promote(b) \/ KeepFollowing(b)

-----------------------------------------------------------------------------
(* The world: time, losses, resets.                                        *)

(* A period passes.  Every timer has fired in it, and no beacon is in      *)
(* flight for a whole period.                                              *)
Tick ==
  /\ due = {} /\ air = {}
  /\ age' = [b \in Boards |-> Older(age[b])]
  /\ silence' = [b \in Boards |-> Older(silence[b])]
  /\ due' = {b \in Boards : phase[b] = "running"}
  /\ UNCHANGED <<phase, leads, clock, decision, air, boots>>

Lose(s, b) ==
  /\ <<s, b>> \in air
  /\ air' = air \ {<<s, b>>}
  /\ UNCHANGED <<phase, statics, decision, due, boots, silence>>

Reset(b) ==
  /\ phase[b] # "off" /\ boots[b] < MaxBoots
  /\ phase' = [phase EXCEPT ![b] = "off"]
  /\ leads' = [leads EXCEPT ![b] = FALSE]
  /\ clock' = [clock EXCEPT ![b] = b]
  /\ age' = [age EXCEPT ![b] = 0]
  /\ decision' = [decision EXCEPT ![b] = "none"]
  /\ due' = due \ {b}
  /\ air' = {m \in air : m[2] # b}
  /\ UNCHANGED <<boots, silence>>

Next ==
  \/ \E b \in Boards :
       Enable(b) \/ StartAsCandidate(b) \/ Timer(b) \/ Reset(b)
  \/ \E s, b \in Boards : Receive(s, b) \/ Lose(s, b)
  \/ Tick

Spec == Init /\ [][Next]_vars

(* Time passes, timers fire and beacons do not stay in the air.  Nothing   *)
(* makes a beacon arrive: on the boards at hand receive_done fires once    *)
(* and never again (the KNOWN ISSUE above it).                             *)
FairSpec ==
  /\ Spec
  /\ WF_vars(Tick)
  /\ \A b \in Boards : WF_vars(Timer(b))
  /\ \A s, b \in Boards : WF_vars(Lose(s, b))

-----------------------------------------------------------------------------

TypeOK ==
  /\ phase \in [Boards -> Phases]
  /\ leads \in [Boards -> BOOLEAN]
  /\ clock \in [Boards -> Boards]
  /\ age \in [Boards -> 0..(Window + 2)]
  /\ decision \in [Boards -> {"none", "keep", "promote"}]
  /\ due \subseteq Boards
  /\ air \subseteq Boards \X Boards
  /\ boots \in [Boards -> 0..MaxBoots]
  /\ silence \in [Boards -> 0..(Window + 2)]

(* c6_timesync_is_valid.                                                   *)
IsValid(b) == leads[b] \/ age[b] < Window

(* A board that follows and calls its clock valid shows the clock of       *)
(* another board, one that was on the air within the window: neither the   *)
(* race with init nor a promotion in error leaves it valid on its own.     *)
ValidFollowerWasLed ==
  \A b \in Boards :
    Operational(b) /\ ~leads[b] /\ IsValid(b) =>
      clock[b] # b /\ silence[clock[b]] < Window

(* A board whose timer runs is never without a leader for longer than the  *)
(* window and one period: then it leads itself.                            *)
SilenceIsShort ==
  \A b \in Boards : phase[b] = "running" /\ ~leads[b] => age[b] <= Window + 1

(* Promotions beside a live leader happen (a beacon between the two reads  *)
(* of the timer callback suffices), but wherever one board's radio takes   *)
(* some of the beacons that the other sends again and again, two leaders   *)
(* do not last.  Where it takes none, the KNOWN ISSUE, they do.            *)
RivalsSettle ==
  \A a, b \in Boards :
    a # b /\ SF_vars(Receive(a, b)) =>
      ((phase[a] = "running" /\ phase[b] = "running" /\ leads[a] /\ leads[b])
         ~> ~(leads[a] /\ leads[b]))
=============================================================================

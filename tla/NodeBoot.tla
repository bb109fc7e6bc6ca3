------------------------------ MODULE NodeBoot ------------------------------
(***************************************************************************)
(* The start of a node and its WiFi station, main/main.c.                  *)
(*                                                                         *)
(* app_main runs the inits one after the other and waits for the station   *)
(* in wifi_init_sta; event_handler runs in the event loop task.  The       *)
(* driver posts an event when something has happened, and the handler sees *)
(* it later: by then the link may have changed again.                      *)
(*                                                                         *)
(* The driver, DHCP and the access point are external: a connection        *)
(* attempt may fail, an association may break before or after it got an    *)
(* address.  After an esp_wifi_connect that is all the driver does; it     *)
(* never reconnects by itself.                                             *)
(***************************************************************************)
EXTENDS Naturals, Sequences

CONSTANT MaxRetry  \* MAX_RETRY, 10

ASSUME RetryAssumption == MaxRetry \in Nat

VARIABLES
  stage,     \* what app_main does next
  wifi,      \* the driver: "off", "idle", "joining", "joined", "up"
  events,    \* posted to the event loop and not yet handled
  retry,     \* s_retry_num
  bits,      \* s_wifi_event_group
  config,    \* where the values in g_nvs_config come from
  identity,  \* where s_node_id and s_filter_mac of csi_collector.c come from
  started,   \* what the other components depend on: the CSI callback
             \* and the HTTP server
  drops      \* history: disconnects handled since the last address

bootVars == <<stage, wifi, events, retry, bits, config, identity, started, drops>>

wifiVars == <<wifi, events, retry, bits, drops>>

Stages == {"load", "wifi", "wait", "sender", "collect", "server", "rest", "running", "stopped"}

BootInit ==
  /\ stage = "load" /\ wifi = "off" /\ events = <<>>
  /\ retry = 0 /\ bits = {}
  /\ config = "default" /\ identity = "default"
  /\ started = {} /\ drops = 0

-----------------------------------------------------------------------------
(* app_main.                                                               *)

Goto(from, to) == stage = from /\ stage' = to

(* nvs_config_load, then at once csi_collector_set_node_id, which copies   *)
(* the identity before the WiFi driver starts.                             *)
Load ==
  /\ Goto("load", "wifi")
  /\ config' = "flash" /\ identity' = "flash"
  /\ UNCHANGED <<wifi, events, retry, bits, started, drops>>

(* Mutant: main connects too, next to the handler of the start event.      *)
StartWifiAndConnect ==
  /\ Goto("wifi", "wait")
  /\ wifi' = "joining" /\ events' = Append(events, "start")
  /\ config' \in {config, "clobbered"}
  /\ UNCHANGED <<retry, bits, identity, started, drops>>

(* wifi_init_sta up to esp_wifi_start.  On some boards the driver's start  *)
(* overwrites g_nvs_config (the comments at csi_collector.c:35 and :454).  *)
StartWifi ==
  /\ Goto("wifi", "wait")
  /\ wifi' = "idle" /\ events' = Append(events, "start")
  /\ config' \in {config, "clobbered"}
  /\ UNCHANGED <<retry, bits, identity, started, drops>>

(* xEventGroupWaitBits; the bits are not cleared and either one goes on.   *)
EndWait ==
  /\ bits # {}
  /\ Goto("wait", "sender")
  /\ UNCHANGED <<wifiVars, config, identity, started>>

(* stream_sender_init_with: without a socket app_main returns.             *)
StartSender ==
  /\ Goto("sender", "collect") \/ Goto("sender", "stopped")
  /\ UNCHANGED <<wifiVars, config, identity, started>>

(* Mutant: the identity is taken from g_nvs_config, as it once was.        *)
LateCapture == config

(* csi_collector_init: an identity captured early is kept.                 *)
CapturedIdentity == identity

(* csi_collector_init and csi_collector_set_hop_table; then the ESP-NOW    *)
(* sync and the edge processing, which may fail without ending the boot.   *)
StartCollector ==
  /\ Goto("collect", "server")
  /\ identity' = CapturedIdentity
  /\ started' = started \cup {"csi"}
  /\ UNCHANGED <<wifiVars, config>>

(* ota_update_init_ex; without a server the node can not be updated.       *)
StartServer ==
  /\ Goto("server", "rest")
  /\ started' \in {started, started \cup {"http"}}
  /\ UNCHANGED <<wifiVars, config, identity>>

(* The WASM runtime, sensor, swarm, controller, power and display: a       *)
(* failure is logged and the boot goes on.  Last, the capture filter.      *)
StartRest ==
  /\ Goto("rest", "running")
  /\ UNCHANGED <<wifiVars, config, identity, started>>

AppMain ==
  \/ Load \/ StartWifi \/ EndWait \/ StartSender \/ StartCollector
  \/ StartServer \/ StartRest

-----------------------------------------------------------------------------
(* event_handler, one event at a time.                                     *)

Take(event) == events # <<>> /\ Head(events) = event /\ events' = Tail(events)

(* esp_wifi_connect fails unless the driver is idle.                       *)
Connect == wifi' = IF wifi = "idle" THEN "joining" ELSE wifi

OnStart ==
  /\ Take("start")
  /\ Connect
  /\ UNCHANGED <<stage, retry, bits, config, identity, started, drops>>

OnLost ==
  /\ Take("lost")
  /\ retry < MaxRetry
  /\ Connect
  /\ retry' = retry + 1 /\ drops' = drops + 1
  /\ UNCHANGED <<stage, bits, config, identity, started>>

(* Mutant: another connect although the retries are used up.               *)
GiveUpButConnect ==
  /\ Take("lost")
  /\ retry >= MaxRetry
  /\ Connect
  /\ bits' = bits \cup {"failed"} /\ drops' = drops + 1
  /\ UNCHANGED <<stage, retry, config, identity, started>>

(* Mutant: nobody is told.                                                 *)
GiveUpSilently ==
  /\ Take("lost")
  /\ retry >= MaxRetry
  /\ drops' = drops + 1
  /\ UNCHANGED <<stage, wifi, retry, bits, config, identity, started>>

GiveUp ==
  /\ Take("lost")
  /\ retry >= MaxRetry
  /\ bits' = bits \cup {"failed"} /\ drops' = drops + 1
  /\ UNCHANGED <<stage, wifi, retry, config, identity, started>>

OnAddress ==
  /\ Take("address")
  /\ retry' = 0 /\ drops' = 0
  /\ bits' = bits \cup {"connected"}
  /\ UNCHANGED <<stage, wifi, config, identity, started>>

Handler == OnStart \/ OnLost \/ GiveUp \/ OnAddress

-----------------------------------------------------------------------------
(* The driver and the network.                                             *)

Link(from, to) ==
  /\ wifi \in from /\ wifi' = to
  /\ UNCHANGED <<stage, retry, bits, config, identity, started, drops>>

Post(event) == events' = Append(events, event)

Associate == Link({"joining"}, "joined") /\ UNCHANGED events
GetAddress == Link({"joined"}, "up") /\ Post("address")
Disconnect == Link({"joining", "joined", "up"}, "idle") /\ Post("lost")

Driver == Associate \/ GetAddress \/ Disconnect

(* A power failure, a panic or esp_restart.                                *)
Reboot ==
  /\ stage' = "load" /\ wifi' = "off" /\ events' = <<>>
  /\ retry' = 0 /\ bits' = {}
  /\ config' = "default" /\ identity' = "default"
  /\ started' = {} /\ drops' = 0

BootNext == AppMain \/ Handler \/ Driver \/ Reboot

BootSpec == BootInit /\ [][BootNext]_bootVars

-----------------------------------------------------------------------------

BootTypeOK ==
  /\ stage \in Stages
  /\ wifi \in {"off", "idle", "joining", "joined", "up"}
  /\ events \in Seq({"start", "lost", "address"})
  /\ retry \in 0..MaxRetry
  /\ bits \subseteq {"connected", "failed"}
  /\ config \in {"default", "flash", "clobbered"}
  /\ identity \in {"default", "flash", "clobbered"}
  /\ started \subseteq {"csi", "http"}
  /\ drops \in 0..(MaxRetry + 1)

(* However late the handler sees the events, it never asks the driver to   *)
(* connect during an attempt or on a live link.                            *)
OneAttempt ==
  events # <<>> /\ Head(events) \in {"start", "lost"} => wifi = "idle"

(* The station is given up only after MAX_RETRY retries in a row brought   *)
(* no address, and then for good: nothing is left that would try again.    *)
GivingUpIsFinal ==
  "failed" \in bits => drops = MaxRetry + 1 /\ wifi = "idle" /\ events = <<>>

(* A frame carries the node id and obeys the MAC filter that were in NVS,  *)
(* even on a board whose driver overwrites the configuration.              *)
IdentityFromFlash == "csi" \in started => identity = "flash"
=============================================================================

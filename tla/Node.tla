-------------------------------- MODULE Node --------------------------------
(***************************************************************************)
(* A node through its resets: the boot and WiFi station of NodeBoot and    *)
(* the firmware update of OtaUpdate, whose server the boot starts, whose   *)
(* requests need the station, and whose restart and power failures end the *)
(* one and the other.                                                      *)
(***************************************************************************)
EXTENDS NodeBoot, OtaUpdate

CONSTANTS MaxUploads, MaxResets  \* bounds: accepted uploads, power failures

VARIABLES uploads, resets        \* counters for the bounds

vars == <<bootVars, otaVars, uploads, resets>>

Init == BootInit /\ OtaInit /\ uploads = 0 /\ resets = 0

(* app_main; ota_update_init_ex caches the key before it starts the server *)
Boot ==
  /\ \/ (Load \/ StartWifi \/ EndWait \/ StartSender \/ StartCollector \/ StartRest)
        /\ UNCHANGED otaVars
     \/ StartServer /\ LoadKey
  /\ UNCHANGED <<uploads, resets>>

Station == (Handler \/ Driver) /\ UNCHANGED <<otaVars, uploads, resets>>

BeginUpload ==
  /\ "http" \in started /\ wifi = "up"
  /\ uploads < MaxUploads /\ uploads' = uploads + 1
  /\ \E b \in Bodies, token \in BOOLEAN : Request(b, token)
  /\ UNCHANGED <<bootVars, resets>>

ContinueUpload == Upload /\ UNCHANGED <<bootVars, uploads, resets>>

Restart ==
  /\ upload = "restart"
  /\ Reset /\ Reboot
  /\ UNCHANGED <<uploads, resets>>

(* The power fails, or somebody flashes the NVS partition.                 *)
PowerFails ==
  /\ resets < MaxResets /\ resets' = resets + 1
  /\ Reset \/ Provision \/ WriteKey
  /\ Reboot
  /\ UNCHANGED uploads

Next == Boot \/ Station \/ BeginUpload \/ ContinueUpload \/ Restart \/ PowerFails

Spec == Init /\ [][Next]_vars

(* The boot and the event loop are scheduled, and the driver ends each     *)
(* attempt to associate.  Nothing makes DHCP answer, or a link break.      *)
FairSpec ==
  /\ Spec
  /\ WF_vars(Boot)
  /\ WF_vars(Handler /\ UNCHANGED <<otaVars, uploads, resets>>)
  /\ WF_vars(Driver /\ wifi = "joining" /\ UNCHANGED <<otaVars, uploads, resets>>)

-----------------------------------------------------------------------------

TypeOK == BootTypeOK /\ OtaTypeOK

(* An access point that is absent, refuses the station or drops it does    *)
(* not hold the boot in wifi_init_sta: every boot comes to its end.  The   *)
(* one thing that can hold it for ever is an association without an        *)
(* address, since neither a timeout nor an event ends that wait.           *)
EveryBootEnds ==
  \/ stage = "load" ~> stage \in {"running", "stopped"}
  \/ <>[](stage = "wait" /\ wifi = "joined" /\ bits = {})
=============================================================================

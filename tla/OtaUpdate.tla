------------------------------ MODULE OtaUpdate ------------------------------
(***************************************************************************)
(* The firmware update of main/ota_update.c: POST /ota writes the request  *)
(* body to the partition that is not running, has it verified, selects it  *)
(* and restarts.  Power may fail between any two of these.                 *)
(*                                                                         *)
(* A partition is a sequence of blocks, each holding its part of a build,  *)
(* or Junk when it is erased, half written or was never a build.  The body *)
(* of a request is the build it claims to be (or Junk) and its length in   *)
(* blocks, content_len.  A receive that times out is retried without a     *)
(* limit (HTTPD_SOCK_ERR_TIMEOUT), hence is no step here.  One HTTP task   *)
(* serves one request at a time.                                           *)
(***************************************************************************)
EXTENDS Naturals

CONSTANTS
  Builds,     \* complete firmware images
  Junk,       \* what is no build
  Size,       \* blocks of an image
  MaxLength   \* OTA_MAX_SIZE in blocks

ASSUME BuildsAssumption == Junk \notin Builds
ASSUME SizesAssumption == Size \in Nat \ {0} /\ MaxLength \in Nat

VARIABLES
  flash,       \* the two application partitions, ota_0 and ota_1
  selected,    \* the partition otadata selects
  running,     \* the partition this boot runs from
  provisioned, \* a pre-shared key is in NVS
  psk,         \* it is cached in s_ota_psk: read once, at server start
  upload,      \* where ota_upload_handler is
  body, total, \* the request body, the blocks written of it
  vouched      \* history: builds sent with the right key

otaVars == <<flash, selected, running, provisioned, psk, upload, body, total, vouched>>

Slots == {0, 1}
Blocks == 1..Size
Bodies == [build : Builds \cup {Junk}, length : 0..(MaxLength + 1)]
NoBody == [build |-> Junk, length |-> 0]

Holds(slot, b) == b \in Builds /\ \A k \in Blocks : flash[slot][k] = b
Complete(slot) == \E b \in Builds : Holds(slot, b)
ImageOf(slot) == CHOOSE b \in Builds : Holds(slot, b)

(* Mutant: the update partition is the one that runs.                      *)
RunningPartition(slot) == slot

(* esp_ota_get_next_update_partition(NULL): the one after the running one. *)
NextPartition(slot) == 1 - slot

Target == NextPartition(running)

(* A node leaves the factory with a build in ota_0; the other partition    *)
(* holds nothing or an earlier build.                                      *)
OtaInit ==
  /\ \E b \in Builds, old \in Builds \cup {Junk} :
       flash = [s \in Slots |-> [k \in Blocks |-> IF s = 0 THEN b ELSE old]]
  /\ selected = 0 /\ running = 0
  /\ provisioned \in BOOLEAN /\ psk = FALSE
  /\ upload = "idle" /\ body = NoBody /\ total = 0
  /\ vouched = {}

Idle == upload' = "idle" /\ body' = NoBody /\ total' = 0

-----------------------------------------------------------------------------

(* ota_update_init_ex: the key is read once, when the server starts.       *)
LoadKey ==
  /\ psk' = provisioned
  /\ UNCHANGED <<flash, selected, running, provisioned, upload, body, total, vouched>>

(* Mutant: an unprovisioned node is permissive, as it once was.            *)
PermissiveAuth(token) == ~psk \/ token

(* ota_check_auth: a key is provisioned and the request carries it.        *)
CheckAuth(token) == psk /\ token

(* The checks of ota_upload_handler and esp_ota_begin.  With sequential    *)
(* writes nothing is erased yet.  A refused request changes nothing.       *)
Request(b, token) ==
  /\ upload = "idle"
  /\ CheckAuth(token)
  /\ b.length \in 1..MaxLength
  /\ upload' = "receive" /\ body' = b /\ total' = 0
  /\ vouched' = IF token /\ provisioned THEN vouched \cup ({b.build} \cap Builds) ELSE vouched
  /\ UNCHANGED <<flash, selected, running, provisioned, psk>>

(* httpd_req_recv returned data and esp_ota_write erases the block first.  *)
(* A body longer than the partition makes esp_ota_write fail instead.      *)
Receive ==
  /\ upload = "receive" /\ total < body.length /\ total < Size
  /\ flash' = [flash EXCEPT ![Target][total + 1] = Junk]
  /\ upload' = "write"
  /\ UNCHANGED <<selected, running, provisioned, psk, body, total, vouched>>

Write ==
  /\ upload = "write"
  /\ flash' = [flash EXCEPT ![Target][total + 1] = body.build]
  /\ upload' = "receive" /\ total' = total + 1
  /\ UNCHANGED <<selected, running, provisioned, psk, body, vouched>>

(* The connection broke, or esp_ota_write failed: esp_ota_abort.           *)
Abort ==
  /\ upload = "write" \/ (upload = "receive" /\ total < body.length)
  /\ Idle
  /\ UNCHANGED <<flash, selected, running, provisioned, psk, vouched>>

(* esp_ota_end verifies the written image.                                 *)
Finish ==
  /\ upload = "receive" /\ total = body.length
  /\ Complete(Target)
  /\ upload' = "select"
  /\ UNCHANGED <<flash, selected, running, provisioned, psk, body, total, vouched>>

Reject ==
  /\ upload = "receive" /\ total = body.length
  /\ ~Complete(Target)
  /\ Idle
  /\ UNCHANGED <<flash, selected, running, provisioned, psk, vouched>>

(* esp_ota_set_boot_partition writes otadata, which it keeps twice: power  *)
(* failure leaves the old selection or the new one.                        *)
Select ==
  /\ upload = "select"
  /\ selected' = Target /\ upload' = "restart"
  /\ UNCHANGED <<flash, running, provisioned, psk, body, total, vouched>>

SelectFails ==
  /\ upload = "select"
  /\ Idle
  /\ UNCHANGED <<flash, selected, running, provisioned, psk, vouched>>

(* The bootloader starts the selected partition, or the other one when     *)
(* that holds no image.                                                    *)
Restarted ==
  /\ running' = IF Complete(selected) THEN selected ELSE 1 - selected
  /\ psk' = FALSE
  /\ Idle
  /\ UNCHANGED <<flash, selected, vouched>>

(* A reset, by esp_restart or by power.                                    *)
Reset == Restarted /\ UNCHANGED provisioned

(* provision.py flashes the NVS partition with the csi_cfg namespace alone *)
(* and resets the board: a key that was there is gone.                     *)
Provision == Restarted /\ provisioned' = FALSE

(* The key is put into NVS over USB, by other means than provision.py,     *)
(* which has no option for it.                                             *)
WriteKey == Restarted /\ provisioned' = TRUE

Upload == Receive \/ Write \/ Abort \/ Finish \/ Reject \/ Select \/ SelectFails

OtaNext ==
  \/ LoadKey
  \/ \E b \in Bodies, token \in BOOLEAN : Request(b, token)
  \/ Upload
  \/ Reset \/ Provision \/ WriteKey

OtaSpec == OtaInit /\ [][OtaNext]_otaVars

-----------------------------------------------------------------------------

OtaTypeOK ==
  /\ flash \in [Slots -> [Blocks -> Builds \cup {Junk}]]
  /\ selected \in Slots /\ running \in Slots
  /\ provisioned \in BOOLEAN /\ psk \in BOOLEAN
  /\ upload \in {"idle", "receive", "write", "select", "restart"}
  /\ body.build \in Builds \cup {Junk} /\ body.length \in 0..MaxLength
  /\ total \in 0..Size
  /\ vouched \subseteq Builds

(* The program in execution is never erased or overwritten under the tasks *)
(* that run it, and it stays a fallback until the restart.                 *)
RunningImageIntact == Complete(running)

Update == INSTANCE AtomicUpdate WITH boots <- ImageOf(selected)

(* The update is atomic: what the next reset would start is a complete     *)
(* build at every moment, and it changes only to a build that a client     *)
(* with the provisioned key has sent.                                      *)
ImplementsAtomicUpdate == Update!Spec
=============================================================================

---------------------------- MODULE Provisioning ----------------------------
(***************************************************************************)
(* How a node gets its configuration: provision.py on the host merges the  *)
(* flags of a call with its state file for the port, writes the NVS        *)
(* namespace csi_cfg from the result and then the state file; at boot      *)
(* nvs_config_load reads the namespace over the compiled defaults, and     *)
(* app_main hands the hop table to the collector.                          *)
(*                                                                         *)
(* A call can stop between any two of its effects.  Settings are partial   *)
(* functions from names to values, and the keys keep the settings' names.  *)
(* "wifi" stands for the three credentials, "node_id" for every setting    *)
(* that nobody checks.  Left out are the settings the node limits and the  *)
(* host does not (vital_win, vital_int, subk_count: out of range, they are *)
(* ignored), and numbers the NVS generator cannot encode, which end the    *)
(* call before it writes.                                                  *)
(***************************************************************************)
EXTENDS Integers, Sequences, FiniteSetsExt

CONSTANTS
  Offered,   \* the values a user may give to each setting
  ApChannel, \* the channel of the access point
  MaxFlags,  \* bound: settings in one call
  MaxCalls   \* bound: calls

ASSUME BoundAssumption == MaxCalls \in Nat

(* What the NVS generator can encode: it fails on any other value of these *)
(* three, before esptool runs.  The hop settings are stored under three    *)
(* keys that are no setting's name.                                        *)
ASSUME OfferedAssumption ==
  /\ "hop_dwell" \in DOMAIN Offered
  /\ \A name \in DOMAIN Offered \cap {"tdm_slot", "tdm_total"} : Offered[name] \subseteq Nat
  /\ "hop_channels" \in DOMAIN Offered => Offered["hop_channels"] \subseteq Seq(Nat)
  /\ DOMAIN Offered \cap {"hop_count", "chan_list", "dwell_ms"} = {}

VARIABLES
  file,     \* the state file of the port
  nvs,      \* the namespace csi_cfg on the node
  call,     \* the call under way: its step, flags and merged settings
  asked,    \* history: every setting flashed or staged since the last --reset
  unsaved,  \* history: the names among them that the state file may not hold
  settled,  \* history: the last call ran to its end and was no dry run
  torn,     \* history: the last write to the node was cut
  calls     \* history: calls so far

provisionVars == <<file, nvs, call, asked, unsaved, settled, torn, calls>>

Nothing == <<>>

Settings == DOMAIN Offered
Has(s, name) == name \in DOMAIN s
Without(s, names) == [name \in DOMAIN s \ names |-> s[name]]

(* What s says of a setting, else what t says.                             *)
Over(s, t) ==
  [name \in DOMAIN s \cup DOMAIN t |-> IF name \in DOMAIN s THEN s[name] ELSE t[name]]

NoCall == [at |-> "none", flags |-> Nothing, merged |-> Nothing]

ProvisionInit ==
  /\ file = Nothing /\ nvs = Nothing
  /\ call = NoCall
  /\ asked = Nothing /\ unsaved = {}
  /\ settled = FALSE /\ torn = FALSE /\ calls = 0

-----------------------------------------------------------------------------
(* The host: main of provision.py.                                         *)

DefaultDwell == 200

(* The flags of a call.  argparse gives --hop-dwell a value in every call. *)
Options == UNION {{<<name, value>> : value \in Offered[name]} : name \in Settings}
Given(options) ==
  [name \in {o[1] : o \in options} |-> (CHOOSE o \in options : o[1] = name)[2]]
CommandLines == {Given(options) : options \in UNION {kSubset(n, Options) : n \in 0..MaxFlags}}

(* Mutant: the state file is not consulted (as before issue #391).         *)
MergedFresh(flags, prior) == Over(flags, [hop_dwell |-> DefaultDwell])

(* merge_state_into_args: what argparse set wins, its defaults included.   *)
Merged(flags, prior) == Over(flags, Over([hop_dwell |-> DefaultDwell], prior))

ValidChannel(c) == c \in 1..14 \cup 36..177

(* Mutant: a slot equal to the total is let through.                       *)
AcceptedLoosely(s, partial) ==
  /\ DOMAIN s # {"hop_dwell"}
  /\ Has(s, "wifi") \/ partial
  /\ Has(s, "tdm_slot") <=> Has(s, "tdm_total")
  /\ Has(s, "tdm_slot") => s.tdm_slot <= s.tdm_total
  /\ Has(s, "channel") => ValidChannel(s.channel)

(* What main checks, of the merged settings: something to write, the       *)
(* credentials unless --force-partial, both TDM settings and in order, the *)
(* channel.                                                                *)
Accepted(s, partial) ==
  /\ DOMAIN s # {"hop_dwell"}
  /\ Has(s, "wifi") \/ partial
  /\ Has(s, "tdm_slot") <=> Has(s, "tdm_total")
  /\ Has(s, "tdm_slot") => s.tdm_slot < s.tdm_total
  /\ Has(s, "channel") => ValidChannel(s.channel)

(* build_nvs_csv: the hop settings become three keys, or none.             *)
Written(s) ==
  Over(Without(s, {"hop_channels", "hop_dwell"}),
       IF Has(s, "hop_channels")
       THEN [hop_count |-> Len(s.hop_channels), chan_list |-> s.hop_channels,
             dwell_ms |-> s.hop_dwell]
       ELSE Nothing)

(* load_state: a file that cannot be read or parsed counts as none, with a *)
(* warning.                                                                *)
Prior(reset, readable) == IF readable /\ ~reset THEN file ELSE Nothing

(* A call up to the first effect on the node.  With --reset the state file *)
(* is removed first, whatever the checks say later.  The history takes     *)
(* what an unreadable file held for forgotten.                             *)
Begin(flags, reset, readable, partial) ==
  /\ call = NoCall /\ calls < MaxCalls
  /\ file' = IF reset THEN Nothing ELSE file
  /\ asked' = IF reset THEN Nothing ELSE asked
  /\ unsaved' = IF reset THEN {} ELSE IF readable THEN unsaved ELSE DOMAIN asked
  /\ settled' = (settled /\ ~reset)
  /\ LET merged == Merged(flags, Prior(reset, readable))
     IN  call' = IF Accepted(merged, partial)
                 THEN [at |-> "flash", flags |-> flags, merged |-> merged]
                 ELSE NoCall
  /\ calls' = calls + 1
  /\ UNCHANGED <<nvs, torn>>

(* esptool: the whole partition is replaced.                               *)
Flash ==
  /\ call.at = "flash"
  /\ nvs' = Written(call.merged)
  /\ asked' = Over(call.flags, asked)
  /\ unsaved' = unsaved \cup DOMAIN call.flags
  /\ settled' = FALSE /\ torn' = FALSE
  /\ call' = [call EXCEPT !.at = "save"]
  /\ UNCHANGED <<file, calls>>

(* esptool fails before the write, or the write is cut: the node finds     *)
(* some of the keys, perhaps none.  app_main erases the partition on two   *)
(* errors only, and a part of the keys is neither.                         *)
FlashFails ==
  /\ call.at = "flash"
  /\ \/ UNCHANGED <<nvs, torn>>
     \/ /\ \E cut \in SUBSET DOMAIN Written(call.merged) :
             nvs' = Without(Written(call.merged), cut)
        /\ torn' = TRUE
  /\ settled' = FALSE
  /\ call' = NoCall
  /\ UNCHANGED <<file, asked, unsaved, calls>>

(* save_state writes a copy and renames it.                                *)
Save ==
  /\ call.at = "save"
  /\ file' = call.merged
  /\ unsaved' = unsaved \ DOMAIN call.flags
  /\ settled' = TRUE
  /\ call' = NoCall
  /\ UNCHANGED <<nvs, asked, torn, calls>>

(* With --dry-run the state file is written all the same.                  *)
DryRun ==
  /\ call.at = "flash"
  /\ file' = call.merged
  /\ asked' = Over(call.flags, asked)
  /\ unsaved' = unsaved \ DOMAIN call.flags
  /\ settled' = FALSE
  /\ call' = NoCall
  /\ UNCHANGED <<nvs, torn, calls>>

(* The script is interrupted, or the state file cannot be written.         *)
Interrupted ==
  /\ call # NoCall
  /\ call' = NoCall
  /\ settled' = FALSE
  /\ UNCHANGED <<file, nvs, asked, unsaved, torn, calls>>

ProvisionNext ==
  \/ \E flags \in CommandLines, reset, readable, partial \in BOOLEAN :
       Begin(flags, reset, readable, partial)
  \/ Flash \/ FlashFails \/ Save \/ DryRun \/ Interrupted

ProvisionSpec == ProvisionInit /\ [][ProvisionNext]_provisionVars

-----------------------------------------------------------------------------
(* The node: nvs_config_load at the next boot.                             *)

HopMax == 6  \* NVS_CFG_HOP_MAX
CompiledChannel == 6  \* CONFIG_CSI_WIFI_CHANNEL

(* The value of a key if it is there and legal, else the default.          *)
Override(name, legal, default) ==
  IF Has(nvs, name) /\ nvs[name] \in legal THEN nvs[name] ELSE default

TdmNodes == Override("tdm_total", Nat \ {0}, 1)

TdmSlot ==
  LET slot == Override("tdm_slot", Nat, 0)
  IN  IF slot < TdmNodes THEN slot ELSE 0

CsiChannel == Override("channel", 1..14 \cup 36..177, 0)

DwellMs == Override("dwell_ms", Nat \ 0..9, 50)

(* Mutant: a hop count past the limit is cut down to it.                   *)
HopCountCut ==
  LET count == Override("hop_count", Nat \ {0}, 1)
  IN  IF count > HopMax THEN HopMax ELSE count

HopCount == Override("hop_count", 1..HopMax, 1)

(* nvs_get_blob fails when the blob is longer than the buffer.             *)
ChannelList ==
  LET stored == IF Has(nvs, "chan_list") /\ Len(nvs.chan_list) <= HopMax
                THEN nvs.chan_list ELSE <<>>
  IN  [i \in 1..HopMax |->
         IF i <= Len(stored) /\ i <= HopCount THEN stored[i]
         ELSE IF i = 1 THEN CompiledChannel ELSE 0]

(* csi_collector_init: the override, else the access point's channel.      *)
FirstChannel == IF CsiChannel # 0 THEN CsiChannel ELSE ApChannel

(* The channels in use.  app_main sets the table after the collector has   *)
(* put the first channel there, when there is more than one channel.       *)
HopTable == IF HopCount > 1 THEN SubSeq(ChannelList, 1, HopCount) ELSE <<FirstChannel>>

-----------------------------------------------------------------------------

ProvisionTypeOK ==
  /\ DOMAIN file \subseteq Settings /\ DOMAIN asked \subseteq Settings
  /\ unsaved \subseteq DOMAIN asked
  /\ call.at \in {"none", "flash", "save"}
  /\ settled \in BOOLEAN /\ torn \in BOOLEAN /\ calls \in 0..MaxCalls

(* The keys that hold these settings, the dwell time apart.                *)
Keys(names) ==
  (names \ {"hop_channels", "hop_dwell"})
    \cup IF "hop_channels" \in names THEN {"hop_count", "chan_list"} ELSE {}

(* Additive by default: after a call that ran to its end the node holds    *)
(* everything asked for since the last reset, and nothing else.  A call    *)
(* that was cut after it had flashed the node costs only the settings that *)
(* it gave itself, until they are given again; an unreadable state file    *)
(* costs those it held.                                                    *)
NodeHoldsWhatWasAsked ==
  settled =>
    LET but == Keys(unsaved) \cup {"dwell_ms"}
    IN  Without(nvs, but)
          = Without(Written(Over([hop_dwell |-> DefaultDwell], asked)), but)

(* Unless the last write was cut, a node never falls back to slot 0, which *)
(* is another node's, and without a hop table captures on the channel it   *)
(* was told: the checks on the host, made after the merge, cover those of  *)
(* the node.                                                               *)
NodeObeys ==
  ~torn =>
    /\ Has(nvs, "tdm_slot") => TdmSlot = nvs.tdm_slot
    /\ Has(nvs, "channel") /\ HopCount = 1 => HopTable = <<nvs.channel>>

(* The count and the list are two keys that are limited apart: unless the  *)
(* last write was cut, the table holds the channels asked for, or a single *)
(* one, and never the filler 0.                                            *)
HopTableIsWhole ==
  ~torn => HopTable \in {<<FirstChannel>>, Override("chan_list", Seq(Nat), <<>>)}

(* provision.py on its state file: "On the next invocation, missing CLI    *)
(* flags fall back to the stored value."  The dwell time is one of them.   *)
DwellFallsBack ==
  /\ settled /\ "hop_dwell" \notin unsaved
  /\ Has(asked, "hop_dwell") /\ Has(nvs, "dwell_ms")
  => DwellMs = asked.hop_dwell
=============================================================================

----------------------------- MODULE Node_proofs -----------------------------
(***************************************************************************)
(* A node through its resets: its WiFi station, its firmware update, and   *)
(* that the composition is a run of each.  For every number of retries,    *)
(* any set of builds and any sizes.                                        *)
(*                                                                         *)
(* At the end the configuration it boots with, which provision.py writes:  *)
(* for any values a user may give and any number of calls.                 *)
(***************************************************************************)
EXTENDS Node, Provisioning, TLAPS, SequenceTheorems

-----------------------------------------------------------------------------
(* The WiFi station: at most one attempt at a time, and giving up only     *)
(* after the retries and for good; frames carry the identity from NVS.     *)

(* What the event loop may still hold, by the state of the driver.  The    *)
(* driver waits for the handler before it does anything else, so only an   *)
(* address can be overtaken by the loss that follows it.                   *)
EventsFitTheLink ==
  /\ wifi \in {"off", "idle", "joining", "joined", "up"}
  /\ wifi \in {"off", "joining", "joined"} => events = <<>>
  /\ wifi = "up" => events \in {<<>>, <<"address">>}
  /\ wifi = "idle" => events \in {<<>>, <<"start">>, <<"lost">>, <<"address", "lost">>}

(* s_retry_num counts the losses until it is used up; giving up comes with *)
(* the next one.                                                           *)
RetriesCountLosses ==
  /\ retry \in 0..MaxRetry
  /\ bits \subseteq {"connected", "failed"}
  /\ "failed" \notin bits => drops = retry
  /\ "failed" \in bits => drops = MaxRetry + 1 /\ wifi = "idle" /\ events = <<>>

(* The driver is off until app_main has started it, and nothing captures   *)
(* frames before the identity is copied.                                   *)
BootOrder ==
  /\ stage \in Stages
  /\ stage \in {"load", "wifi"} => wifi = "off" /\ bits = {}
  /\ stage # "load" => identity = "flash"
  /\ stage = "load" => started = {}
  /\ started \subseteq {"csi", "http"}
  /\ config \in {"default", "flash", "clobbered"}
  /\ identity \in {"default", "flash", "clobbered"}

BootInv == EventsFitTheLink /\ RetriesCountLosses /\ BootOrder

(* The sequences that occur, taken apart.                                  *)
LEMMA EventSequences ==
  /\ \A e \in {"start", "lost", "address"} :
       <<e>> # <<>> /\ Head(<<e>>) = e /\ Tail(<<e>>) = <<>> /\ Append(<<>>, e) = <<e>>
  /\ <<"address", "lost">> # <<>> /\ Head(<<"address", "lost">>) = "address"
  /\ Tail(<<"address", "lost">>) = <<"lost">>
  /\ Append(<<"address">>, "lost") = <<"address", "lost">>
<1> DEFINE Ev == {"start", "lost", "address"}
<1>1. \A e \in Ev : <<e>> # <<>> /\ Head(<<e>>) = e
  OBVIOUS
<1>2. \A e \in Ev : Tail(<<e>>) = <<>>
  OBVIOUS
<1>3. \A e \in Ev : Append(<<>>, e) = <<e>>
  OBVIOUS
<1>4. <<"address", "lost">> # <<>> /\ Head(<<"address", "lost">>) = "address"
  OBVIOUS
<1>5. Tail(<<"address", "lost">>) = <<"lost">>
  OBVIOUS
<1>6. Append(<<"address">>, "lost") = <<"address", "lost">>
  <2>1. <<"address">> \in Seq(Ev) /\ <<"address", "lost">> \in Seq(Ev) /\ "lost" \in Ev
    OBVIOUS
  <2>2. Len(<<"address">>) = 1 /\ <<"address">>[1] = "address"
    OBVIOUS
  <2>3. Append(<<"address">>, "lost") \in Seq(Ev)
    BY <2>1, AppendProperties
  <2>4. Len(Append(<<"address">>, "lost")) = 2
    BY <2>1, <2>2, AppendProperties
  <2>5. /\ Append(<<"address">>, "lost")[1] = "address"
        /\ Append(<<"address">>, "lost")[2] = "lost"
    BY <2>1, <2>2, AppendProperties
  <2>6. /\ Len(<<"address", "lost">>) = 2
        /\ <<"address", "lost">>[1] = "address" /\ <<"address", "lost">>[2] = "lost"
    OBVIOUS
  <2>7. \A i \in 1..2 : Append(<<"address">>, "lost")[i] = <<"address", "lost">>[i]
    BY <2>5, <2>6
  <2> HIDE DEF Ev
  <2> QED BY <2>1, <2>3, <2>4, <2>6, <2>7, SeqEqual
<1> QED BY <1>1, <1>2, <1>3, <1>4, <1>5, <1>6

LEMMA BootInvariant == BootSpec => []BootInv
<1>1. BootInit => BootInv
  BY RetryAssumption DEF BootInit, BootInv, EventsFitTheLink, RetriesCountLosses, BootOrder, Stages
<1>2. BootInv /\ [BootNext]_bootVars => BootInv'
  <2> SUFFICES ASSUME BootInv, [BootNext]_bootVars PROVE BootInv'
    OBVIOUS
  <2> USE RetryAssumption DEF BootInv, EventsFitTheLink, RetriesCountLosses, BootOrder, Stages
  <2>1. CASE AppMain
    <3>1. CASE StartWifi
      BY <3>1, EventSequences DEF StartWifi, Goto
    <3>2. CASE Load \/ EndWait \/ StartSender \/ StartCollector \/ StartServer \/ StartRest
      BY <3>2 DEF Load, EndWait, StartSender, StartCollector, CapturedIdentity, StartServer,
                  StartRest, Goto, wifiVars
    <3> QED BY <2>1, <3>1, <3>2 DEF AppMain
  <2>2. CASE Handler
    <3>1. CASE OnStart
      BY <3>1, EventSequences DEF OnStart, Take, Connect
    <3>2. CASE OnLost
      BY <3>2, EventSequences DEF OnLost, Take, Connect
    <3>3. CASE GiveUp
      BY <3>3, EventSequences DEF GiveUp, Take
    <3>4. CASE OnAddress
      <4>1. /\ events \in {<<"address">>, <<"address", "lost">>}
            /\ events' \in {<<>>, <<"lost">>} /\ (wifi = "up" => events' = <<>>)
        BY <3>4, EventSequences DEF OnAddress, Take
      <4>2. wifi \in {"up", "idle"} /\ "failed" \notin bits
        BY <4>1, EventSequences
      <4>3. RetriesCountLosses'
        BY <3>4, <4>2 DEF OnAddress
      <4> QED BY <3>4, <4>1, <4>2, <4>3 DEF OnAddress
    <3> QED BY <2>2, <3>1, <3>2, <3>3, <3>4 DEF Handler
  <2>3. CASE Driver
    <3>1. CASE Associate
      BY <3>1, EventSequences DEF Associate, Link, Post
    <3>2. CASE GetAddress
      BY <3>2, EventSequences DEF GetAddress, Link, Post
    <3>3. CASE Disconnect
      BY <3>3, EventSequences DEF Disconnect, Link, Post
    <3> QED BY <2>3, <3>1, <3>2, <3>3 DEF Driver
  <2>4. CASE Reboot
    BY <2>4 DEF Reboot
  <2>5. CASE UNCHANGED bootVars
    BY <2>5 DEF bootVars
  <2> QED BY <2>1, <2>2, <2>3, <2>4, <2>5 DEF BootNext
<1> QED BY <1>1, <1>2, PTL DEF BootSpec

(* The handler never asks the driver to connect while it is busy.          *)
THEOREM ConnectsOneAtATime == BootSpec => []OneAttempt
<1>1. BootInv => OneAttempt
  BY EventSequences DEF BootInv, EventsFitTheLink, OneAttempt
<1> QED BY <1>1, BootInvariant, PTL

(* The station gives up after MAX_RETRY retries in a row, and then nothing *)
(* is under way that could end it.                                         *)
THEOREM GivesUpForGood == BootSpec => []GivingUpIsFinal
<1>1. BootInv => GivingUpIsFinal
  BY DEF BootInv, RetriesCountLosses, GivingUpIsFinal
<1> QED BY <1>1, BootInvariant, PTL

(* Whatever the driver does to the configuration, frames carry the         *)
(* identity that was in NVS.                                               *)
THEOREM IdentityIsKept == BootSpec => []IdentityFromFlash
<1>1. BootInv => IdentityFromFlash
  BY DEF BootInv, BootOrder, IdentityFromFlash
<1> QED BY <1>1, BootInvariant, PTL

-----------------------------------------------------------------------------
(* The update: atomic and authorised, whenever the power fails.            *)

UpdateTypes ==
  /\ flash \in [Slots -> [Blocks -> Builds \cup {Junk}]]
  /\ selected \in Slots /\ running \in Slots
  /\ provisioned \in BOOLEAN /\ psk \in BOOLEAN
  /\ upload \in {"idle", "receive", "write", "select", "restart"}
  /\ body \in Bodies /\ body.length \in 0..MaxLength
  /\ total \in 0..Size
  /\ vouched \subseteq Builds

(* Until an image is verified and selected the handler works next to the   *)
(* partition that runs, which is also the one a reset would start; what it *)
(* has written is the claimed build, and the claimed build has a voucher.  *)
UpdateInv ==
  /\ UpdateTypes
  /\ psk => provisioned
  /\ Complete(running) /\ Complete(selected)
  /\ upload # "restart" => selected = running
  /\ upload # "idle" /\ body.build \in Builds => body.build \in vouched
  /\ upload # "idle" => body.length > 0
  /\ upload = "write" => total < Size
  /\ upload \in {"receive", "write", "select"} =>
       \A k \in 1..total : flash[Target][k] = body.build
  /\ upload = "select" => total > 0 /\ Complete(Target)

LEMMA IdleBody == NoBody \in Bodies /\ NoBody.length \in 0..MaxLength
<1>1. NoBody.build \in Builds \cup {Junk} /\ NoBody.length = 0
  BY DEF NoBody
<1> QED BY <1>1, SizesAssumption DEF NoBody, Bodies

LEMMA SlotFacts ==
  ASSUME NEW s \in Slots
  PROVE  NextPartition(s) \in Slots /\ NextPartition(s) # s
BY DEF Slots, NextPartition

(* A partition holds at most one build, so its image is well defined.      *)
LEMMA ImageIsUnique ==
  ASSUME NEW s \in Slots, NEW b, Holds(s, b)
  PROVE  ImageOf(s) = b
<1>1. 1 \in Blocks
  BY SizesAssumption DEF Blocks
<1>2. ASSUME NEW c, Holds(s, c) PROVE c = b
  BY <1>1, <1>2 DEF Holds
<1> QED BY <1>2 DEF ImageOf

LEMMA ImageOfComplete ==
  ASSUME NEW s \in Slots, Complete(s)
  PROVE  ImageOf(s) \in Builds /\ Holds(s, ImageOf(s))
<1>1. PICK b \in Builds : Holds(s, b)
  BY DEF Complete
<1> QED BY <1>1, ImageIsUnique

(* Writing next to a partition does not change what it holds.              *)
LEMMA OtherSlotKept ==
  ASSUME UpdateTypes, NEW s \in Slots, NEW t \in Slots, s # t, NEW k, NEW v,
         flash' = [flash EXCEPT ![t][k] = v]
  PROVE  /\ flash'[s] = flash[s]
         /\ \A b : Holds(s, b)' <=> Holds(s, b)
         /\ Complete(s)' <=> Complete(s)
<1>1. flash'[s] = flash[s]
  BY DEF UpdateTypes
<1> QED BY <1>1 DEF Holds, Complete

LEMMA UpdateInvariant == OtaSpec => []UpdateInv
<1>1. OtaInit => UpdateInv
  <2> SUFFICES ASSUME OtaInit PROVE UpdateInv
    OBVIOUS
  <2>1. PICK b \in Builds, old \in Builds \cup {Junk} :
          flash = [s \in Slots |-> [k \in Blocks |-> IF s = 0 THEN b ELSE old]]
    BY DEF OtaInit
  <2>2. 0 \in Slots /\ Holds(0, b)
    BY <2>1 DEF Slots, Holds
  <2>3. Complete(0)
    BY <2>2 DEF Complete
  <2>4. flash \in [Slots -> [Blocks -> Builds \cup {Junk}]]
    <3>1. \A s \in Slots : flash[s] = [k \in Blocks |-> IF s = 0 THEN b ELSE old]
      BY <2>1
    <3> QED BY <2>1, <3>1
  <2>5. body \in Bodies /\ body.length \in 0..MaxLength
    BY IdleBody DEF OtaInit
  <2>6. UpdateTypes
    <3>1. /\ selected = 0 /\ running = 0 /\ provisioned \in BOOLEAN /\ psk = FALSE
          /\ upload = "idle" /\ total = 0 /\ vouched = {}
      BY DEF OtaInit
    <3>2. 0 \in 0..Size /\ {} \subseteq Builds
      BY SizesAssumption
    <3> QED BY <2>2, <2>4, <2>5, <3>1, <3>2 DEF UpdateTypes
  <2>7. Complete(running) /\ Complete(selected)
    BY <2>3 DEF OtaInit
  <2> QED BY <2>6, <2>7 DEF OtaInit, UpdateInv
<1>2. UpdateInv /\ [OtaNext]_otaVars => UpdateInv'
  <2> SUFFICES ASSUME UpdateInv, [OtaNext]_otaVars PROVE UpdateInv'
    OBVIOUS
  <2>0. UpdateTypes /\ Target \in Slots /\ Target # running
    BY SlotFacts DEF UpdateInv, UpdateTypes, Target
  <2>1. CASE LoadKey
    BY <2>1 DEF LoadKey, UpdateInv, UpdateTypes, Complete, Holds, Target
  <2>2. ASSUME NEW b \in Bodies, NEW token \in BOOLEAN, Request(b, token)
        PROVE  UpdateInv'
    <3> USE <2>2 DEF Request
    <3>1. token /\ provisioned
      BY DEF CheckAuth, UpdateInv
    <3>2. vouched' = vouched \cup ({b.build} \cap Builds)
      BY <3>1
    <3>3. UpdateTypes'
      BY <2>0, <3>2, SizesAssumption DEF UpdateTypes, Bodies
    <3> QED BY <3>1, <3>2, <3>3, SizesAssumption DEF UpdateInv, Complete, Holds, Target
  <2>3. CASE Receive
    <3> USE <2>3 DEF Receive
    <3>1. selected = running /\ Complete(running)' /\ Complete(selected)'
      BY <2>0, OtherSlotKept DEF UpdateInv, UpdateTypes
    <3>2. UpdateTypes'
      BY <2>0 DEF UpdateTypes, Blocks
    <3>3. ASSUME NEW k \in 1..total PROVE flash'[Target][k] = flash[Target][k]
      BY <2>0, <3>3 DEF UpdateTypes
    <3> QED BY <3>1, <3>2, <3>3 DEF UpdateInv, Target
  <2>4. CASE Write
    <3> USE <2>4 DEF Write
    <3>0. /\ total \in 0..Size /\ total < Size /\ total + 1 \in Blocks /\ total + 1 \in 0..Size
          /\ body.build \in Builds \cup {Junk}
      BY <2>0, SizesAssumption DEF UpdateTypes, Blocks, Bodies, UpdateInv
    <3>1. selected = running /\ Complete(running)' /\ Complete(selected)'
      BY <2>0, OtherSlotKept DEF UpdateInv, UpdateTypes
    <3>2. UpdateTypes'
      <4>1. flash' \in [Slots -> [Blocks -> Builds \cup {Junk}]]
        BY <2>0, <3>0 DEF UpdateTypes
      <4> QED BY <2>0, <3>0, <4>1 DEF UpdateTypes
    <3>3. ASSUME NEW k \in 1..(total + 1) PROVE flash'[Target][k] = body.build
      <4>1. total + 1 \in Blocks /\ flash[Target] \in [Blocks -> Builds \cup {Junk}]
        BY <2>0, <3>0 DEF UpdateTypes
      <4>2. CASE k = total + 1
        BY <2>0, <4>1, <4>2 DEF UpdateTypes
      <4>3. CASE k # total + 1
        <5>1. k \in 1..total
          BY <3>3, <4>3, <2>0 DEF UpdateTypes
        <5> QED BY <2>0, <4>3, <5>1 DEF UpdateTypes, UpdateInv
      <4> QED BY <4>2, <4>3
    <3> QED BY <3>1, <3>2, <3>3 DEF UpdateInv, Target
  <2>5. CASE Abort
    BY <2>5, SizesAssumption DEF Abort, Idle, NoBody, Bodies, UpdateInv, UpdateTypes, Complete, Holds
  <2>6. CASE Finish
    BY <2>6 DEF Finish, UpdateInv, UpdateTypes, Complete, Holds, Target
  <2>7. CASE Reject
    BY <2>7, SizesAssumption DEF Reject, Idle, NoBody, Bodies, UpdateInv, UpdateTypes, Complete, Holds
  <2>8. CASE Select
    BY <2>0, <2>8 DEF Select, UpdateInv, UpdateTypes, Complete, Holds, Target
  <2>9. CASE SelectFails
    BY <2>9, SizesAssumption DEF SelectFails, Idle, NoBody, Bodies, UpdateInv, UpdateTypes, Complete, Holds
  <2>10. CASE Reset \/ Provision \/ WriteKey
    <3>0. Restarted /\ provisioned' \in {provisioned, TRUE, FALSE}
      BY <2>10 DEF Reset, Provision, WriteKey
    <3>1. flash' = flash /\ selected' = selected /\ running' = selected
      BY <3>0 DEF Restarted, UpdateInv
    <3>2. Complete(running)' /\ Complete(selected)'
      BY <3>1 DEF UpdateInv, Complete, Holds
    <3>3. UpdateTypes'
      <4>1. upload' = "idle" /\ body' = NoBody /\ total' = 0 /\ total' \in 0..Size
        BY <3>0, SizesAssumption DEF Restarted, Idle
      <4> QED BY <3>0, <3>1, <4>1, IdleBody DEF Restarted, UpdateInv, UpdateTypes
    <3> QED BY <3>0, <3>1, <3>2, <3>3 DEF Restarted, Idle, NoBody, UpdateInv
  <2>11. CASE UNCHANGED otaVars
    BY <2>11 DEF otaVars, UpdateInv, UpdateTypes, Complete, Holds, Target
  <2> QED BY <2>1, <2>2, <2>3, <2>4, <2>5, <2>6, <2>7, <2>8, <2>9, <2>10, <2>11
          DEF OtaNext, Upload
<1> QED BY <1>1, <1>2, PTL DEF OtaSpec

(* An upload never touches the program in execution.                       *)
THEOREM RunningImageIsSafe == OtaSpec => []RunningImageIntact
<1>1. UpdateInv => RunningImageIntact
  BY DEF UpdateInv, RunningImageIntact
<1> QED BY <1>1, UpdateInvariant, PTL

(* Every step of the update is a step of AtomicUpdate or a stutter: only   *)
(* Select changes what a reset would start, from one complete build to     *)
(* another one that was sent with the key.                                 *)
THEOREM UpdateIsAtomic == OtaSpec => ImplementsAtomicUpdate
<1>1. OtaInit /\ UpdateInv => Update!Init
  BY ImageOfComplete DEF OtaInit, UpdateInv, UpdateTypes, Update!Init
<1>2. UpdateInv /\ UpdateInv' /\ [OtaNext]_otaVars => [Update!Next]_(Update!vars)
  <2> SUFFICES ASSUME UpdateInv, UpdateInv', [OtaNext]_otaVars
               PROVE  [Update!Next]_(Update!vars)
    OBVIOUS
  <2>0. UpdateTypes /\ Target \in Slots /\ Target # running
    BY SlotFacts DEF UpdateInv, UpdateTypes, Target
  <2>k. ASSUME flash' = flash, selected' = selected
        PROVE  ImageOf(selected)' = ImageOf(selected)
    BY <2>k DEF ImageOf, Holds
  <2>1. ASSUME NEW b \in Bodies, NEW token \in BOOLEAN, Request(b, token)
        PROVE  [Update!Next]_(Update!vars)
    <3>1. token /\ provisioned
      BY <2>1 DEF Request, CheckAuth, UpdateInv
    <3>2. vouched' = vouched \cup ({b.build} \cap Builds)
      BY <2>1, <3>1 DEF Request
    <3>3. vouched' = vouched \/ \E c \in Builds : vouched' = vouched \cup {c}
      BY <3>2
    <3> QED BY <2>1, <2>k, <3>3 DEF Request, Update!Next, Update!Offer, Update!vars
  <2>2. CASE Receive \/ Write
    <3>1. selected = running /\ selected \in Slots /\ UNCHANGED <<selected, vouched>>
      BY <2>2, <2>0 DEF Receive, Write, UpdateInv, UpdateTypes
    <3>2. \A b : Holds(selected, b)' <=> Holds(selected, b)
      <4>1. CASE Receive
        BY <4>1, <2>0, <3>1, OtherSlotKept DEF Receive
      <4>2. CASE Write
        BY <4>2, <2>0, <3>1, OtherSlotKept DEF Write
      <4> QED BY <2>2, <4>1, <4>2
    <3>3. ImageOf(selected)' = ImageOf(selected)
      <4>1. PICK b : Holds(selected, b)
        BY DEF UpdateInv, Complete
      <4>2. ImageOf(selected) = b
        BY <3>1, <4>1, ImageIsUnique
      <4>3. b \in Builds /\ Holds(selected, b)'
        BY <3>2, <4>1 DEF Holds
      <4>4. 1 \in Blocks
        BY SizesAssumption DEF Blocks
      <4>5. ASSUME NEW c, Holds(selected, c)' PROVE c = b
        BY <4>3, <4>4, <4>5 DEF Holds
      <4> QED BY <3>1, <4>2, <4>3, <4>5 DEF ImageOf
    <3> QED BY <3>1, <3>3 DEF Update!vars
  <2>3. CASE Select
    <3>1. PICK b \in Builds : Holds(Target, b)
      BY <2>3 DEF Select, UpdateInv, Complete
    <3>2. 1 \in Blocks /\ 1 \in 1..total
      BY <2>3, SizesAssumption DEF Select, UpdateInv, UpdateTypes, Blocks
    <3>3. b \in vouched
      BY <2>3, <3>1, <3>2 DEF Select, UpdateInv, Holds
    <3>4. ImageOf(Target) = b
      BY <2>0, <3>1, ImageIsUnique
    <3>5. ImageOf(selected)' = ImageOf(Target)
      BY <2>3 DEF Select, ImageOf, Holds
    <3> QED BY <2>3, <3>3, <3>4, <3>5 DEF Select, Update!Next, Update!Switch
  <2>4. CASE LoadKey \/ Abort \/ Finish \/ Reject \/ SelectFails \/ Reset \/ Provision
             \/ WriteKey \/ UNCHANGED otaVars
    <3>1. flash' = flash /\ selected' = selected /\ vouched' = vouched
      BY <2>4 DEF LoadKey, Abort, Finish, Reject, SelectFails, Reset, Provision,
                  WriteKey, Restarted, otaVars
    <3> QED BY <2>k, <3>1 DEF Update!vars
  <2> QED BY <2>1, <2>2, <2>3, <2>4 DEF OtaNext, Upload
<1> QED BY <1>1, <1>2, UpdateInvariant, PTL DEF OtaSpec, ImplementsAtomicUpdate, Update!Spec

-----------------------------------------------------------------------------
(* Each step of the node is a step of its parts, or leaves them alone.     *)
THEOREM NodeIsItsParts == Spec => BootSpec /\ OtaSpec
<1>1. Init => BootInit /\ OtaInit
  BY DEF Init
<1>2. [Next]_vars => [BootNext]_bootVars
  BY DEF Next, Boot, Station, BeginUpload, ContinueUpload, Restart, PowerFails, vars,
         BootNext, AppMain
<1>3. [Next]_vars => [OtaNext]_otaVars
  BY DEF Next, Boot, Station, BeginUpload, ContinueUpload, Restart, PowerFails, vars, OtaNext
<1> QED BY <1>1, <1>2, <1>3, PTL DEF Spec, BootSpec, OtaSpec

(* The node stays within its types: above all, the event loop never holds  *)
(* anything but the driver's events and no counter runs past the retries.  *)
THEOREM TypeCorrect == Spec => []TypeOK
<1>1. BootInv => BootTypeOK
  <2> SUFFICES ASSUME BootInv PROVE BootTypeOK
    OBVIOUS
  <2>1. events \in Seq({"start", "lost", "address"})
    <3>1. events \in {<<>>, <<"start">>, <<"lost">>, <<"address">>, <<"address", "lost">>}
      BY DEF BootInv, EventsFitTheLink
    <3>2. <<>> \in Seq({"start", "lost", "address"})
      OBVIOUS
    <3>3. \A e \in {"start", "lost", "address"} : <<e>> \in Seq({"start", "lost", "address"})
      OBVIOUS
    <3>4. <<"address", "lost">> \in Seq({"start", "lost", "address"})
      OBVIOUS
    <3> QED BY <3>1, <3>2, <3>3, <3>4
  <2>2. drops \in 0..(MaxRetry + 1)
    BY RetryAssumption DEF BootInv, RetriesCountLosses
  <2> QED BY <2>1, <2>2 DEF BootInv, BootTypeOK, EventsFitTheLink, RetriesCountLosses, BootOrder
<1>2. UpdateInv => OtaTypeOK
  BY DEF UpdateInv, UpdateTypes, OtaTypeOK, Bodies
<1> QED BY <1>1, <1>2, NodeIsItsParts, BootInvariant, UpdateInvariant, PTL DEF TypeOK

(* What holds of the parts holds of the node.                              *)
THEOREM NodeIsSafe ==
  Spec => /\ [](OneAttempt /\ GivingUpIsFinal /\ IdentityFromFlash /\ RunningImageIntact)
          /\ ImplementsAtomicUpdate
BY NodeIsItsParts, ConnectsOneAtATime, GivesUpForGood, IdentityIsKept, RunningImageIsSafe,
   UpdateIsAtomic, PTL

-----------------------------------------------------------------------------
(* The configuration.  The state file and what was asked for agree, a call *)
(* carries their merge, and the keys on the node hold the checks made on   *)
(* the host, because they are made after the merge and before the write.   *)

(* Settings as a user may give them; main itself sets a dwell time.        *)
Legal(s) ==
  /\ DOMAIN s \subseteq Settings
  /\ \A name \in DOMAIN s \ {"hop_dwell"} : s[name] \in Offered[name]

(* Equal but for these names, and the dwell time, which no call leaves     *)
(* alone.                                                                  *)
Agree(s, t, but) ==
  /\ DOMAIN s \ (but \cup {"hop_dwell"}) = DOMAIN t \ (but \cup {"hop_dwell"})
  /\ \A name \in DOMAIN s \ (but \cup {"hop_dwell"}) : s[name] = t[name]

(* What was asked for once the call is over.                               *)
Due == IF call.at = "flash" THEN Over(call.flags, asked) ELSE asked

(* A call on its way to the node holds what was asked for, checked, but    *)
(* for what the state file has forgotten and the call does not give again; *)
(* after the write the node holds the same, whole.                         *)
CallInv ==
  /\ call = [at |-> call.at, flags |-> call.flags, merged |-> call.merged]
  /\ call.at \in {"none", "flash", "save"}
  /\ call.at = "none" => call = NoCall
  /\ Legal(call.flags) /\ Legal(call.merged)
  /\ settled \in BOOLEAN /\ torn \in BOOLEAN /\ calls \in 0..MaxCalls
  /\ call.at # "none" =>
       /\ Accepted(call.merged, TRUE)
       /\ Agree(call.merged, Due, unsaved \ DOMAIN call.flags)
  /\ call.at = "save" => nvs = Written(call.merged) /\ DOMAIN call.flags \subseteq DOMAIN asked

(* The state file remembers what was asked for, but for what was flashed   *)
(* and never saved, or could not be read.                                  *)
FileInv ==
  /\ Legal(file) /\ Legal(asked)
  /\ unsaved \subseteq DOMAIN asked
  /\ Agree(file, asked, unsaved)

(* What the host has checked, in the keys of the node.                     *)
Sound(keys) ==
  /\ Has(keys, "tdm_slot") <=> Has(keys, "tdm_total")
  /\ Has(keys, "tdm_slot") =>
       /\ keys["tdm_slot"] \in Nat /\ keys["tdm_total"] \in Nat
       /\ keys["tdm_slot"] < keys["tdm_total"]
  /\ Has(keys, "channel") => ValidChannel(keys["channel"])
  /\ Has(keys, "hop_count") <=> Has(keys, "chan_list")
  /\ Has(keys, "chan_list") =>
       keys["chan_list"] \in Seq(Nat) /\ keys["hop_count"] = Len(keys["chan_list"])

ProvisionInv ==
  CallInv /\ FileInv /\ (~torn => Sound(nvs)) /\ NodeHoldsWhatWasAsked

(* Over, key by key.                                                       *)
LEMMA OverDomain ==
  ASSUME NEW s, NEW t
  PROVE  DOMAIN Over(s, t) = DOMAIN s \cup DOMAIN t
  BY DEF Over

LEMMA OverFirst ==
  ASSUME NEW s, NEW t, NEW name \in DOMAIN s
  PROVE  Over(s, t)[name] = s[name]
  BY DEF Over

LEMMA OverSecond ==
  ASSUME NEW s, NEW t, NEW name \in DOMAIN t, name \notin DOMAIN s
  PROVE  Over(s, t)[name] = t[name]
  BY DEF Over

(* The smallest settings.                                                  *)
LEMMA DwellFacts ==
  /\ DOMAIN [hop_dwell |-> DefaultDwell] = {"hop_dwell"}
  /\ DOMAIN Nothing = {}
  BY DEF Nothing

(* Legal settings over legal settings are legal.                           *)
LEMMA OverIsLegal ==
  ASSUME NEW s, NEW t, Legal(s), Legal(t)
  PROVE  Legal(Over(s, t))
<1>1. DOMAIN Over(s, t) = DOMAIN s \cup DOMAIN t
  BY OverDomain
<1>2. ASSUME NEW name \in DOMAIN Over(s, t) \ {"hop_dwell"}
      PROVE  Over(s, t)[name] \in Offered[name]
  <2>1. CASE name \in DOMAIN s
    <3>1. Over(s, t)[name] = s[name]
      BY <2>1, OverFirst
    <3> QED
      BY <1>2, <2>1, <3>1 DEF Legal
  <2>2. CASE name \in DOMAIN t \ DOMAIN s
    <3>1. Over(s, t)[name] = t[name]
      BY <2>2, OverSecond
    <3> QED
      BY <1>2, <2>2, <3>1 DEF Legal
  <2> QED
    BY <1>1, <1>2, <2>1, <2>2
<1> QED
  BY <1>1, <1>2 DEF Legal

(* A merge agrees with the flags over all that was asked for before, where *)
(* the flags or the state file speak.                                      *)
LEMMA MergedFacts ==
  ASSUME NEW flags, NEW prior, NEW history, NEW but,
         Legal(flags), Legal(prior), Legal(history), Agree(prior, history, but)
  PROVE  /\ Legal(Merged(flags, prior))
         /\ Agree(Merged(flags, prior), Over(flags, history), but \ DOMAIN flags)
<1> DEFINE dwell == [hop_dwell |-> DefaultDwell]
           rest == Over(dwell, prior)
           left == (but \ DOMAIN flags) \cup {"hop_dwell"}
<1>1. /\ DOMAIN rest = {"hop_dwell"} \cup DOMAIN prior
      /\ \A name \in DOMAIN prior \ {"hop_dwell"} : rest[name] = prior[name]
  <2>1. DOMAIN rest = {"hop_dwell"} \cup DOMAIN prior
    BY OverDomain, DwellFacts
  <2>2. ASSUME NEW name \in DOMAIN prior \ {"hop_dwell"}
        PROVE  rest[name] = prior[name]
    BY OverSecond, DwellFacts
  <2> QED
    BY <2>1, <2>2
<1>2. Legal(dwell)
  BY DwellFacts, OfferedAssumption DEF Legal, Settings
<1> HIDE DEF dwell
<1>3. Legal(Over(flags, rest))
  BY <1>2, OverIsLegal
<1> HIDE DEF rest
<1>4. Agree(Over(flags, rest), Over(flags, history), but \ DOMAIN flags)
  <2>1. /\ DOMAIN Over(flags, rest) = DOMAIN flags \cup DOMAIN rest
        /\ DOMAIN Over(flags, history) = DOMAIN flags \cup DOMAIN history
    BY OverDomain
  <2>2. DOMAIN rest \ (but \cup {"hop_dwell"}) = DOMAIN history \ (but \cup {"hop_dwell"})
    BY <1>1 DEF Agree
  <2>3. DOMAIN Over(flags, rest) \ left = DOMAIN Over(flags, history) \ left
    BY <2>1, <2>2
  <2>4. ASSUME NEW name \in DOMAIN Over(flags, rest) \ left
        PROVE  Over(flags, rest)[name] = Over(flags, history)[name]
    <3>1. CASE name \in DOMAIN flags
      BY <3>1, OverFirst
    <3>2. CASE name \notin DOMAIN flags
      <4>1. /\ name \in DOMAIN rest \ DOMAIN flags /\ name # "hop_dwell" /\ name \notin but
            /\ name \in DOMAIN history \ DOMAIN flags /\ name \in DOMAIN prior
        BY <1>1, <2>1, <2>2, <2>4, <3>2
      <4>2. Over(flags, rest)[name] = rest[name] /\ Over(flags, history)[name] = history[name]
        BY <4>1, OverSecond
      <4>3. rest[name] = prior[name] /\ prior[name] = history[name]
        BY <1>1, <4>1 DEF Agree
      <4> QED
        BY <4>2, <4>3
    <3> QED
      BY <3>1, <3>2
  <2> QED
    BY <2>3, <2>4 DEF Agree
<1> QED
  BY <1>3, <1>4 DEF Merged, rest, dwell

(* The keys of the node: the settings, the hop settings as three keys.     *)
LEMMA WrittenFacts ==
  ASSUME NEW s
  PROVE  /\ DOMAIN Written(s) =
              (DOMAIN s \ {"hop_channels", "hop_dwell"}) \cup
              (IF Has(s, "hop_channels") THEN {"hop_count", "chan_list", "dwell_ms"} ELSE {})
         /\ \A name \in DOMAIN s \ {"hop_channels", "hop_dwell"} : Written(s)[name] = s[name]
         /\ Has(s, "hop_channels") /\ DOMAIN s \cap {"hop_count", "chan_list"} = {} =>
              /\ Written(s)["hop_count"] = Len(s["hop_channels"])
              /\ Written(s)["chan_list"] = s["hop_channels"]
<1> DEFINE kept == Without(s, {"hop_channels", "hop_dwell"})
           hops == [hop_count |-> Len(s.hop_channels), chan_list |-> s.hop_channels,
                    dwell_ms |-> s.hop_dwell]
           tail == IF Has(s, "hop_channels") THEN hops ELSE Nothing
<1>1. /\ DOMAIN kept = DOMAIN s \ {"hop_channels", "hop_dwell"}
      /\ \A name \in DOMAIN kept : kept[name] = s[name]
  BY DEF Without
<1>2. /\ DOMAIN hops = {"hop_count", "chan_list", "dwell_ms"}
      /\ hops["hop_count"] = Len(s["hop_channels"]) /\ hops["chan_list"] = s["hop_channels"]
  OBVIOUS
<1>3. Written(s) = Over(kept, tail)
  BY DEF Written
<1>4. DOMAIN tail = IF Has(s, "hop_channels") THEN {"hop_count", "chan_list", "dwell_ms"}
                                              ELSE {}
  BY <1>2, DwellFacts
<1> HIDE DEF kept, hops, tail
<1>5. DOMAIN Written(s) = DOMAIN kept \cup DOMAIN tail
  BY <1>3, OverDomain
<1>6. ASSUME NEW name \in DOMAIN kept
      PROVE  Written(s)[name] = s[name]
  BY <1>1, <1>3, <1>6, OverFirst
<1>7. ASSUME Has(s, "hop_channels"), DOMAIN s \cap {"hop_count", "chan_list"} = {}
      PROVE  /\ Written(s)["hop_count"] = Len(s["hop_channels"])
             /\ Written(s)["chan_list"] = s["hop_channels"]
  <2>1. tail = hops
    BY <1>7 DEF tail
  <2>2. {"hop_count", "chan_list"} \subseteq DOMAIN tail \ DOMAIN kept
    BY <1>1, <1>4, <1>7
  <2>3. \A name \in {"hop_count", "chan_list"} : Written(s)[name] = tail[name]
    BY <1>3, <2>2, OverSecond
  <2> QED
    BY <1>2, <2>1, <2>3
<1> QED
  BY <1>1, <1>4, <1>5, <1>6, <1>7

(* argparse yields settings a user may give.                               *)
LEMMA FlagsAreLegal ==
  ASSUME NEW flags \in CommandLines
  PROVE  Legal(flags)
<1>1. PICK options \in SUBSET Options : flags = Given(options)
  BY DEF CommandLines, kSubset
<1>2. ASSUME NEW name \in DOMAIN flags
      PROVE  name \in Settings /\ flags[name] \in Offered[name]
  <2>1. DOMAIN flags = {o[1] : o \in options}
    BY <1>1 DEF Given
  <2>2. \E o \in options : o[1] = name
    BY <1>2, <2>1
  <2> DEFINE o == CHOOSE o \in options : o[1] = name
  <2>3. o \in options /\ o[1] = name
    BY <2>2
  <2>4. flags[name] = o[2]
    BY <1>1, <1>2, <2>1 DEF Given
  <2> HIDE DEF o
  <2>5. PICK n \in Settings : \E value \in Offered[n] : o = <<n, value>>
    BY <2>3 DEF Options
  <2> QED
    BY <2>3, <2>4, <2>5
<1> QED
  BY <1>2 DEF Legal

(* Settings that agree but for some are written as the same keys but for   *)
(* theirs and the dwell time.                                              *)
LEMMA WrittenAgrees ==
  ASSUME NEW s, NEW t, NEW names, Legal(s), Legal(t), Agree(s, t, names)
  PROVE  LET but == Keys(names) \cup {"dwell_ms"}
         IN  Without(Written(s), but) = Without(Written(t), but)
<1> DEFINE but == Keys(names) \cup {"dwell_ms"}
           plain == {"hop_channels", "hop_dwell"}
           hops == {"hop_count", "chan_list", "dwell_ms"}
<1>1. /\ DOMAIN s \cap hops = {} /\ DOMAIN t \cap hops = {}
  BY OfferedAssumption DEF Legal, Settings
<1>2. "hop_channels" \notin names =>
        /\ Has(s, "hop_channels") <=> Has(t, "hop_channels")
        /\ Has(s, "hop_channels") => s["hop_channels"] = t["hop_channels"]
  BY DEF Agree, Has
<1>3. DOMAIN s \ (plain \cup but) = DOMAIN t \ (plain \cup but)
  BY DEF Agree, Keys
<1>4. DOMAIN Written(s) \ but = DOMAIN Written(t) \ but
  <2>1. DOMAIN Written(s) = (DOMAIN s \ plain) \cup (IF Has(s, "hop_channels") THEN hops ELSE {})
    BY WrittenFacts
  <2>2. DOMAIN Written(t) = (DOMAIN t \ plain) \cup (IF Has(t, "hop_channels") THEN hops ELSE {})
    BY WrittenFacts
  <2>3. "hop_channels" \in names => hops \subseteq but
    BY DEF Keys
  <2> HIDE DEF but, hops, plain
  <2> QED
    BY <1>2, <1>3, <2>1, <2>2, <2>3
<1>5. ASSUME NEW name \in DOMAIN Written(s) \ but
      PROVE  Written(s)[name] = Written(t)[name]
  <2>1. CASE name \in DOMAIN s \ plain
    <3>1. name \in DOMAIN t \ plain /\ name \notin names
      BY <1>3, <1>5, <2>1 DEF Keys
    <3>2. s[name] = t[name]
      BY <2>1, <3>1 DEF Agree
    <3> QED
      BY <2>1, <3>1, <3>2, WrittenFacts
  <2>2. CASE name \notin DOMAIN s \ plain
    <3>1. Has(s, "hop_channels") /\ name \in {"hop_count", "chan_list"}
      BY <1>5, <2>2, WrittenFacts
    <3>2. "hop_channels" \notin names
      BY <1>5, <3>1 DEF Keys
    <3> QED
      BY <1>1, <1>2, <3>1, <3>2, WrittenFacts
  <2> QED
    BY <2>1, <2>2
<1>6. \A u : Without(u, but) = [name \in DOMAIN u \ but |-> u[name]]
  BY DEF Without
<1> HIDE DEF but
<1>7. Without(Written(s), but) = Without(Written(t), but)
  BY <1>4, <1>5, <1>6
<1> QED
  BY <1>7 DEF but

(* Settings that main accepts are written as keys that hold its checks.    *)
LEMMA WrittenIsSound ==
  ASSUME NEW s, Legal(s), Accepted(s, TRUE)
  PROVE  Sound(Written(s))
<1>1. \A name \in {"tdm_slot", "tdm_total", "channel"} :
        /\ Has(Written(s), name) <=> Has(s, name)
        /\ Has(s, name) => Written(s)[name] = s[name]
  BY WrittenFacts DEF Has
<1>2. Has(s, "tdm_slot") =>
        s["tdm_slot"] \in Nat /\ s["tdm_total"] \in Nat /\ s["tdm_slot"] < s["tdm_total"]
  BY OfferedAssumption DEF Legal, Accepted, Has, Settings
<1>3. DOMAIN s \cap {"hop_count", "chan_list", "dwell_ms"} = {}
  BY OfferedAssumption DEF Legal, Settings
<1>4. /\ Has(Written(s), "hop_count") <=> Has(s, "hop_channels")
      /\ Has(Written(s), "chan_list") <=> Has(s, "hop_channels")
  BY <1>3, WrittenFacts DEF Has
<1>5. Has(s, "hop_channels") =>
        /\ Written(s)["chan_list"] \in Seq(Nat)
        /\ Written(s)["hop_count"] = Len(Written(s)["chan_list"])
  <2>1. Has(s, "hop_channels") => s["hop_channels"] \in Seq(Nat)
    BY OfferedAssumption DEF Legal, Has, Settings
  <2> QED
    BY <1>3, <2>1, WrittenFacts
<1> QED
  BY <1>1, <1>2, <1>4, <1>5 DEF Sound, Accepted

(* A default dwell time changes nothing else.                              *)
LEMMA DefaultAgrees ==
  ASSUME NEW s
  PROVE  Agree(s, Over([hop_dwell |-> DefaultDwell], s), {})
<1> DEFINE dwell == [hop_dwell |-> DefaultDwell]
<1>1. DOMAIN dwell = {"hop_dwell"}
  BY DwellFacts
<1> HIDE DEF dwell
<1>2. DOMAIN Over(dwell, s) = {"hop_dwell"} \cup DOMAIN s
  BY <1>1, OverDomain
<1>3. ASSUME NEW name \in DOMAIN s \ {"hop_dwell"}
      PROVE  s[name] = Over(dwell, s)[name]
  BY <1>1, OverSecond
<1>4. Agree(s, Over(dwell, s), {})
  BY <1>2, <1>3 DEF Agree
<1> QED
  BY <1>4 DEF dwell

(* Settings and keys of a node that was never provisioned.                 *)
LEMMA NothingFacts ==
  /\ Legal(Nothing) /\ Sound(Nothing)
  /\ \A s, but : Agree(s, s, but)
  BY DwellFacts DEF Legal, Sound, Agree, Has

(* What agrees without some names agrees without more.                     *)
LEMMA FewerAgree ==
  ASSUME NEW s, NEW t, NEW few, NEW many, few \subseteq many,
         Without(s, few \cup {"dwell_ms"}) = Without(t, few \cup {"dwell_ms"})
  PROVE  Without(s, many \cup {"dwell_ms"}) = Without(t, many \cup {"dwell_ms"})
<1> DEFINE less == few \cup {"dwell_ms"}
           more == many \cup {"dwell_ms"}
<1>1. DOMAIN s \ less = DOMAIN t \ less
  BY DEF Without
<1>2. ASSUME NEW name \in DOMAIN s \ less
      PROVE  s[name] = t[name]
  <2>1. Without(s, less)[name] = s[name] /\ Without(t, less)[name] = t[name]
    BY <1>1, <1>2 DEF Without
  <2> QED
    BY <2>1
<1>3. DOMAIN s \ more = DOMAIN t \ more
  BY <1>1
<1>4. \A name \in DOMAIN s \ more : s[name] = t[name]
  BY <1>2
<1> HIDE DEF less, more
<1>5. Without(s, more) = Without(t, more)
  BY <1>3, <1>4 DEF Without
<1> QED
  BY <1>5 DEF more

(* Before the first call.                                                  *)
LEMMA ProvisionStarts ==
  ASSUME ProvisionInit
  PROVE  ProvisionInv
<1>1. CallInv
  <2>1. call = NoCall /\ settled \in BOOLEAN /\ torn \in BOOLEAN /\ calls \in 0..MaxCalls
    <3>1. 0 \in 0..MaxCalls
      BY BoundAssumption
    <3> QED
      BY <3>1 DEF ProvisionInit
  <2>2. call.at = "none" /\ call.flags = Nothing /\ call.merged = Nothing
    BY <2>1 DEF NoCall
  <2>3. call = [at |-> call.at, flags |-> call.flags, merged |-> call.merged]
    BY <2>1, <2>2 DEF NoCall
  <2> QED
    BY <2>1, <2>2, <2>3, NothingFacts DEF CallInv
<1>2. FileInv /\ Sound(nvs)
  BY NothingFacts DEF ProvisionInit, FileInv
<1>3. NodeHoldsWhatWasAsked
  BY DEF ProvisionInit, NodeHoldsWhatWasAsked
<1> QED
  BY <1>1, <1>2, <1>3 DEF ProvisionInv

(* A call, each of its effects and each of its failures.                   *)
LEMMA ProvisionKept ==
  ASSUME ProvisionInv, [ProvisionNext]_provisionVars
  PROVE  ProvisionInv'
<1>0. CallInv /\ FileInv /\ (~torn => Sound(nvs)) /\ NodeHoldsWhatWasAsked
  BY DEF ProvisionInv
<1>1. ASSUME call' = NoCall, settled' \in BOOLEAN, torn' \in BOOLEAN, calls' \in 0..MaxCalls
      PROVE  CallInv'
  BY <1>1, NothingFacts DEF CallInv, NoCall
<1>2. ASSUME NEW flags \in CommandLines, NEW reset \in BOOLEAN, NEW readable \in BOOLEAN,
             NEW partial \in BOOLEAN, Begin(flags, reset, readable, partial)
      PROVE  ProvisionInv'
  <2>1. FileInv'
    <3>1. CASE reset
      BY <1>2, <3>1, NothingFacts DEF Begin, FileInv
    <3>2. CASE ~reset /\ readable
      BY <1>0, <1>2, <3>2 DEF Begin, FileInv
    <3>3. CASE ~reset /\ ~readable
      <4>1. file' = file /\ asked' = asked /\ unsaved' = DOMAIN asked
        BY <1>2, <3>3 DEF Begin
      <4>2. Agree(file, asked, DOMAIN asked)
        BY <1>0 DEF FileInv, Agree
      <4> QED
        BY <1>0, <4>1, <4>2 DEF FileInv
    <3> QED
      BY <3>1, <3>2, <3>3
  <2>2. (~torn => Sound(nvs))'
    BY <1>0, <1>2 DEF Begin
  <2>3. NodeHoldsWhatWasAsked'
    <3>1. CASE reset
      BY <1>2, <3>1 DEF Begin, NodeHoldsWhatWasAsked
    <3>2. CASE ~reset /\ readable
      BY <1>0, <1>2, <3>2 DEF Begin, NodeHoldsWhatWasAsked
    <3>3. CASE ~reset /\ ~readable
      <4>1. nvs' = nvs /\ asked' = asked /\ unsaved' = DOMAIN asked
        BY <1>2, <3>3 DEF Begin
      <4>2. settled' => settled
        BY <1>2 DEF Begin
      <4> DEFINE held == Written(Over([hop_dwell |-> DefaultDwell], asked))
                 few == Keys(unsaved)
                 many == Keys(DOMAIN asked)
      <4>3. ASSUME settled
            PROVE  Without(nvs, many \cup {"dwell_ms"}) = Without(held, many \cup {"dwell_ms"})
        <5>1. few \subseteq many
          BY <1>0 DEF FileInv, Keys
        <5>2. Without(nvs, few \cup {"dwell_ms"}) = Without(held, few \cup {"dwell_ms"})
          BY <1>0, <4>3 DEF NodeHoldsWhatWasAsked
        <5> HIDE DEF held, few, many
        <5> QED
          BY <5>1, <5>2, FewerAgree
      <4> DEFINE Held(keys, ask, names) ==
                   LET but == Keys(names) \cup {"dwell_ms"}
                   IN  Without(keys, but)
                         = Without(Written(Over([hop_dwell |-> DefaultDwell], ask)), but)
      <4>4. settled => Held(nvs, asked, DOMAIN asked)
        BY <4>3
      <4> HIDE DEF Held
      <4>5. settled' => Held(nvs', asked', unsaved')
        BY <4>1, <4>2, <4>4
      <4> QED
        BY <4>5 DEF Held, NodeHoldsWhatWasAsked, Keys, Without, Written, Over, Has
    <3> QED
      BY <3>1, <3>2, <3>3
  <2>4. settled' \in BOOLEAN /\ torn' \in BOOLEAN /\ calls' \in 0..MaxCalls
    BY <1>0, <1>2, BoundAssumption DEF Begin, CallInv
  <2> DEFINE prior == Prior(reset, readable)
             merged == Merged(flags, prior)
  <2>5. /\ Legal(flags) /\ Legal(prior) /\ Legal(asked')
        /\ Agree(prior, asked', unsaved')
    <3>1. CASE reset
      BY <1>2, <2>1, <3>1, FlagsAreLegal, NothingFacts DEF Begin, Prior, FileInv
    <3>2. CASE ~reset /\ readable
      BY <1>2, <2>1, <3>2, FlagsAreLegal DEF Begin, Prior, FileInv
    <3>3. CASE ~reset /\ ~readable
      <4>1. prior = Nothing /\ unsaved' = DOMAIN asked /\ asked' = asked
        BY <1>2, <3>3 DEF Begin, Prior
      <4>2. Agree(Nothing, asked, DOMAIN asked)
        BY DwellFacts DEF Agree
      <4> QED
        BY <2>1, <4>1, <4>2, FlagsAreLegal, NothingFacts DEF FileInv
    <3> QED
      BY <3>1, <3>2, <3>3
  <2> HIDE DEF prior
  <2>6. Legal(merged) /\ Agree(merged, Over(flags, asked'), unsaved' \ DOMAIN flags)
    BY <2>5, MergedFacts
  <2>7. CASE Accepted(merged, partial)
    <3>1. call' = [at |-> "flash", flags |-> flags, merged |-> merged]
      BY <1>2, <2>7 DEF Begin, prior
    <3>2. Accepted(merged, TRUE)
      BY <2>7 DEF Accepted
    <3> HIDE DEF merged
    <3>3. /\ call'.at = "flash" /\ call'.flags = flags /\ call'.merged = merged
          /\ Due' = Over(flags, asked')
      BY <3>1 DEF Due
    <3>4. CallInv'
      BY <2>4, <2>5, <2>6, <3>1, <3>2, <3>3 DEF CallInv
    <3> QED
      BY <2>1, <2>2, <2>3, <3>4 DEF ProvisionInv
  <2>8. CASE ~Accepted(merged, partial)
    <3>1. call' = NoCall
      BY <1>2, <2>8 DEF Begin, prior
    <3> QED
      BY <1>1, <2>1, <2>2, <2>3, <2>4, <3>1 DEF ProvisionInv
  <2> QED
    BY <2>7, <2>8
<1>3. ASSUME call.at # "none", asked' = Over(call.flags, asked)
      PROVE  /\ Legal(asked') /\ DOMAIN asked' = DOMAIN call.flags \cup DOMAIN asked
             /\ \A name \in DOMAIN asked \ DOMAIN call.flags : asked'[name] = asked[name]
  <2>1. Legal(call.flags) /\ Legal(asked)
    BY <1>0 DEF FileInv, CallInv
  <2>2. Legal(Over(call.flags, asked))
    BY <2>1, OverIsLegal
  <2>3. Legal(asked')
    BY <1>3, <2>2
  <2>4. DOMAIN Over(call.flags, asked) = DOMAIN call.flags \cup DOMAIN asked
    BY OverDomain
  <2>5. \A name \in DOMAIN asked \ DOMAIN call.flags :
          Over(call.flags, asked)[name] = asked[name]
    BY OverSecond
  <2> QED
    BY <1>3, <2>3, <2>4, <2>5
<1>4. CASE Flash
  <2>1. call' = [call EXCEPT !.at = "save"] /\ call.at = "flash"
    BY <1>4 DEF Flash
  <2>2. call' = [at |-> "save", flags |-> call.flags, merged |-> call.merged]
    BY <1>0, <2>1 DEF CallInv
  <2>3. /\ call'.at = "save" /\ call'.flags = call.flags /\ call'.merged = call.merged
        /\ asked' = Over(call.flags, asked) /\ unsaved' = unsaved \cup DOMAIN call.flags
        /\ nvs' = Written(call.merged) /\ file' = file
    BY <1>4, <2>2 DEF Flash
  <2>4. Due = asked' /\ Due' = asked'
    BY <2>1, <2>3 DEF Due
  <2>5. Agree(call'.merged, Due', unsaved' \ DOMAIN call'.flags)
    <3>1. unsaved' \ DOMAIN call'.flags = unsaved \ DOMAIN call.flags
      BY <2>3
    <3>2. Agree(call.merged, Due, unsaved \ DOMAIN call.flags)
      BY <1>0, <2>1 DEF CallInv
    <3> QED
      BY <2>3, <2>4, <3>1, <3>2
  <2>6. FileInv'
    <3>1. Agree(file', asked', unsaved')
      BY <1>0, <1>3, <2>1, <2>3 DEF FileInv, Agree
    <3> QED
      BY <1>0, <1>3, <2>1, <2>3, <3>1 DEF FileInv
  <2>7. CallInv'
    <3>1. DOMAIN call'.flags \subseteq DOMAIN asked'
      BY <1>3, <2>1, <2>3
    <3>2. settled' \in BOOLEAN /\ torn' \in BOOLEAN /\ calls' \in 0..MaxCalls
      BY <1>0, <1>4 DEF Flash, CallInv
    <3>3. Legal(call.flags) /\ Legal(call.merged) /\ Accepted(call.merged, TRUE)
      BY <1>0, <2>1 DEF CallInv
    <3> QED
      BY <2>2, <2>3, <2>5, <3>1, <3>2, <3>3 DEF CallInv
  <2>8. Sound(nvs)'
    BY <1>0, <2>1, <2>3, WrittenIsSound DEF CallInv
  <2>9. NodeHoldsWhatWasAsked'
    BY <1>4 DEF Flash, NodeHoldsWhatWasAsked
  <2> QED
    BY <2>6, <2>7, <2>8, <2>9 DEF ProvisionInv
<1>5. CASE FlashFails
  <2>1. CallInv'
    <3>1. torn' \in BOOLEAN
      BY <1>0, <1>5 DEF FlashFails, CallInv
    <3> QED
      BY <1>0, <1>1, <1>5, <3>1 DEF FlashFails, CallInv
  <2>2. FileInv'
    BY <1>0, <1>5 DEF FlashFails, FileInv
  <2>3. (~torn => Sound(nvs))' /\ NodeHoldsWhatWasAsked'
    BY <1>0, <1>5 DEF FlashFails, NodeHoldsWhatWasAsked
  <2> QED
    BY <2>1, <2>2, <2>3 DEF ProvisionInv
<1>6. ASSUME call.at # "none", file' = call.merged, asked' = Due,
             unsaved' = unsaved \ DOMAIN call.flags
      PROVE  FileInv'
  <2>1. Legal(asked') /\ DOMAIN asked \subseteq DOMAIN asked'
    BY <1>0, <1>3, <1>6 DEF Due, FileInv
  <2>2. Agree(file', asked', unsaved') /\ Legal(file')
    BY <1>0, <1>6 DEF CallInv
  <2> QED
    BY <1>0, <1>6, <2>1, <2>2 DEF FileInv
<1>7. CASE Save
  <2>1. /\ call.at = "save" /\ file' = call.merged /\ unsaved' = unsaved \ DOMAIN call.flags
        /\ asked' = Due /\ nvs' = nvs /\ torn' = torn /\ call' = NoCall
    BY <1>7 DEF Save, Due
  <2>2. CallInv'
    BY <1>0, <1>1, <1>7 DEF Save, CallInv
  <2>3. FileInv' /\ (~torn => Sound(nvs))'
    BY <1>0, <1>6, <2>1
  <2>4. NodeHoldsWhatWasAsked'
    <3> DEFINE held == Over([hop_dwell |-> DefaultDwell], asked')
    <3>1. nvs' = Written(file') /\ Agree(file', asked', unsaved') /\ Legal(file') /\ Legal(asked')
      BY <1>0, <2>1, <2>3 DEF CallInv, FileInv
    <3>2. Agree(asked', held, {})
      BY DefaultAgrees
    <3>3. Legal(held)
      <4>1. Legal([hop_dwell |-> DefaultDwell])
        BY DwellFacts, OfferedAssumption DEF Legal, Settings
      <4> QED
        BY <3>1, <4>1, OverIsLegal
    <3> HIDE DEF held
    <3>4. Agree(file', held, unsaved')
      BY <3>1, <3>2 DEF Agree
    <3>5. LET but == Keys(unsaved') \cup {"dwell_ms"}
          IN  Without(nvs', but) = Without(Written(held), but)
      BY <3>1, <3>3, <3>4, WrittenAgrees
    <3> QED
      BY <3>5 DEF NodeHoldsWhatWasAsked, held, Keys, Without, Written, Over, Has
  <2> QED
    BY <2>2, <2>3, <2>4 DEF ProvisionInv
<1>8. CASE DryRun
  <2>1. CallInv'
    BY <1>0, <1>1, <1>8 DEF DryRun, CallInv
  <2>2. FileInv' /\ (~torn => Sound(nvs))' /\ NodeHoldsWhatWasAsked'
    BY <1>0, <1>6, <1>8 DEF DryRun, Due, NodeHoldsWhatWasAsked
  <2> QED
    BY <2>1, <2>2 DEF ProvisionInv
<1>9. CASE Interrupted
  <2>1. CallInv'
    BY <1>0, <1>1, <1>9 DEF Interrupted, CallInv
  <2>2. FileInv' /\ (~torn => Sound(nvs))' /\ NodeHoldsWhatWasAsked'
    BY <1>0, <1>9 DEF Interrupted, FileInv, NodeHoldsWhatWasAsked
  <2> QED
    BY <2>1, <2>2 DEF ProvisionInv
<1>10. CASE UNCHANGED provisionVars
  <2>1. CallInv' /\ FileInv'
    BY <1>0, <1>10 DEF provisionVars, CallInv, FileInv, Due
  <2>2. (~torn => Sound(nvs))' /\ NodeHoldsWhatWasAsked'
    BY <1>0, <1>10 DEF provisionVars, NodeHoldsWhatWasAsked
  <2> QED
    BY <2>1, <2>2 DEF ProvisionInv
<1> QED
  BY <1>2, <1>4, <1>5, <1>7, <1>8, <1>9, <1>10 DEF ProvisionNext

(* The inductive invariant holds.                                          *)
LEMMA ProvisionInvariant == ProvisionSpec => []ProvisionInv
  BY ProvisionStarts, ProvisionKept, PTL DEF ProvisionSpec

(* Type correctness of the tool, its state file and the keys.              *)
THEOREM ProvisionTypeCorrect == ProvisionSpec => []ProvisionTypeOK
<1>1. ProvisionInv => ProvisionTypeOK
  BY DEF ProvisionInv, CallInv, FileInv, Legal, ProvisionTypeOK
<1> QED
  BY <1>1, ProvisionInvariant, PTL

(* After a call that ran to its end, the node holds what was asked for,    *)
(* the settings of cut calls and of unreadable files apart.                *)
THEOREM NodeGetsWhatWasAsked == ProvisionSpec => []NodeHoldsWhatWasAsked
<1>1. ProvisionInv => NodeHoldsWhatWasAsked
  BY DEF ProvisionInv
<1> QED
  BY <1>1, ProvisionInvariant, PTL

(* The node takes the slot and the channel the host has let through, once  *)
(* a write is whole.                                                       *)
THEOREM NodeObeysTheHost == ProvisionSpec => []NodeObeys
<1>1. ProvisionInv => NodeObeys
  <2> SUFFICES ASSUME ProvisionInv, ~torn
               PROVE  /\ Has(nvs, "tdm_slot") => TdmSlot = nvs["tdm_slot"]
                      /\ Has(nvs, "channel") /\ HopCount = 1 => HopTable = <<nvs["channel"]>>
    BY DEF NodeObeys
  <2>1. Sound(nvs)
    BY DEF ProvisionInv
  <2>2. ASSUME Has(nvs, "tdm_slot") PROVE TdmSlot = nvs["tdm_slot"]
    <3>1. Override("tdm_slot", Nat, 0) = nvs["tdm_slot"] /\ TdmNodes = nvs["tdm_total"]
      BY <2>1, <2>2 DEF Sound, Override, TdmNodes
    <3> QED
      BY <2>1, <2>2, <3>1 DEF Sound, TdmSlot
  <2>3. ASSUME Has(nvs, "channel"), HopCount = 1 PROVE HopTable = <<nvs["channel"]>>
    <3>1. CsiChannel = nvs["channel"] /\ nvs["channel"] \in 1..14 \cup 36..177
      BY <2>1, <2>3 DEF Sound, Override, CsiChannel, ValidChannel
    <3>2. FirstChannel = nvs["channel"]
      BY <3>1 DEF FirstChannel
    <3> QED
      BY <2>3, <3>2 DEF HopTable
  <2> QED
    BY <2>2, <2>3
<1> QED
  BY <1>1, ProvisionInvariant, PTL

(* The hop table is the list the host wrote, or a single channel, once a   *)
(* write is whole.                                                         *)
THEOREM HopTableHoldsTheList == ProvisionSpec => []HopTableIsWhole
<1>1. ProvisionInv => HopTableIsWhole
  <2> SUFFICES ASSUME ProvisionInv, ~torn, HopTable # <<FirstChannel>>
               PROVE  HopTable = Override("chan_list", Seq(Nat), <<>>)
    BY DEF HopTableIsWhole
  <2>1. HopCount > 1 /\ HopTable = SubSeq(ChannelList, 1, HopCount)
    BY DEF HopTable
  <2> DEFINE list == nvs["chan_list"]
  <2>2. /\ Has(nvs, "hop_count") /\ Has(nvs, "chan_list")
        /\ Len(list) = HopCount /\ HopCount \in 1..6 /\ list \in Seq(Nat)
    BY <2>1 DEF ProvisionInv, Sound, HopCount, Override, HopMax
  <2> DEFINE stored == IF Has(nvs, "chan_list") /\ Len(nvs.chan_list) <= HopMax
                       THEN nvs.chan_list ELSE <<>>
  <2>3. ChannelList = [i \in 1..HopMax |->
           IF i <= Len(stored) /\ i <= HopCount THEN stored[i]
           ELSE IF i = 1 THEN CompiledChannel ELSE 0]
    BY DEF ChannelList
  <2>4. SubSeq(ChannelList, 1, HopCount) = [i \in 1..HopCount |-> list[i]]
    <3>1. stored = list /\ HopCount \in 1..6 /\ HopMax = 6
      <4>1. HopMax = 6
        BY DEF HopMax
      <4>2. Len(nvs.chan_list) <= HopMax
        BY <2>2, <4>1
      <4>3. stored = list
        BY <2>2, <4>2
      <4> QED
        BY <2>2, <4>1, <4>3
    <3> HIDE DEF list, stored
    <3>2. ASSUME NEW i \in 1..HopCount
          PROVE  ChannelList[i] = list[i] /\ list[i] \in Nat
      <4>1. i \in 1..HopMax /\ i <= HopCount /\ i \in 1..Len(list)
        BY <2>2, <3>1
      <4>2. list[i] \in Nat /\ i <= Len(stored)
        BY <2>2, <3>1, <4>1
      <4>3. ChannelList[i] = stored[i]
        BY <2>3, <4>1, <4>2
      <4> QED
        BY <3>1, <4>2, <4>3
    <3>3. /\ SubSeq(ChannelList, 1, HopCount) \in Seq(Nat)
          /\ Len(SubSeq(ChannelList, 1, HopCount)) = HopCount
          /\ \A i \in 1..HopCount : SubSeq(ChannelList, 1, HopCount)[i] = ChannelList[i]
      BY <3>1, <3>2, SubSeqProperties
    <3> QED
      BY <3>2, <3>3
  <2>5. list = [i \in 1..HopCount |-> list[i]]
    BY <2>2
  <2>6. Override("chan_list", Seq(Nat), <<>>) = list
    BY <2>2 DEF Override
  <2> QED
    BY <2>1, <2>4, <2>5, <2>6
<1> QED
  BY <1>1, ProvisionInvariant, PTL
=============================================================================

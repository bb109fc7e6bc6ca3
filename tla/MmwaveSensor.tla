---------------------------- MODULE MmwaveSensor ----------------------------
(***************************************************************************)
(* The mmWave radar of main/mmwave_sensor.c on its UART: the probe at boot *)
(* and the two byte-wise parsers, for the MR60BHA2 (one start byte, a      *)
(* header with a checksum) and for the LD2410 (four start and four end     *)
(* bytes, no checksum).                                                    *)
(*                                                                         *)
(* The UART task is one of the lowest in priority and its buffer is small, *)
(* so bytes get lost; the parser may then take a byte inside a frame for   *)
(* the start of one, read a header that is none, and swallow as much as    *)
(* the length limit allows.  A byte is the name of the place it belongs    *)
(* to; inside a busy frame any byte may look like a start or an end.  What *)
(* a header read out of step says is open, checksum included.              *)
(*                                                                         *)
(* Left out: the readings, and the counters of frames and errors.          *)
(***************************************************************************)
EXTENDS Integers

CONSTANTS Mr60Payloads, LdPayloads  \* the payload lengths the sensors send

(* Those that the parsers take.                                            *)
ASSUME PayloadAssumption ==
  /\ Mr60Payloads # {} /\ Mr60Payloads \subseteq 0..30
  /\ LdPayloads # {} /\ LdPayloads \subseteq 1..256

VARIABLES
  type,    \* s_state.type
  reads,   \* the UART task runs
  payload, \* the payload length of the frame on the wire
  kind,    \* that frame is "clean" or "busy"
  at,      \* bytes of it that were sent
  whole,   \* history: none of its bytes was lost
  parser,  \* s_mr60 or s_ld: state, bytes left to read, and (history) in step
  quiet    \* history: bytes of clean and whole frames in a row, up to Swallow

wireVars == <<payload, kind, at, whole, quiet>>
sensorVars == <<type, reads, parser, wireVars>>

Sensors == {"MR60BHA2", "LD2410"}

(* A frame: a start byte, seven more of the header, the payload and a      *)
(* checksum; or four start bytes, the length, the payload, four end bytes. *)
FrameSize == payload + (IF type = "MR60BHA2" THEN 9 ELSE 10)

Starts == <<"F4", "F3", "F2", "F1">>
Ends == <<"F8", "F7", "F6", "F5">>

Place ==
  IF type = "MR60BHA2" THEN IF at = 0 THEN "01" ELSE "data"
  ELSE IF at < 4 THEN Starts[at + 1]
  ELSE IF at >= payload + 6 THEN Ends[at - payload - 5]
  ELSE "data"

Marks == IF type = "MR60BHA2" THEN {"01"} ELSE {"F4", "F3", "F2", "F1", "F8", "F7", "F6", "F5"}

Bytes == {Place} \cup (IF kind = "busy" /\ Place = "data" THEN Marks ELSE {})

(* The length is on the wire too: a frame of one payload byte (presence)   *)
(* of the MR60BHA2 is busy, since its length reads like a start.           *)
Kinds(n) ==
  IF n = (IF type = "MR60BHA2" THEN 1 ELSE 244) THEN {"busy"} ELSE {"clean", "busy"}

Payloads == IF type = "MR60BHA2" THEN Mr60Payloads ELSE LdPayloads

(* The longest payload a parser accepts, and the bytes it reads, at most,  *)
(* after one that it took for a start.                                     *)
MaxPayload == IF type = "MR60BHA2" THEN 30 ELSE 256
Swallow == IF type = "MR60BHA2" THEN 38 ELSE 265

Searching == [state |-> IF type = "MR60BHA2" THEN "01" ELSE "F4", left |-> 0, instep |-> FALSE]

Idle == [state |-> "off", left |-> 0, instep |-> FALSE]

SensorInit ==
  /\ type = "NONE" /\ reads = FALSE
  /\ payload = 0 /\ kind = "busy" /\ at = 0 /\ whole = FALSE
  /\ parser = Idle
  /\ quiet = 0

-----------------------------------------------------------------------------
(* mmwave_sensor_init: no sensor, a sensor whose task does not start, or   *)
(* one that is read from wherever it is in a frame.                        *)
Detect(t, started) ==
  /\ type = "NONE"
  /\ type' = t /\ reads' = started
  /\ payload' \in Payloads' /\ at' \in 0..(FrameSize' - 1) /\ whole' = (at' = 0)
  /\ parser' = Searching'
  /\ UNCHANGED <<kind, quiet>>

-----------------------------------------------------------------------------
(* mr60_feed_byte.                                                         *)

(* Mutant: the length is not limited.                                      *)
LengthsUnlimited == IF parser.instep THEN {payload} ELSE 0..(2 * MaxPayload)

(* The lengths a header may say that passes its checks.                    *)
Lengths == IF parser.instep THEN {payload} ELSE 0..MaxPayload

Goto(state, left) == parser' = [parser EXCEPT !.state = state, !.left = left]
Resync == parser' = Searching

Mr60Search(b) ==
  /\ parser.state = "01"
  /\ IF b = "01" THEN parser' = [state |-> "header", left |-> 7, instep |-> at = 0]
                 ELSE UNCHANGED parser

Mr60Header ==
  /\ parser.state = "header"
  /\ IF parser.left > 1 THEN Goto("header", parser.left - 1)
     ELSE \/ ~parser.instep /\ Resync
          \/ \E n \in Lengths : IF n = 0 THEN Goto("cksum", 0) ELSE Goto("data", n)

Mr60Data ==
  /\ parser.state = "data"
  /\ IF parser.left > 1 THEN Goto("data", parser.left - 1) ELSE Goto("cksum", 0)

(* Processed or counted as an error: the next frame is looked for.         *)
Mr60Checksum == parser.state = "cksum" /\ Resync

(* Mutant: a start byte begins a frame wherever it is seen.                *)
Mr60FeedEager(b) ==
  IF b = "01" THEN parser' = [state |-> "header", left |-> 7, instep |-> at = 0]
  ELSE Mr60Search(b) \/ Mr60Header \/ Mr60Data \/ Mr60Checksum

Mr60Feed(b) == Mr60Search(b) \/ Mr60Header \/ Mr60Data \/ Mr60Checksum

-----------------------------------------------------------------------------
(* ld2410_feed_byte.                                                       *)

After == [F4 |-> "F3", F3 |-> "F2", F2 |-> "F1", F1 |-> "length_low",
          F8 |-> "F7", F7 |-> "F6", F6 |-> "F5"]

LdMark(b) ==
  /\ parser.state \in DOMAIN After
  /\ IF b # parser.state THEN Resync
     ELSE parser' = [state |-> After[b], left |-> 0,
                     instep |-> IF b = "F4" THEN at = 0 ELSE parser.instep]

LdLength ==
  \/ parser.state = "length_low" /\ Goto("length_high", 0)
  \/ /\ parser.state = "length_high"
     /\ \E n \in Lengths : IF n = 0 THEN Resync ELSE Goto("data", n)

LdData ==
  /\ parser.state = "data"
  /\ IF parser.left > 1 THEN Goto("data", parser.left - 1) ELSE Goto("F8", 0)

LdEnd == parser.state = "F5" /\ Resync

LdFeed(b) == LdMark(b) \/ LdLength \/ LdData \/ LdEnd

-----------------------------------------------------------------------------
(* The wire.                                                               *)

(* The sensor goes on to its next byte, lost is whether this one was.      *)
Sent(lost) ==
  LET ends == at + 1 = FrameSize
      good == whole /\ ~lost
      more == quiet + FrameSize
  IN  /\ at' = IF ends THEN 0 ELSE at + 1
      /\ whole' = (ends \/ good)
      /\ IF ends THEN payload' \in Payloads /\ kind' \in Kinds(payload')
                 ELSE UNCHANGED <<payload, kind>>
      /\ quiet' = IF lost THEN 0
                  ELSE IF ~ends THEN quiet
                  ELSE IF ~good \/ kind = "busy" THEN 0
                  ELSE IF more < Swallow THEN more ELSE Swallow

(* mmwave_uart_task.                                                       *)
Read ==
  /\ reads
  /\ \E b \in Bytes :
       IF type = "MR60BHA2" THEN Mr60Feed(b) ELSE LdFeed(b)
  /\ Sent(FALSE)
  /\ UNCHANGED <<type, reads>>

(* A byte finds the buffer full.  What follows is out of step.             *)
Overflow ==
  /\ reads
  /\ parser' = [parser EXCEPT !.instep = FALSE]
  /\ Sent(TRUE)
  /\ UNCHANGED <<type, reads>>

SensorNext ==
  \/ \E t \in Sensors, started \in BOOLEAN : Detect(t, started)
  \/ Read \/ Overflow

SensorSpec == SensorInit /\ [][SensorNext]_sensorVars

-----------------------------------------------------------------------------

SensorTypeOK ==
  /\ type \in Sensors \cup {"NONE"} /\ reads \in BOOLEAN
  /\ payload \in 0..256 /\ kind \in {"clean", "busy"}
  /\ at \in 0..265 /\ whole \in BOOLEAN
  /\ parser.left \in 0..256 /\ parser.instep \in BOOLEAN
  /\ quiet \in 0..265

(* Whatever was lost and whatever the parser took it for, frames that      *)
(* arrive whole, hold no start byte of their own and add up to Swallow     *)
(* bytes put it back in step: at their end it looks for the start of a     *)
(* frame.  (Frames that do hold one can keep it out of step for as long as *)
(* they come.)                                                             *)
SettlesInTime == reads /\ at = 0 /\ quiet = Swallow => parser = Searching

(* A parser that took the first byte of a frame for its start stays with   *)
(* this frame to its last byte, and no further: unless a byte of it is     *)
(* lost it neither starts again nor gives up in between, whatever the      *)
(* bytes look like, and at the next frame it is free.                      *)
FramesAreWhole ==
  [][parser.instep => IF at' = 0 THEN ~parser'.instep ELSE parser'.instep \/ ~whole']_sensorVars
=============================================================================

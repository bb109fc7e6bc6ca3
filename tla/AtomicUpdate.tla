---------------------------- MODULE AtomicUpdate ----------------------------
(***************************************************************************)
(* What an over-the-air update promises: at every moment, power failures   *)
(* included, the node would start from a complete build, and the build it  *)
(* would start changes in a single step, to one that a client holding the  *)
(* pre-shared key has sent.                                                *)
(***************************************************************************)
CONSTANT Builds

VARIABLES
  boots,   \* the build the bootloader would start now
  vouched  \* the builds an authorised client has offered so far

vars == <<boots, vouched>>

Init == boots \in Builds /\ vouched = {}

(* An offer may be a broken file: it is recorded only if it is a build.    *)
Offer ==
  /\ \E b \in Builds : vouched' = vouched \cup {b}
  /\ UNCHANGED boots

Switch ==
  /\ boots' \in vouched
  /\ UNCHANGED vouched

Next == Offer \/ Switch

Spec == Init /\ [][Next]_vars
=============================================================================

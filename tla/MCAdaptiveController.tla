------------------------ MODULE MCAdaptiveController ------------------------
(* The controller for TLC: a quiet and a busy room.                        *)
EXTENDS AdaptiveController
QuietAndBusy == {1, 60}
=============================================================================

----------------------------- MODULE MCCsiPath -----------------------------
(* The path for TLC: the CSI callback beside the timer that sends the      *)
(* packets of WASM modules.                                                *)
EXTENDS CsiPath
TwoCallers == {"csi", "wasm"}
=============================================================================

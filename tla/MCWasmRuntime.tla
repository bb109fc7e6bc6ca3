--------------------------- MODULE MCWasmRuntime ---------------------------
(* The WASM slots for TLC: every request, or uploads alone, and modules    *)
(* that may lack on_timer.                                                 *)
EXTENDS WasmRuntime
EveryRequest == {"upload", "start", "stop", "unload"}
UploadsOnly == {"upload"}
FrameOrBoth == {{"frame"}, {"frame", "timer"}}
BothFunctions == {{"frame", "timer"}}
=============================================================================

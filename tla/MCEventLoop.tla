----------------------------- MODULE MCEventLoop -----------------------------
(***************************************************************************)
(* EventLoop for TLC.  Liveness is checked, so without symmetry.           *)
(***************************************************************************)
EXTENDS EventLoop
==============================================================================

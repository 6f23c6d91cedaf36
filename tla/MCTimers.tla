------------------------------ MODULE MCTimers -------------------------------
(***************************************************************************)
(* An instance of Timers for TLC.                                          *)
(***************************************************************************)
EXTENDS Timers
==============================================================================

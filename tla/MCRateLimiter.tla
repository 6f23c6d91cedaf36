---------------------------- MODULE MCRateLimiter ----------------------------
(***************************************************************************)
(* An instance of RateLimiter for TLC: device A initiates.                 *)
(***************************************************************************)
EXTENDS RateLimiter, TLC

\* Limits the copies of TLC.
MCInitiators == {A}
==============================================================================

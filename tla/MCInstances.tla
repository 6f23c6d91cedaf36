----------------------------- MODULE MCInstances -----------------------------
(***************************************************************************)
(* An instance of Instances for TLC.                                       *)
(***************************************************************************)
EXTENDS Instances
==============================================================================

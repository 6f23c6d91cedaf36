------------------------------ MODULE MCSession ------------------------------
(***************************************************************************)
(* Session for TLC: a bitmap of three words of two bits and numbers enough *)
(* to wrap around it twice.                                                *)
(***************************************************************************)
EXTENDS Session
==============================================================================

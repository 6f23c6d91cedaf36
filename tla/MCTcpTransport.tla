--------------------------- MODULE MCTcpTransport ----------------------------
(***************************************************************************)
(* Instances of TcpTransport for TLC.                                      *)
(***************************************************************************)
EXTENDS TcpTransport, TLC

Symmetry == Permutations({A, B})
==============================================================================

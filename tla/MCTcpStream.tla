---------------------------- MODULE MCTcpStream ------------------------------
(***************************************************************************)
(* TcpStream for TLC: bytes with three values, a buffer of eight of them   *)
(* (the largest length two bytes can tell, as in the code), and packets of *)
(* one and of six bytes; six is the longest that fits.                     *)
(***************************************************************************)
EXTENDS TcpStream

ExtremePackets == {<<1>>, <<0, 1, 2, 0, 1, 2>>}
==============================================================================

------------------------------ MODULE MCDevice -------------------------------
(***************************************************************************)
(* An instance of Device for TLC: a host in a network of two.              *)
(***************************************************************************)
EXTENDS Device, TLC

MCNetworks == {{"d1"}, {"d1", "d2"}}
\* As in the control plane's requests, every peer is offered the default route.
MCOffers == {{{"d1", "d2"}}, {{"d1"}, {"d1", "d2"}}}
Symmetry == Permutations(Keys) \cup Permutations(Ports) \cup Permutations(Secrets) \cup Permutations(Addrs)
==============================================================================

----------------------------- MODULE MCSignaling -----------------------------
(***************************************************************************)
(* An instance of Signaling for TLC: a client, whose tunnel port is random, *)
(* and a server, which asks for port 1.                                    *)
(***************************************************************************)
EXTENDS Signaling

CONSTANTS client, server

MCListenPort == [h \in {client, server} |-> IF h = server THEN 1 ELSE 0]
MCConfigurations ==
    {[h \in {client, server} |-> 0],
     [h \in {client, server} |-> IF h = server THEN 1400 ELSE 0]}
MCProbedMtu == [h \in {client, server} |-> IF h = server THEN 1380 ELSE 1340]
==============================================================================

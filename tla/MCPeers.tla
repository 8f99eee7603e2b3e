------------------------------ MODULE MCPeers ------------------------------
(* Peers with two nodes, whose clocks differ by one unit of time.          *)
EXTENDS Peers, TLC

CONSTANTS n1, n2

MCOffset == (n1 :> 0) @@ (n2 :> 1)
=============================================================================

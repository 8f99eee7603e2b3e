----------------------------- MODULE MCAddHost -----------------------------
(* AddHost with one address that answers and one that does not.            *)
EXTENDS AddHost
=============================================================================

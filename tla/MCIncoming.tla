----------------------------- MODULE MCIncoming -----------------------------
(* Incoming with a query of one field and a query of two.                  *)
EXTENDS Incoming

MCQuery == {{"Status"}, {"Peers", "Scan"}}
=============================================================================

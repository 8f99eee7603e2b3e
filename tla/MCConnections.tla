--------------------------- MODULE MCConnections ---------------------------
(* Connections on small tables: addresses of which two have one port.      *)
EXTENDS Connections

CONSTANTS a1, a2, b1, p, q

MCAddr == {a1, a2, b1}
MCPortOf == [a \in MCAddr \cup {NoAddr} |-> IF a \in {a1, a2} THEN p ELSE q]

=============================================================================

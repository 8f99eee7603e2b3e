----------------------------- MODULE MCScanner -----------------------------
(* Scanner on small instances: one metric that may change its type, a few  *)
(* scans, clock adjustments, crashes and restarts.                         *)
EXTENDS Scanner

\* Both kinds of buffers, and a state.
MCTipValue ==
    {[kind |-> "integer", val |-> n] : n \in 0..1}
    \cup {[kind |-> "float", val |-> 1], [kind |-> "state", val |-> 1]}

=============================================================================

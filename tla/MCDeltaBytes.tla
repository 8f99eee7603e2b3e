---------------------------- MODULE MCDeltaBytes ----------------------------
(* An i64 of eight bits, two low bits in a byte: runs longer than three,   *)
(* differences of one, two and three bytes, and one that does not fit.     *)
EXTENDS DeltaBytes

MCNumber == {-100, 0, 5, 100}

=============================================================================

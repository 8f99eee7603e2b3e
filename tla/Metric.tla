------------------------------- MODULE Metric -------------------------------
(***************************************************************************)
(* One counter or integer of a backlog by itself, as module Backlog tells  *)
(* of it: its buffer is a sequence of differences and gaps.  This is what  *)
(* a DeltaBuf promises; DeltaBytes has the bytes that keep the promise.    *)
(***************************************************************************)
EXTENDS Backlog

CONSTANTS
    IntKind,       \* "counter" (u64) or "integer" (i64)
    Number,        \* the numbers a scan may read
    MaxDifference, \* the largest difference the type of the metric holds
    MaxAge         \* bound of the model: how many scans there are

VARIABLES
    now,   \* the age of the backlog
    kept,  \* how many scans the backlog keeps
    value  \* the Value of the metric, or NoValue

vars == <<now, kept, value>>

Init == now = 0 /\ kept = 0 /\ value = NoValue

\* A scan without the metric.
Miss ==
    /\ now < MaxAge
    /\ now' = now + 1 /\ kept' = kept + 1
    /\ UNCHANGED value

\* A scan that sees the metric for the first time, or for the first time
\* since it was dropped.
First(n) ==
    /\ now < MaxAge /\ value = NoValue
    /\ now' = now + 1 /\ kept' = kept + 1
    /\ value' = NewValue([kind |-> IntKind, val |-> n], now + 1)

\* A later one.  A difference the type cannot hold is lost: something is
\* written in its place, and nothing else of the history changes.
Later(n) ==
    /\ now < MaxAge /\ value # NoValue
    /\ now' = now + 1 /\ kept' = kept + 1
    /\ LET exact == InnerPush(value, n, now + 1)
           fits  == IF n >= value.tip THEN n - value.tip <= MaxDifference
                                      ELSE value.tip - n <= MaxDifference
       IN  /\ value' = [exact EXCEPT !.buf = value'.buf]
           /\ Len(value'.buf) = Len(exact.buf)
           /\ \A i \in 1..Len(exact.buf) :
                 (i > 1 \/ fits) => value'.buf[i] = exact.buf[i]

\* The backlog is cut to `num' scans.
Truncate(num) ==
    /\ kept' = num
    /\ value' = IF value = NoValue THEN NoValue ELSE InnerTruncate(value, now - num)
    /\ UNCHANGED now

Next ==
    \/ Miss
    \/ \E n \in Number : First(n) \/ Later(n)
    \/ \E num \in 0 .. kept - 1 : Truncate(num)

Spec == Init /\ [][Next]_vars

=============================================================================

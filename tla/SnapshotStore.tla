--------------------------- MODULE SnapshotStore ---------------------------
(***************************************************************************)
(* What the storage thread promises to the scan thread and to the next     *)
(* start of the process: a register.  A history handed over replaces the   *)
(* one that still waits; it is written as a whole or not at all; the       *)
(* history that is read back is one that was handed over, and never an     *)
(* older one than was there before.  It is lost only when it is more than  *)
(* KeepHours old.                                                          *)
(***************************************************************************)
EXTENDS Naturals

CONSTANTS Nothing, KeepHours

VARIABLES
    hour,     \* the time
    pending,  \* the history handed over last, if it waits
    writing,  \* the history that is being written
    stored    \* the history a restart would read

vars == <<hour, pending, writing, stored>>

\* Histories are numbered in the order in which they are handed over.
Buffer == [data : Nat, hour : Nat]

Init ==
    /\ hour \in Nat
    /\ pending = Nothing /\ writing = Nothing /\ stored = Nothing

HandOver ==
    /\ pending' \in Buffer /\ pending'.hour = hour
    /\ \A old \in {pending, writing, stored} \ {Nothing} : old.data < pending'.data
    /\ UNCHANGED <<hour, writing, stored>>

Begin ==
    /\ pending # Nothing /\ writing = Nothing
    /\ writing' = pending /\ pending' = Nothing
    /\ UNCHANGED <<hour, stored>>

Commit ==
    /\ writing # Nothing
    /\ stored' = writing /\ writing' = Nothing
    /\ UNCHANGED <<hour, pending>>

GiveUp ==
    /\ writing' = Nothing
    /\ UNCHANGED <<hour, pending, stored>>

Crash ==
    /\ pending' = Nothing /\ writing' = Nothing
    /\ UNCHANGED <<hour, stored>>

Expire ==
    /\ stored # Nothing /\ stored.hour + KeepHours < hour
    /\ stored' = Nothing
    /\ UNCHANGED <<hour, pending, writing>>

Pass ==
    /\ hour' \in Nat /\ hour' > hour
    /\ UNCHANGED <<pending, writing, stored>>

Next == HandOver \/ Begin \/ Commit \/ GiveUp \/ Crash \/ Expire \/ Pass

Spec == Init /\ [][Next]_vars

=============================================================================

----------------------------- MODULE DeltaBytes -----------------------------
(***************************************************************************)
(* The bytes of a DeltaBuf (cantal_history/src/deltabuf.rs) under the      *)
(* counters and integers of a backlog (Inner of backlog.rs).               *)
(*                                                                         *)
(* The deque of bytes is read from its front, the newest difference first. *)
(* A byte is one of                                                        *)
(*                                                                         *)
(*   1 c..c       CONTINUATION_BIT and seven bits of a large difference,   *)
(*   0 1 1 n..n   SKIP_BITS, n gaps,                                       *)
(*   0 1 0 n..n   ZERO_BITS, n differences of zero,                        *)
(*   0 0 s d..d   SIGN_BIT s and the lowest five bits of a difference      *)
(*                                                                         *)
(* A difference is its continuation bytes, the highest first, and then     *)
(* its first byte.  Arithmetic is that of a release build: it wraps around *)
(* in the bits of the type.  Nothing here depends on there being five bits *)
(* or 64: the powers of two are constants.                                 *)
(***************************************************************************)
EXTENDS Integers, Sequences

CONSTANTS
    SIGN_BIT, \* 2 to the FIRST_BYTE_SHIFT: 32 in the code
    Half,     \* half as many as there are numbers of the type: 2 to the 63rd
    IntKind,  \* "counter" (u64) or "integer" (i64)
    Number,   \* the numbers a scan may read
    MaxAge,   \* bound of the model: how many scans there are
    NoValue,
    Gap

Types == {"counter", "integer"}

\* The numbers of a u64, and of an i64.
Unsigned == 0 .. 2 * Half - 1
Signed   == -Half .. Half - 1

\* The largest of the numbers of the metric.
Largest == IF IntKind = "counter" THEN 2 * Half - 1 ELSE Half - 1

SPECIAL_BIT      == 2 * SIGN_BIT
CONTINUATION_BIT == 4 * SIGN_BIT
SPECIAL_MASK     == SIGN_BIT - 1    \* and FIRST_BYTE_MASK
SKIP_BITS        == SPECIAL_BIT + SIGN_BIT
ZERO_BITS        == SPECIAL_BIT
Byte             == 0 .. 2 * CONTINUATION_BIT - 1

ASSUME BytesAssumption ==
    /\ SIGN_BIT \in Nat \ {0, 1} /\ Half \in Nat \ {0} /\ MaxAge \in Nat
    /\ IntKind \in Types
    /\ Number \subseteq IF IntKind = "counter" THEN Unsigned ELSE Signed
    /\ Gap \notin Int
    /\ NoValue \notin [tip : Int, age : Nat, deque : Seq(Byte)]
    /\ NoValue \notin [kind : Types, tip : Int, age : Nat, buf : Seq(Int \cup {Gap})]

VARIABLES
    now,   \* the age of the backlog
    kept,  \* how many scans the backlog keeps
    inner  \* the Inner of the metric [tip, age, deque], or NoValue

vars == <<now, kept, inner>>

\* byte & SPECIAL_MASK, byte & SPECIAL_BITS, byte & SPECIAL_BIT # 0 ..
Low(byte)       == byte % SIGN_BIT
High(byte)      == byte - Low(byte)
Continues(byte) == byte >= CONTINUATION_BIT
Special(byte)   == (byte \div SPECIAL_BIT) % 2 = 1
Payload(byte)   == byte % CONTINUATION_BIT    \* byte & CONTINUATION_MASK

\* What the type makes of the result of a subtraction.
Wrapped(n) ==
    IF IntKind = "counter"
    THEN n % (2 * Half)
    ELSE ((n + Half) % (2 * Half)) - Half

-----------------------------------------------------------------------------
(* DeltaBuf::push                                                          *)

\* `count' gaps: as many full bytes as there are, what is left in front.
SkipBytes(count) ==
    LET rest == count % SPECIAL_MASK
    IN  (IF rest = 0 THEN << >> ELSE <<SKIP_BITS + rest>>)
        \o [i \in 1..(count \div SPECIAL_MASK) |-> SKIP_BITS + SPECIAL_MASK]

\* What is left of a number when i bytes are taken off it, seven bits each.
Rest(number) ==
    LET rest[i \in 0..number] ==
            IF i = 0 THEN number ELSE rest[i - 1] \div CONTINUATION_BIT
    IN  rest

\* The part of a difference that did not go into its first byte: each byte is
\* put in front of the ones before.  Nothing if the subtraction overflowed and
\* the part is negative.
ContinuationBytes(part) ==
    LET rest   == Rest(part)
        length == CHOOSE i \in 0..part : rest[i] = 0 /\ \A j \in 0 .. i - 1 : rest[j] # 0
    IN  IF part <= 0 THEN << >>
        ELSE [i \in 1..length |-> CONTINUATION_BIT + Payload(rest[length - i])]

\* Fault: the byte that counts zeros has no limit.
PushZeroUnlimited(deque) ==
    IF deque # << >> /\ High(deque[1]) = ZERO_BITS
    THEN [deque EXCEPT ![1] = deque[1] + 1]
    ELSE <<ZERO_BITS + 1>> \o deque

PushZero(deque) ==
    IF deque # << >> /\ High(deque[1]) = ZERO_BITS /\ Low(deque[1]) < SPECIAL_MASK
    THEN [deque EXCEPT ![1] = deque[1] + 1]
    ELSE <<ZERO_BITS + 1>> \o deque

BytesPush(deque, old, new, ageDiff) ==
    LET skipped == SkipBytes(ageDiff - 1) \o deque
        delta   == Wrapped(IF old > new THEN old - new ELSE new - old)
        sign    == IF old > new THEN SIGN_BIT ELSE 0
    IN  IF ageDiff = 0 THEN deque
        ELSE IF delta = 0 THEN PushZero(skipped)
        ELSE Append(ContinuationBytes(delta \div SIGN_BIT), sign + Low(delta)) \o skipped

-----------------------------------------------------------------------------
(* DeltaBuf::truncate                                                      *)

ItemsOf(byte) ==
    IF Continues(byte) THEN 0 ELSE IF Special(byte) THEN Low(byte) ELSE 1

\* How many items the first bytes hold.
CountOf(deque) ==
    LET counter[n \in 0..Len(deque)] ==
            IF n = 0 THEN 0 ELSE counter[n - 1] + ItemsOf(deque[n])
    IN  counter

\* The bytes up to the one with the item at `limit'; the count in that byte
\* is reduced by the items after it.
BytesTruncate(deque, limit) ==
    LET enough == {i \in 1..Len(deque) : CountOf(deque)[i] >= limit}
        last   == CHOOSE i \in enough : \A j \in enough : i <= j
    IN  IF limit = 0 THEN << >>
        ELSE IF enough = {} THEN deque
        ELSE [SubSeq(deque, 1, last) EXCEPT ![last] = @ - (CountOf(deque)[last] - limit)]

-----------------------------------------------------------------------------
(* DeltaIter: the differences and gaps the bytes stand for                 *)

Repeat(item, n) == [i \in 1..n |-> item]

\* The items of a byte that is behind continuation bytes for `delta'.
ItemsFrom(byte, delta) ==
    IF Special(byte)
    THEN Repeat(IF High(byte) = SKIP_BITS THEN Gap ELSE 0, Low(byte))
    ELSE LET by == Wrapped(delta * SIGN_BIT + Low(byte))
         IN  <<IF High(byte) = SIGN_BIT THEN -by ELSE by>>

\* What the continuation bytes that end at byte n add up to.
Carried(bytes) ==
    LET delta[n \in 0..Len(bytes)] ==
            IF n = 0 \/ ~Continues(bytes[n]) THEN 0
            ELSE Wrapped(delta[n - 1] * CONTINUATION_BIT + Payload(bytes[n]))
    IN  delta

\* refill_queue, and next until the queue is empty: the items of the first bytes.
ItemsTo(bytes) ==
    LET items[n \in 0..Len(bytes)] ==
            IF n = 0 THEN << >>
            ELSE IF Continues(bytes[n]) THEN items[n - 1]
            ELSE items[n - 1] \o ItemsFrom(bytes[n], Carried(bytes)[n - 1])
    IN  items

Deltas(bytes) == ItemsTo(bytes)[Len(bytes)]

-----------------------------------------------------------------------------
(* The value of the metric                                                 *)

Init == now = 0 /\ kept = 0 /\ inner = NoValue

\* A scan without the metric.
Miss ==
    /\ now < MaxAge
    /\ now' = now + 1 /\ kept' = kept + 1
    /\ UNCHANGED inner

\* A scan with it: a new Value, or Inner::push.
Scan(n) ==
    /\ now < MaxAge
    /\ now' = now + 1 /\ kept' = kept + 1
    /\ inner' = IF inner = NoValue
                THEN [tip |-> n, age |-> now + 1, deque |-> << >>]
                ELSE [tip |-> n, age |-> now + 1,
                      deque |-> BytesPush(inner.deque, inner.tip, n, (now + 1) - inner.age)]

\* The backlog is cut to `num' scans: Inner::truncate, and the tip counts as one.
Truncate(num) ==
    /\ kept' = num
    /\ LET trimAge == now - num IN
       inner' = IF inner = NoValue \/ inner.age <= trimAge
                THEN NoValue
                ELSE [inner EXCEPT !.deque =
                         BytesTruncate(inner.deque, (inner.age - trimAge) - 1)]
    /\ UNCHANGED now

Next ==
    \/ Miss
    \/ \E n \in Number : Scan(n)
    \/ \E num \in 0 .. kept - 1 : Truncate(num)

Spec == Init /\ [][Next]_vars

-----------------------------------------------------------------------------
(* Properties                                                              *)

\* The constants of Backlog that Metric does not use.
AbstractMetric == INSTANCE Metric WITH
    Key <- {}, TipValue <- {},
    MaxDifference <- Largest,
    value <- IF inner = NoValue THEN NoValue
             ELSE [kind |-> IntKind, tip |-> inner.tip, age |-> inner.age,
                   buf |-> Deltas(inner.deque)]

\* Whatever is pushed and wherever it is cut, the bytes read back are the
\* items of module Backlog: runs of zeros and gaps are counted, split and
\* shortened right, differences of any length come back whole, and one that
\* does not fit the type spoils no item but itself.
ImplementsMetric == AbstractMetric!Spec

=============================================================================

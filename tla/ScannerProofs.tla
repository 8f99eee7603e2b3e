---------------------------- MODULE ScannerProofs ----------------------------
(***************************************************************************)
(* Proofs about Scanner, for every number of metrics, every history length *)
(* and every clock.                                                        *)
(*                                                                         *)
(* IInv: the types, that no value leaves the window of its backlog, that   *)
(* the timestamps are those of the scans in order, and that the scan       *)
(* thread panics only after the clock was set back.                        *)
(*                                                                         *)
(* TInv: what every history (in memory, on its way to the disk, on the     *)
(* disk) tells of the scans it counts.  From it follow the properties of   *)
(* what the readers show; the lemmas about Push, the truncations and the   *)
(* readers that carry it come first.  From it follows, too, what queries   *)
(* and carbon make of several metrics (Series): these lemmas come last,    *)
(* behind those about sums over finite sets.                               *)
(***************************************************************************)
EXTENDS Series, FiniteSetTheorems, SequenceTheorems, WellFoundedInduction, TLAPS

-----------------------------------------------------------------------------
(* The operators of Backlog and Query                                      *)

Item == Int \cup {Gap}

\* A set of natural numbers that is not empty has a least element.
LEMMA LeastExists ==
    ASSUME NEW T \in SUBSET Nat, T # {}
    PROVE  \E x \in T : \A y \in T : x <= y
<1> DEFINE R == {ss \in Nat \X Nat : ss[1] < ss[2]}
<1>1. IsWellFoundedOn(R, Nat)
  BY NatLessThanWellFounded DEF OpToRel
<1>2. \A x, y \in Nat : <<y, x>> \notin R => x <= y
  OBVIOUS
<1> HIDE DEF R
<1>3. \E x \in T : \A y \in T : ~ (<<y, x>> \in R)
  BY <1>1, WFMin
<1> QED BY <1>2, <1>3

\* .. and a bounded one a greatest.
LEMMA GreatestExists ==
    ASSUME NEW n \in Nat, NEW T \in SUBSET (0..n), T # {}
    PROVE  \E x \in T : \A y \in T : y <= x
<1> DEFINE U == {n - x : x \in T}
<1>1. U \in SUBSET Nat /\ U # {}
  <2>1. \A x \in T : x \in 0..n
    OBVIOUS
  <2>2. PICK z \in T : TRUE
    OBVIOUS
  <2>3. \A x \in T : n - x \in Nat
    BY <2>1
  <2> QED BY <2>2, <2>3
<1>2. PICK u \in U : \A w \in U : u <= w
  BY <1>1, LeastExists
<1>3. PICK x \in T : u = n - x
  BY <1>2
<1>4. ASSUME NEW y \in T PROVE y <= x
  <2>1. n - y \in U
    OBVIOUS
  <2>2. u <= n - y
    BY <1>2, <2>1
  <2> QED BY <1>3, <2>2
<1> QED BY <1>4

\* Take keeps the first n items.
LEMMA TakeProperties ==
    ASSUME NEW S, NEW s \in Seq(S), NEW n \in Nat
    PROVE  /\ Take(s, n) \in Seq(S)
           /\ Len(Take(s, n)) = Smaller(n, Len(s))
           /\ \A i \in 1..Len(Take(s, n)) : Take(s, n)[i] = s[i]
<1> DEFINE m == Smaller(n, Len(s))
<1>1. m \in Nat /\ m <= Len(s)
  BY DEF Smaller
<1>2. \A i \in 1..m : s[i] \in S
  BY <1>1
<1>3. /\ SubSeq(s, 1, m) \in Seq(S)
      /\ Len(SubSeq(s, 1, m)) = IF 1 <= m THEN m - 1 + 1 ELSE 0
      /\ \A i \in 1 .. m - 1 + 1 : SubSeq(s, 1, m)[i] = s[1 + i - 1]
  <2> HIDE DEF m
  <2> QED BY <1>1, <1>2, SubSeqProperties
<1> QED
  BY <1>1, <1>3 DEF Take

\* A run of gaps is a buffer of its length.
LEMMA GapsProperties ==
    ASSUME NEW n \in Nat
    PROVE  Gaps(n) \in Seq(Item) /\ Len(Gaps(n)) = n
BY DEF Gaps, Item

\* Both kinds of buffer grow by the number of scans since the last sample.
LEMMA DeltaPushProperties ==
    ASSUME NEW buf \in Seq(Item), NEW old \in Int, NEW new \in Int,
           NEW d \in Nat \ {0}
    PROVE  /\ DeltaPush(buf, old, new, d) \in Seq(Item)
           /\ Len(DeltaPush(buf, old, new, d)) = d + Len(buf)
<1>1. d - 1 \in Nat /\ new - old \in Item
  BY DEF Item
<1>2. Gaps(d - 1) \in Seq(Item) /\ Len(Gaps(d - 1)) = d - 1
  BY <1>1, GapsProperties
<1>3. <<new - old>> \in Seq(Item) /\ Len(<<new - old>>) = 1
  BY <1>1
<1>4. /\ <<new - old>> \o Gaps(d - 1) \in Seq(Item)
      /\ Len(<<new - old>> \o Gaps(d - 1)) = 1 + (d - 1)
  BY <1>2, <1>3, ConcatProperties
<1>5. /\ (<<new - old>> \o Gaps(d - 1)) \o buf \in Seq(Item)
      /\ Len((<<new - old>> \o Gaps(d - 1)) \o buf) = 1 + (d - 1) + Len(buf)
  BY <1>4, ConcatProperties
<1>6. DeltaPush(buf, old, new, d) = (<<new - old>> \o Gaps(d - 1)) \o buf
  BY DEF DeltaPush
<1>7. Len(buf) \in Nat
  OBVIOUS
<1> QED
  BY <1>5, <1>6, <1>7

LEMMA FloatPushProperties ==
    ASSUME NEW buf \in Seq(Item), NEW old \in Int, NEW d \in Nat \ {0}
    PROVE  /\ FloatPush(buf, old, d) \in Seq(Item)
           /\ Len(FloatPush(buf, old, d)) = d + Len(buf)
<1>1. d - 1 \in Nat /\ old \in Item
  BY DEF Item
<1>2. Gaps(d - 1) \in Seq(Item) /\ Len(Gaps(d - 1)) = d - 1
  BY <1>1, GapsProperties
<1>3. <<old>> \in Seq(Item) /\ Len(<<old>>) = 1
  BY <1>1
<1>4. /\ Gaps(d - 1) \o <<old>> \in Seq(Item)
      /\ Len(Gaps(d - 1) \o <<old>>) = (d - 1) + 1
  BY <1>2, <1>3, ConcatProperties
<1>5. /\ (Gaps(d - 1) \o <<old>>) \o buf \in Seq(Item)
      /\ Len((Gaps(d - 1) \o <<old>>) \o buf) = (d - 1) + 1 + Len(buf)
  <2> DEFINE front == Gaps(d - 1) \o <<old>>
  <2>1. front \in Seq(Item) /\ Len(front) = (d - 1) + 1
    BY <1>4
  <2> HIDE DEF front
  <2>2. front \o buf \in Seq(Item) /\ Len(front \o buf) = Len(front) + Len(buf)
    BY <2>1, ConcatProperties
  <2> QED BY <2>1, <2>2 DEF front
<1>6. Len(buf) \in Nat
  OBVIOUS
<1> QED
  BY <1>5, <1>6 DEF FloatPush

\* Inner::push: whatever the order in which the gaps are laid out, the scan
\* the oldest item stands for does not change.
LEMMA InnerPushProperties ==
    ASSUME NEW v \in Value, NEW new \in Int, NEW age \in Nat, v.age < age
    PROVE  /\ InnerPush(v, new, age) \in Value
           /\ InnerPush(v, new, age).age = age
           /\ age - Len(InnerPush(v, new, age).buf) = v.age - Len(v.buf)
<1>1. /\ v.kind \in FineKind /\ v.tip \in Int /\ v.age \in Nat
      /\ v.buf \in Seq(Item) /\ age - v.age \in Nat \ {0}
  BY DEF Value, Item
<1>2. \E buf \in Seq(Item) :
        /\ InnerPush(v, new, age) = [v EXCEPT !.tip = new, !.age = age, !.buf = buf]
        /\ Len(buf) = (age - v.age) + Len(v.buf)
  <2>1. CASE v.kind = "float"
    <3> DEFINE buf == FloatPush(v.buf, v.tip, age - v.age)
    <3>1. InnerPush(v, new, age) = [v EXCEPT !.tip = new, !.age = age, !.buf = buf]
      BY <1>1, <2>1 DEF InnerPush
    <3>2. buf \in Seq(Item) /\ Len(buf) = (age - v.age) + Len(v.buf)
      BY <1>1, FloatPushProperties
    <3> HIDE DEF buf
    <3> QED BY <3>1, <3>2
  <2>2. CASE v.kind # "float"
    <3> DEFINE buf == DeltaPush(v.buf, v.tip, new, age - v.age)
    <3>1. InnerPush(v, new, age) = [v EXCEPT !.tip = new, !.age = age, !.buf = buf]
      BY <1>1, <2>2 DEF InnerPush
    <3>2. buf \in Seq(Item) /\ Len(buf) = (age - v.age) + Len(v.buf)
      BY <1>1, DeltaPushProperties
    <3> HIDE DEF buf
    <3> QED BY <3>1, <3>2
  <2> QED BY <2>1, <2>2
<1>3. PICK buf \in Seq(Item) :
        /\ InnerPush(v, new, age) = [v EXCEPT !.tip = new, !.age = age, !.buf = buf]
        /\ Len(buf) = (age - v.age) + Len(v.buf)
  BY <1>2
<1>4. InnerPush(v, new, age) = [kind |-> v.kind, tip |-> new, age |-> age, buf |-> buf]
  BY <1>3 DEF Value
<1>5. Len(v.buf) \in Nat
  BY <1>1
<1> QED
  BY <1>1, <1>3, <1>4, <1>5 DEF Value, Item

\* Inner::truncate: a value that survives has a sample after the cut, and
\* nothing in it stands for a scan before the cut.
LEMMA InnerTruncateProperties ==
    ASSUME NEW v \in Value, NEW trim \in Nat, InnerTruncate(v, trim) # NoValue
    PROVE  /\ InnerTruncate(v, trim) \in Value
           /\ InnerTruncate(v, trim).age = v.age
           /\ trim < v.age - Len(InnerTruncate(v, trim).buf)
           /\ Len(InnerTruncate(v, trim).buf) <= Len(v.buf)
<1>1. /\ v.kind \in FineKind /\ v.tip \in Int /\ v.age \in Nat
      /\ v.buf \in Seq(Item)
  BY DEF Value, Item
<1>2. trim < v.age
  BY <1>1 DEF InnerTruncate
<1> DEFINE keep == (v.age - trim) - 1
           buf  == Take(v.buf, keep)
<1>3. keep \in Nat
  BY <1>1, <1>2
<1>4. InnerTruncate(v, trim) = [v EXCEPT !.buf = buf]
  BY <1>1, <1>2 DEF InnerTruncate
<1>5. buf \in Seq(Item) /\ Len(buf) = Smaller(keep, Len(v.buf))
  <2> HIDE DEF keep
  <2> QED BY <1>1, <1>3, TakeProperties
<1>6. Len(buf) <= keep /\ Len(buf) <= Len(v.buf)
  <2>1. Len(v.buf) \in Nat
    BY <1>1
  <2> HIDE DEF keep
  <2> QED BY <1>3, <1>5, <2>1 DEF Smaller
<1> HIDE DEF buf
<1>7. InnerTruncate(v, trim) = [kind |-> v.kind, tip |-> v.tip, age |-> v.age, buf |-> buf]
  BY <1>4 DEF Value
<1>8. Len(buf) \in Nat
  BY <1>5
<1> QED
  BY <1>1, <1>5, <1>6, <1>7, <1>8 DEF Value, Item

-----------------------------------------------------------------------------
(* The backlog                                                             *)

\* The empty backlog has nothing outside its window.
LEMMA EmptyBacklogProperties ==
    EmptyBacklog \in BacklogRecord /\ WindowOK(EmptyBacklog) /\ Descending(EmptyBacklog.timestamps)
BY DEF EmptyBacklog, BacklogRecord, WindowOK, Descending

\* What a push leaves for one key.
LEMMA PushedValue ==
    ASSUME NEW bl \in BacklogRecord, WindowOK(bl),
           NEW tv \in TipValue \cup {NoValue}, tv # NoValue => tv.kind \in FineKind,
           NEW k \in Key,
           NEW w, w # NoValue,
           w = IF tv = NoValue THEN bl.values[k]
               ELSE IF ValueAccepts(bl.values[k], tv)
                    THEN InnerPush(bl.values[k], tv.val, bl.age + 1)
                    ELSE NewValue(tv, bl.age + 1)
    PROVE  /\ w \in Value
           /\ w.age <= bl.age + 1
           /\ bl.age - Len(bl.timestamps) < w.age - Len(w.buf)
<1>1. /\ bl.age \in Nat /\ Len(bl.timestamps) \in Nat
      /\ Len(bl.timestamps) <= bl.age
      /\ bl.values[k] \in Value \cup {NoValue}
      /\ bl.values[k] # NoValue => ValueInWindow(bl, bl.values[k])
  BY DEF BacklogRecord, WindowOK
<1>2. CASE tv = NoValue
  <2>1. w \in Value /\ ValueInWindow(bl, w)
    BY <1>1, <1>2
  <2>2. w.age \in Nat
    BY <2>1 DEF Value
  <2> QED BY <1>1, <2>1, <2>2 DEF ValueInWindow
<1>3. CASE tv # NoValue /\ ValueAccepts(bl.values[k], tv)
  <2> DEFINE v == bl.values[k]
  <2>1. v \in Value /\ ValueInWindow(bl, v)
    BY <1>1, <1>3 DEF ValueAccepts
  <2>2. v.age \in Nat /\ v.age < bl.age + 1 /\ tv.val \in Int
    BY <1>1, <1>3, <2>1, TipValueAssumption DEF ValueInWindow, Value
  <2>3. w = InnerPush(v, tv.val, bl.age + 1)
    BY <1>3
  <2>4. bl.age + 1 \in Nat
    BY <1>1
  <2>5. bl.age - Len(bl.timestamps) < v.age - Len(v.buf)
    BY <2>1 DEF ValueInWindow
  <2>6. v.buf \in Seq(Item)
    BY <2>1 DEF Value, Item
  <2> HIDE DEF v
  <2> DEFINE a == bl.age + 1
             x == tv.val
  <2>7. a \in Nat /\ x \in Int /\ v.age < a /\ w = InnerPush(v, x, a)
    BY <2>2, <2>3, <2>4
  <2> HIDE DEF a, x
  <2>8. /\ w \in Value
        /\ w.age = a
        /\ a - Len(w.buf) = v.age - Len(v.buf)
    BY <2>1, <2>7, InnerPushProperties
  <2>9. w.age <= bl.age + 1
    BY <1>1, <2>8 DEF a
  <2>10. Len(w.buf) \in Nat /\ Len(v.buf) \in Nat
    BY <2>6, <2>8 DEF Value, Item
  <2>11. bl.age - Len(bl.timestamps) < w.age - Len(w.buf)
    BY <1>1, <2>2, <2>5, <2>8, <2>10
  <2> QED BY <2>8, <2>9, <2>11
<1>4. CASE tv # NoValue /\ ~ValueAccepts(bl.values[k], tv)
  <2>1. w = NewValue(tv, bl.age + 1)
    BY <1>4
  <2>2. tv.kind \in FineKind /\ tv.val \in Int
    BY <1>4, TipValueAssumption
  <2>3. w = [kind |-> tv.kind, tip |-> tv.val, age |-> bl.age + 1, buf |-> << >>]
    BY <2>1 DEF NewValue
  <2>4. /\ w.age = bl.age + 1 /\ w.buf = << >> /\ Len(w.buf) = 0
        /\ << >> \in Seq(Item) /\ bl.age + 1 \in Nat
    BY <1>1, <2>3
  <2>5. w \in Value
    <3> DEFINE kind == tv.kind
               val == tv.val
               age == bl.age + 1
               empty == << >>
    <3>1. /\ w = [kind |-> kind, tip |-> val, age |-> age, buf |-> empty]
          /\ kind \in FineKind /\ val \in Int /\ age \in Nat
          /\ empty \in Seq(Int \cup {Gap})
      BY <2>2, <2>3, <2>4
    <3> HIDE DEF kind, val, age, empty
    <3> QED BY <3>1 DEF Value
  <2> QED BY <1>1, <2>4, <2>5
<1> QED BY <1>2, <1>3, <1>4

\* Backlog::push keeps the window.
LEMMA PushProperties ==
    ASSUME NEW bl \in BacklogRecord, WindowOK(bl), NEW ts \in Nat,
           NEW sample \in Sample,
           \A k \in Key : sample[k] # NoValue => sample[k].kind \in FineKind
    PROVE  /\ Push(bl, ts, sample) \in BacklogRecord
           /\ WindowOK(Push(bl, ts, sample))
           /\ Push(bl, ts, sample).age = bl.age + 1
           /\ Push(bl, ts, sample).timestamps = <<ts>> \o bl.timestamps
<1> DEFINE new == Push(bl, ts, sample)
<1>1. /\ bl.age \in Nat /\ bl.timestamps \in Seq(Nat)
      /\ Len(bl.timestamps) \in Nat /\ Len(bl.timestamps) <= bl.age
  BY DEF BacklogRecord, WindowOK
<1>2. <<ts>> \in Seq(Nat) /\ Len(<<ts>>) = 1
  OBVIOUS
<1>3. /\ <<ts>> \o bl.timestamps \in Seq(Nat)
      /\ Len(<<ts>> \o bl.timestamps) = 1 + Len(bl.timestamps)
  BY <1>1, <1>2, ConcatProperties
<1>4. /\ new.age = bl.age + 1
      /\ new.timestamps = <<ts>> \o bl.timestamps
      /\ new.values = [k \in Key |->
            IF sample[k] = NoValue THEN bl.values[k]
            ELSE IF ValueAccepts(bl.values[k], sample[k])
                 THEN InnerPush(bl.values[k], sample[k].val, bl.age + 1)
                 ELSE NewValue(sample[k], bl.age + 1)]
  BY DEF Push
<1>5. \A k \in Key : new.values[k] # NoValue =>
        /\ new.values[k] \in Value
        /\ new.values[k].age <= bl.age + 1
        /\ bl.age - Len(bl.timestamps) < new.values[k].age - Len(new.values[k].buf)
  <2> HIDE DEF new
  <2> TAKE k \in Key
  <2> HAVE new.values[k] # NoValue
  <2>1. sample[k] \in TipValue \cup {NoValue}
    BY DEF Sample
  <2> QED BY <1>4, <2>1, PushedValue
<1>6. new = [age |-> bl.age + 1, timestamps |-> <<ts>> \o bl.timestamps,
             values |-> new.values]
  BY DEF Push
<1> HIDE DEF new
<1>7. new.values \in [Key -> Value \cup {NoValue}]
  BY <1>4, <1>5
<1>8. new \in BacklogRecord
  <2>1. bl.age + 1 \in Nat
    BY <1>1
  <2> DEFINE vals == new.values
             times == <<ts>> \o bl.timestamps
             age == bl.age + 1
  <2>2. /\ new = [age |-> age, timestamps |-> times, values |-> vals]
        /\ vals \in [Key -> Value \cup {NoValue}] /\ times \in Seq(Nat) /\ age \in Nat
    BY <1>3, <1>6, <1>7, <2>1
  <2> HIDE DEF vals, times, age
  <2> QED BY <2>2 DEF BacklogRecord
<1>9. \A k \in Key : new.values[k] # NoValue => ValueInWindow(new, new.values[k])
  <2>1. new.age = bl.age + 1 /\ Len(new.timestamps) = 1 + Len(bl.timestamps)
    BY <1>3, <1>4
  <2>2. new.age - Len(new.timestamps) = bl.age - Len(bl.timestamps)
    BY <1>1, <2>1
  <2> QED BY <1>5, <2>1, <2>2 DEF ValueInWindow
<1>10. WindowOK(new)
  BY <1>1, <1>3, <1>4, <1>9 DEF WindowOK
<1> QED
  BY <1>4, <1>8, <1>10 DEF new

\* .. and, past its assertion, the order of the timestamps.
LEMMA PushDescending ==
    ASSUME NEW bl \in BacklogRecord, NEW ts \in Nat,
           Descending(bl.timestamps), Pushable(bl, ts)
    PROVE  Descending(<<ts>> \o bl.timestamps)
<1> DEFINE old == bl.timestamps
           all == <<ts>> \o old
<1>1. old \in Seq(Nat) /\ Len(old) \in Nat /\ <<ts>> \in Seq(Nat) /\ Len(<<ts>>) = 1
  BY DEF BacklogRecord
<1>2. /\ Len(all) = 1 + Len(old)
      /\ \A i \in 1 .. 1 + Len(old) : all[i] = IF i <= 1 THEN <<ts>>[i] ELSE old[i - 1]
  BY <1>1, ConcatProperties
<1>3. \A i \in 1..Len(old) : old[i] \in Nat /\ ts > old[i]
  <2> TAKE i \in 1..Len(old)
  <2>1. ts > old[1] /\ old[1] \in Nat /\ old[i] \in Nat
    BY <1>1 DEF Pushable
  <2>2. i = 1 \/ old[1] > old[i]
    BY <1>1 DEF Descending
  <2> QED BY <2>1, <2>2
<1> HIDE DEF all, old
<1>4. Descending(old)
  BY DEF old
<1>5. ASSUME NEW i \in 1..Len(all), NEW j \in 1..Len(all), i < j
      PROVE  all[i] > all[j]
  <2>1. all[j] = old[j - 1] /\ j - 1 \in 1..Len(old)
    BY <1>1, <1>2, <1>5
  <2>2. CASE i = 1
    BY <1>1, <1>2, <1>3, <2>1, <2>2
  <2>3. CASE i # 1
    <3>1. all[i] = old[i - 1] /\ i - 1 \in 1..Len(old) /\ i - 1 < j - 1
      BY <1>1, <1>2, <1>5, <2>3
    <3> QED BY <1>4, <2>1, <3>1 DEF Descending
  <2> QED BY <2>2, <2>3
<1>6. Descending(all)
  BY <1>5 DEF Descending
<1> QED BY <1>6 DEF all, old

\* Backlog::truncate_by_num, for a number of scans the backlog has.
LEMMA TruncateByNumProperties ==
    ASSUME NEW bl \in BacklogRecord, WindowOK(bl), Descending(bl.timestamps),
           NEW idx \in 0..Len(bl.timestamps)
    PROVE  /\ TruncateByNum(bl, idx) \in BacklogRecord
           /\ WindowOK(TruncateByNum(bl, idx))
           /\ Descending(TruncateByNum(bl, idx).timestamps)
           /\ TruncateByNum(bl, idx).age = bl.age
           /\ TruncateByNum(bl, idx).timestamps = Take(bl.timestamps, idx)
<1> DEFINE new == TruncateByNum(bl, idx)
<1>1. /\ bl.age \in Nat /\ bl.timestamps \in Seq(Nat) /\ Len(bl.timestamps) \in Nat
      /\ Len(bl.timestamps) <= bl.age /\ idx \in Nat /\ idx <= bl.age
  BY DEF BacklogRecord, WindowOK
<1>2. Monus(bl.age, idx) = bl.age - idx /\ bl.age - idx \in Nat
  BY <1>1 DEF Monus
<1>3. /\ new.age = bl.age
      /\ new.timestamps = Take(bl.timestamps, idx)
      /\ new.values = [k \in Key |->
            IF bl.values[k] = NoValue THEN NoValue
            ELSE InnerTruncate(bl.values[k], bl.age - idx)]
      /\ new = [age |-> new.age, timestamps |-> new.timestamps, values |-> new.values]
  BY <1>2 DEF TruncateByNum
<1> HIDE DEF new
<1>4. /\ Take(bl.timestamps, idx) \in Seq(Nat)
      /\ Len(Take(bl.timestamps, idx)) = idx
      /\ \A i \in 1..idx : Take(bl.timestamps, idx)[i] = bl.timestamps[i]
  BY <1>1, TakeProperties DEF Smaller
<1>5. \A k \in Key : new.values[k] # NoValue =>
        /\ new.values[k] \in Value
        /\ new.values[k].age <= bl.age
        /\ bl.age - idx < new.values[k].age - Len(new.values[k].buf)
  <2> TAKE k \in Key
  <2> HAVE new.values[k] # NoValue
  <2>1. bl.values[k] # NoValue /\ bl.values[k] \in Value
    BY <1>3 DEF BacklogRecord
  <2>2. new.values[k] = InnerTruncate(bl.values[k], bl.age - idx)
    BY <1>3, <2>1
  <2>3. /\ new.values[k] \in Value
        /\ new.values[k].age = bl.values[k].age
        /\ bl.age - idx < bl.values[k].age - Len(new.values[k].buf)
    BY <1>2, <2>1, <2>2, InnerTruncateProperties
  <2>4. bl.values[k].age <= bl.age
    BY <2>1 DEF WindowOK, ValueInWindow
  <2> QED BY <2>3, <2>4
<1>6. new.values \in [Key -> Value \cup {NoValue}]
  BY <1>3, <1>5
<1>7. new \in BacklogRecord
  BY <1>1, <1>3, <1>4, <1>6 DEF BacklogRecord
<1>8. \A k \in Key : new.values[k] # NoValue => ValueInWindow(new, new.values[k])
  BY <1>1, <1>3, <1>4, <1>5 DEF ValueInWindow
<1>9. WindowOK(new)
  BY <1>1, <1>3, <1>4, <1>8 DEF WindowOK
<1>10. Descending(new.timestamps)
  <2>1. Len(new.timestamps) = idx
        /\ \A i \in 1..idx : new.timestamps[i] = bl.timestamps[i]
    BY <1>3, <1>4
  <2>2. \A i \in 1..idx : i \in 1..Len(bl.timestamps)
    BY <1>1
  <2> QED BY <2>1, <2>2 DEF Descending
<1> QED BY <1>3, <1>7, <1>9, <1>10 DEF new

\* Backlog::truncate_by_time is a truncation to some number of scans, and
\* leaves nothing older than its argument.
LEMMA TruncateByTimeProperties ==
    ASSUME NEW bl \in BacklogRecord, WindowOK(bl), Descending(bl.timestamps),
           NEW ts \in Int
    PROVE  /\ TruncateByTime(bl, ts) \in BacklogRecord
           /\ WindowOK(TruncateByTime(bl, ts))
           /\ Descending(TruncateByTime(bl, ts).timestamps)
           /\ TruncateByTime(bl, ts).age = bl.age
           /\ Len(TruncateByTime(bl, ts).timestamps) <= Len(bl.timestamps)
           /\ \A i \in 1..Len(TruncateByTime(bl, ts).timestamps) :
                 /\ TruncateByTime(bl, ts).timestamps[i] = bl.timestamps[i]
                 /\ TruncateByTime(bl, ts).timestamps[i] >= ts
<1> DEFINE older == {i \in 1..Len(bl.timestamps) : bl.timestamps[i] < ts}
           first == CHOOSE i \in older : \A j \in older : i <= j
<1>1. bl.timestamps \in Seq(Nat) /\ Len(bl.timestamps) \in Nat
  BY DEF BacklogRecord
<1>2. CASE older = {}
  <2>1. TruncateByTime(bl, ts) = bl
    BY <1>2 DEF TruncateByTime
  <2>2. \A i \in 1..Len(bl.timestamps) : bl.timestamps[i] >= ts
    BY <1>1, <1>2
  <2> QED BY <1>1, <2>1, <2>2
<1>3. CASE older # {}
  <2>1. older \subseteq Nat
    OBVIOUS
  <2>2. \E i \in older : \A j \in older : i <= j
    <3> HIDE DEF older
    <3> QED BY <1>3, <2>1, LeastExists
  <2>3. first \in older /\ \A j \in older : first <= j
    <3> HIDE DEF older
    <3> QED BY <2>2
  <2>4. first \in 1..Len(bl.timestamps) /\ first - 1 \in 0..Len(bl.timestamps)
    <3>1. first \in older => first \in 1..Len(bl.timestamps)
      <4> HIDE DEF first
      <4> QED OBVIOUS
    <3>2. first \in 1..Len(bl.timestamps)
      BY <2>3, <3>1
    <3> HIDE DEF first, older
    <3> QED BY <1>1, <3>2
  <2>5. TruncateByTime(bl, ts) = TruncateByNum(bl, first - 1)
    BY <1>3 DEF TruncateByTime
  <2> HIDE DEF first
  <2>6. \A i \in 1 .. first - 1 : bl.timestamps[i] >= ts
    <3> TAKE i \in 1 .. first - 1
    <3>1. i \in 1..Len(bl.timestamps) /\ ~ (first <= i) /\ bl.timestamps[i] \in Nat
      BY <1>1, <2>4
    <3>2. i \notin older
      BY <2>3, <3>1
    <3> QED BY <3>1, <3>2
  <2> HIDE DEF older
  <2>7. /\ Len(Take(bl.timestamps, first - 1)) = first - 1
        /\ \A i \in 1 .. first - 1 : Take(bl.timestamps, first - 1)[i] = bl.timestamps[i]
    <3> DEFINE n == first - 1
    <3>1. n \in Nat /\ Smaller(n, Len(bl.timestamps)) = n
      BY <1>1, <2>4 DEF Smaller
    <3> HIDE DEF n
    <3>2. /\ Len(Take(bl.timestamps, n)) = n
          /\ \A i \in 1 .. n : Take(bl.timestamps, n)[i] = bl.timestamps[i]
      BY <1>1, <3>1, TakeProperties
    <3> QED BY <3>2 DEF n
  <2> DEFINE n == first - 1
             cut == TruncateByNum(bl, n)
  <2>8. n \in 0..Len(bl.timestamps) /\ n <= Len(bl.timestamps)
    BY <1>1, <2>4
  <2> HIDE DEF n
  <2>9. /\ cut \in BacklogRecord /\ WindowOK(cut) /\ Descending(cut.timestamps)
        /\ cut.age = bl.age
        /\ cut.timestamps = Take(bl.timestamps, n)
    BY <2>8, TruncateByNumProperties
  <2> HIDE DEF cut
  <2>10. TruncateByTime(bl, ts) = cut
    BY <2>5 DEF n, cut
  <2>11. /\ Len(cut.timestamps) = n
         /\ \A i \in 1..n : cut.timestamps[i] = bl.timestamps[i] /\ bl.timestamps[i] >= ts
    BY <2>6, <2>7, <2>9 DEF n
  <2>12. /\ Len(cut.timestamps) <= Len(bl.timestamps)
         /\ \A i \in 1..Len(cut.timestamps) :
               cut.timestamps[i] = bl.timestamps[i] /\ cut.timestamps[i] >= ts
    BY <2>8, <2>11
  <2> QED BY <2>9, <2>10, <2>12
<1> QED BY <1>2, <1>3

-----------------------------------------------------------------------------
(* All that is wanted of a backlog at once.                                *)

Good(bl) == bl \in BacklogRecord /\ WindowOK(bl) /\ Descending(bl.timestamps)

LEMMA EmptyGood == Good(EmptyBacklog) /\ EmptyBacklog.age = 0 /\ EmptyBacklog.timestamps = << >>
BY EmptyBacklogProperties DEF Good, EmptyBacklog

LEMMA PushGood ==
    ASSUME NEW bl, Good(bl), NEW ts \in Nat, Pushable(bl, ts), NEW sample \in Sample,
           \A k \in Key : sample[k] # NoValue => sample[k].kind \in FineKind
    PROVE  /\ Good(Push(bl, ts, sample))
           /\ Push(bl, ts, sample).age = bl.age + 1
           /\ Push(bl, ts, sample).timestamps = <<ts>> \o bl.timestamps
BY PushProperties, PushDescending DEF Good

LEMMA TruncateGood ==
    ASSUME NEW bl, Good(bl), NEW ts \in Int
    PROVE  /\ Good(TruncateByTime(bl, ts))
           /\ TruncateByTime(bl, ts).age = bl.age
           /\ Len(TruncateByTime(bl, ts).timestamps) <= Len(bl.timestamps)
           /\ \A i \in 1..Len(TruncateByTime(bl, ts).timestamps) :
                 /\ TruncateByTime(bl, ts).timestamps[i] = bl.timestamps[i]
                 /\ TruncateByTime(bl, ts).timestamps[i] >= ts
BY TruncateByTimeProperties DEF Good

-----------------------------------------------------------------------------
(* What a history tells: one metric                                        *)

Scan == [at : Nat, sample : Sample]

\* A value of a backlog of that age, all of whose items are about a scan.
Fits(v, age) == v \in Value /\ v.age \in 1..age /\ Len(v.buf) < v.age

LEMMA WindowFits ==
    ASSUME NEW bl \in BacklogRecord, WindowOK(bl), NEW k \in Key, bl.values[k] # NoValue
    PROVE  Fits(bl.values[k], bl.age)
<1> DEFINE v == bl.values[k]
<1>1. v \in Value /\ ValueInWindow(bl, v) /\ bl.age \in Nat /\ Len(bl.timestamps) <= bl.age
      /\ Len(bl.timestamps) \in Nat
  BY DEF BacklogRecord, WindowOK
<1> HIDE DEF v
<1>2. v.age \in Nat /\ Len(v.buf) \in Nat
  BY <1>1 DEF Value
<1>3. Fits(v, bl.age)
  BY <1>1, <1>2 DEF Fits, ValueInWindow
<1> QED BY <1>3 DEF v

\* The parts of a value.
LEMMA FitsParts ==
    ASSUME NEW age \in Nat, NEW v, Fits(v, age)
    PROVE  /\ v.kind \in FineKind /\ v.tip \in Int /\ v.buf \in Seq(Item)
           /\ v.age \in Nat /\ 1 <= v.age /\ v.age <= age
           /\ Len(v.buf) \in Nat /\ Len(v.buf) < v.age
           /\ \A i \in 1..Len(v.buf) : v.buf[i] \in Int \/ v.buf[i] = Gap
BY DEF Fits, Value, Item

\* A scan saw an integer, or nothing; what does not go to the backlog is of
\* another kind.
LEMMA SampleAtType ==
    ASSUME NEW log \in Seq(Scan), NEW k \in Key, NEW kind, NEW a \in 1..Len(log)
    PROVE  /\ SampleAt(log, k, kind, a) \in Int \cup {NoValue}
           /\ kind \in FineKind /\ FinePart(log[a].sample)[k] = NoValue =>
                 SampleAt(log, k, kind, a) = NoValue
<1>1. log[a].sample[k] \in TipValue \cup {NoValue}
  <2>1. log[a] \in Scan
    <3> HIDE DEF Scan
    <3> QED OBVIOUS
  <2> QED BY <2>1 DEF Scan, Sample
<1>2. log[a].sample[k] # NoValue => log[a].sample[k].val \in Int
  BY <1>1, TipValueAssumption
<1> QED BY <1>1, <1>2 DEF SampleAt, FinePart, FineKind

\* What is told of one log is told of another with the same scans.
LEMMA ValueTellsAgree ==
    ASSUME NEW log, NEW log2, NEW k \in Key, NEW age \in Nat, NEW v, Fits(v, age),
           \A a \in 1..age : log2[a] = log[a],
           ValueTells(log, k, v, age)
    PROVE  ValueTells(log2, k, v, age)
<1>1. /\ v.age \in Nat /\ 1 <= v.age /\ v.age <= age
      /\ Len(v.buf) \in Nat /\ Len(v.buf) < v.age
  BY FitsParts
<1>2. \A kind : \A a \in 1..age : SampleAt(log2, k, kind, a) = SampleAt(log, k, kind, a)
  BY DEF SampleAt
<1>3. NewestTold(log2, k, v, age)
  <2>1. v.age \in 1..age /\ \A a \in v.age + 1 .. age : a \in 1..age
    BY <1>1
  <2> QED BY <1>2, <2>1 DEF ValueTells, NewestTold
<1>4. FloatsTold(log2, k, v)
  <2>1. \A i \in 1..Len(v.buf) : v.age - i \in 1..age
    BY <1>1
  <2> QED BY <1>2, <2>1 DEF ValueTells, FloatsTold
<1>5. RunsTold(log2, k, v)
  <2> SUFFICES ASSUME v.kind # "float", NEW n \in 1..Len(v.buf),
                      \A a \in v.age - n .. v.age : SampleAt(log2, k, v.kind, a) # NoValue
               PROVE  /\ v.buf[n] # Gap
                      /\ v.buf[n] = SampleAt(log2, k, v.kind, v.age - n + 1)
                                      - SampleAt(log2, k, v.kind, v.age - n)
    BY DEF RunsTold
  <2>1. /\ \A a \in v.age - n .. v.age : a \in 1..age
        /\ v.age - n \in 1..age /\ v.age - n + 1 \in 1..age
    BY <1>1
  <2>2. \A a \in v.age - n .. v.age : SampleAt(log, k, v.kind, a) # NoValue
    BY <1>2, <2>1
  <2> QED BY <1>2, <2>1, <2>2 DEF ValueTells, RunsTold
<1>6. OrderTold(log2, k, v)
  <2> SUFFICES ASSUME v.kind # "float" PROVE OrderTold(log2, k, v)
    BY DEF OrderTold
  <2>1. PICK src \in [SamplePlaces(v.buf) -> 1..v.age] :
            /\ Sources(log, k, v, src)
            /\ \A i, j \in SamplePlaces(v.buf) :
                  Neighbours(v.buf, i, j) =>
                      v.buf[j] = SampleAt(log, k, v.kind, src[i]) - SampleAt(log, k, v.kind, src[j])
    BY DEF ValueTells, OrderTold
  <2>2. \A i \in SamplePlaces(v.buf) : /\ src[i] \in 1..age
                                       /\ \A a \in src[i]..v.age : a \in 1..age
    BY <1>1, <2>1
  <2>3. Sources(log2, k, v, src)
    BY <1>2, <2>1, <2>2 DEF Sources
  <2> QED BY <1>2, <2>1, <2>2, <2>3 DEF OrderTold
<1>7. StartTold(log2, k, v)
  <2>1. \A a \in 1 .. v.age - Len(v.buf) : a \in 1..age
    BY <1>1
  <2> QED BY <1>2, <2>1 DEF ValueTells, StartTold
<1> QED BY <1>3, <1>4, <1>5, <1>6, <1>7 DEF ValueTells

-----------------------------------------------------------------------------
(* The places of the items after a push and after a truncation             *)

\* The items of two buffers one after the other.
LEMMA Joined ==
    ASSUME NEW s \in Seq(Item), NEW t \in Seq(Item), NEW n \in Nat, Len(s) = n
    PROVE  /\ s \o t \in Seq(Item) /\ Len(s \o t) = n + Len(t)
           /\ \A i \in 1..n : (s \o t)[i] = s[i]
           /\ \A i \in 1..Len(t) : (s \o t)[i + n] = t[i]
<1>1. /\ s \o t \in Seq(Item) /\ Len(s \o t) = Len(s) + Len(t)
      /\ \A i \in 1 .. Len(s) + Len(t) : (s \o t)[i] = IF i <= Len(s) THEN s[i] ELSE t[i - Len(s)]
  BY ConcatProperties
<1>2. Len(t) \in Nat
  OBVIOUS
<1>3. \A i \in 1..n : i \in 1 .. n + Len(t) /\ i <= n
  BY <1>2
<1>4. \A i \in 1..Len(t) : i + n \in 1 .. n + Len(t) /\ ~ (i + n <= n) /\ (i + n) - n = i
  BY <1>2
<1>5. \A i \in 1..n : (s \o t)[i] = s[i]
  BY <1>1, <1>3
<1>6. \A i \in 1..Len(t) : (s \o t)[i + n] = t[i]
  BY <1>1, <1>4
<1> QED BY <1>1, <1>5, <1>6

\* The new difference is in front, then the gaps, then what was there.
LEMMA DeltaPushItems ==
    ASSUME NEW buf \in Seq(Item), NEW old \in Int, NEW new \in Int, NEW d \in Nat \ {0}
    PROVE  /\ Len(DeltaPush(buf, old, new, d)) = d + Len(buf)
           /\ DeltaPush(buf, old, new, d)[1] = new - old
           /\ \A i \in 2..d : DeltaPush(buf, old, new, d)[i] = Gap
           /\ \A i \in 1..Len(buf) : DeltaPush(buf, old, new, d)[i + d] = buf[i]
<1> DEFINE n == d - 1
           gaps == Gaps(n)
           one == <<new - old>>
           front == one \o gaps
<1>1. n \in Nat /\ d = 1 + n
  OBVIOUS
<1>2. one \in Seq(Item) /\ Len(one) = 1 /\ one[1] = new - old
  BY DEF Item
<1>3. DeltaPush(buf, old, new, d) = front \o buf
  BY DEF DeltaPush
<1> HIDE DEF n, one
<1>4. gaps \in Seq(Item) /\ Len(gaps) = n /\ \A i \in 1..n : gaps[i] = Gap
  BY <1>1, GapsProperties DEF Gaps
<1> HIDE DEF gaps
<1>5. /\ front \in Seq(Item) /\ Len(front) = 1 + Len(gaps)
      /\ \A i \in 1..1 : front[i] = one[i]
      /\ \A i \in 1..Len(gaps) : front[i + 1] = gaps[i]
  <2> DEFINE m == 1
  <2>1. m \in Nat /\ Len(one) = m
    BY <1>2
  <2> HIDE DEF m
  <2>2. /\ front \in Seq(Item) /\ Len(front) = m + Len(gaps)
        /\ \A i \in 1..m : front[i] = one[i]
        /\ \A i \in 1..Len(gaps) : front[i + m] = gaps[i]
    BY <1>2, <1>4, <2>1, Joined
  <2> QED BY <2>2 DEF m
<1> HIDE DEF front
<1>6. /\ front \in Seq(Item) /\ Len(front) = d
      /\ front[1] = new - old /\ \A i \in 2..d : front[i] = Gap
  <2>1. \A i \in 2..d : i - 1 \in 1..n /\ (i - 1) + 1 = i
    BY <1>1
  <2>2. \A i \in 2..d : front[i] = Gap
    BY <1>4, <1>5, <2>1
  <2> QED BY <1>1, <1>2, <1>4, <1>5, <2>2
<1>7. /\ Len(front \o buf) = d + Len(buf)
      /\ \A i \in 1..d : (front \o buf)[i] = front[i]
      /\ \A i \in 1..Len(buf) : (front \o buf)[i + d] = buf[i]
  BY <1>6, Joined
<1> QED BY <1>3, <1>6, <1>7

\* The gaps are in front, then the old value, then what was there.
LEMMA FloatPushItems ==
    ASSUME NEW buf \in Seq(Item), NEW old \in Int, NEW d \in Nat \ {0}
    PROVE  /\ Len(FloatPush(buf, old, d)) = d + Len(buf)
           /\ FloatPush(buf, old, d)[d] = old
           /\ \A i \in 1 .. d - 1 : FloatPush(buf, old, d)[i] = Gap
           /\ \A i \in 1..Len(buf) : FloatPush(buf, old, d)[i + d] = buf[i]
<1> DEFINE n == d - 1
           gaps == Gaps(n)
           one == <<old>>
           front == gaps \o one
<1>1. n \in Nat /\ d = 1 + n
  OBVIOUS
<1>2. one \in Seq(Item) /\ Len(one) = 1 /\ one[1] = old
  BY DEF Item
<1>3. FloatPush(buf, old, d) = front \o buf
  BY DEF FloatPush
<1> HIDE DEF n, one
<1>4. gaps \in Seq(Item) /\ Len(gaps) = n /\ \A i \in 1..n : gaps[i] = Gap
  BY <1>1, GapsProperties DEF Gaps
<1> HIDE DEF gaps
<1>5. /\ front \in Seq(Item) /\ Len(front) = n + Len(one)
      /\ \A i \in 1..n : front[i] = gaps[i]
      /\ \A i \in 1..Len(one) : front[i + n] = one[i]
  BY <1>1, <1>2, <1>4, Joined
<1> HIDE DEF front
<1>6. /\ front \in Seq(Item) /\ Len(front) = d
      /\ front[d] = old /\ \A i \in 1..n : front[i] = Gap
  BY <1>1, <1>2, <1>4, <1>5
<1>7. /\ Len(front \o buf) = d + Len(buf)
      /\ \A i \in 1..d : (front \o buf)[i] = front[i]
      /\ \A i \in 1..Len(buf) : (front \o buf)[i + d] = buf[i]
  BY <1>6, Joined
<1> QED BY <1>1, <1>3, <1>6, <1>7 DEF n

-----------------------------------------------------------------------------
(* A scan sees the metric again                                            *)

\* A value d scans later: its parts, and where its items are.
Pushed(v, w, x, d) ==
    /\ d \in Nat \ {0}
    /\ w.kind = v.kind /\ w.tip = x /\ w.age = v.age + d
    /\ Len(w.buf) = d + Len(v.buf)
    /\ \A j \in 1..Len(v.buf) : w.buf[j + d] = v.buf[j]
    /\ v.kind = "float" => w.buf[d] = v.tip /\ \A j \in 1 .. d - 1 : w.buf[j] = Gap
    /\ v.kind # "float" => w.buf[1] = x - v.tip /\ \A j \in 2..d : w.buf[j] = Gap

LEMMA PushedParts ==
    ASSUME NEW age \in Nat, NEW v, Fits(v, age), NEW x \in Int, NEW w,
           w = InnerPush(v, x, age + 1), NEW d, d = (age + 1) - v.age
    PROVE  Fits(w, age + 1) /\ age + 1 = v.age + d /\ Pushed(v, w, x, d)
<1> DEFINE new == age + 1
<1>1. /\ v \in Value /\ v.age \in Nat /\ v.age < new /\ new \in Nat
      /\ v.tip \in Int /\ v.buf \in Seq(Item) /\ Len(v.buf) \in Nat /\ Len(v.buf) < v.age
      /\ d \in Nat \ {0} /\ new = v.age + d
  BY FitsParts DEF Fits
<1>2. w = InnerPush(v, x, new) /\ d = new - v.age
  OBVIOUS
<1> HIDE DEF new
<1>3. /\ w \in Value /\ w.age = new /\ new - Len(w.buf) = v.age - Len(v.buf)
  BY ONLY <1>1, <1>2, InnerPushProperties
<1>4. w.kind = v.kind /\ w.tip = x
      /\ w.buf = IF v.kind = "float" THEN FloatPush(v.buf, v.tip, d)
                                     ELSE DeltaPush(v.buf, v.tip, x, d)
  <2>1. ~ (new < v.age)
    BY <1>1
  <2> QED BY ONLY <1>1, <1>2, <2>1 DEF InnerPush, Value
<1>5. v.kind = "float" =>
          /\ w.buf[d] = v.tip /\ \A j \in 1 .. d - 1 : w.buf[j] = Gap
          /\ \A j \in 1..Len(v.buf) : w.buf[j + d] = v.buf[j]
  <2> DEFINE b == v.buf
             t == v.tip
  <2>1. /\ b \in Seq(Item) /\ t \in Int /\ d \in Nat \ {0}
        /\ v.kind = "float" => w.buf = FloatPush(b, t, d)
    BY <1>1, <1>4
  <2> HIDE DEF b, t
  <2> DEFINE f == FloatPush(b, t, d)
  <2>2. f[d] = t /\ (\A j \in 1 .. d - 1 : f[j] = Gap) /\ \A j \in 1..Len(b) : f[j + d] = b[j]
    <3>1. b \in Seq(Item)
      BY <2>1
    <3>2. t \in Int
      BY <2>1
    <3>3. d \in Nat \ {0}
      BY <2>1
    <3> QED BY ONLY <3>1, <3>2, <3>3, FloatPushItems
  <2> HIDE DEF f
  <2> QED BY <2>1, <2>2 DEF b, t, f
<1>6. v.kind # "float" =>
          /\ w.buf[1] = x - v.tip /\ \A j \in 2..d : w.buf[j] = Gap
          /\ \A j \in 1..Len(v.buf) : w.buf[j + d] = v.buf[j]
  BY ONLY <1>1, <1>4, DeltaPushItems
<1>7. Len(w.buf) \in Nat
  BY <1>3 DEF Value
<1>8. Len(w.buf) = d + Len(v.buf) /\ Len(w.buf) < w.age /\ w.age \in 1..new
  <2> DEFINE lv == Len(v.buf)
             lw == Len(w.buf)
             va == v.age
  <2>1. /\ lv \in Nat /\ lw \in Nat /\ va \in Nat /\ lv < va /\ new \in Nat /\ d \in Nat
        /\ new - lw = va - lv /\ new = va + d
    BY <1>1, <1>3, <1>7
  <2> HIDE DEF lv, lw, va
  <2>2. lw = d + lv /\ lw < new /\ new \in 1..new
    BY ONLY <2>1
  <2> QED BY <1>3, <2>2 DEF lv, lw
<1>9. Fits(w, new)
  BY <1>3, <1>8 DEF Fits
<1> QED BY <1>1, <1>3, <1>4, <1>5, <1>6, <1>8, <1>9 DEF new, Pushed

\* Floats stay at their places, and so do the scans that did not see them.
LEMMA PushKeepsFloats ==
    ASSUME NEW log \in Seq(Scan), NEW k \in Key, NEW age \in Nat, age + 1 <= Len(log),
           NEW v, Fits(v, age), ValueTells(log, k, v, age), NEW x \in Int, NEW w,
           NEW d, Pushed(v, w, x, d), age + 1 = v.age + d
    PROVE  FloatsTold(log, k, w)
<1> SUFFICES ASSUME w.kind = "float", NEW i \in 1..Len(w.buf)
             PROVE  SampleAt(log, k, "float", w.age - i) =
                        IF w.buf[i] = Gap THEN NoValue ELSE w.buf[i]
  BY DEF FloatsTold
<1>1. v.age \in Nat /\ Len(v.buf) \in Nat /\ v.tip \in Int /\ v.age >= 1
  BY FitsParts
<1>2. /\ d \in Nat \ {0} /\ w.kind = v.kind /\ w.age = v.age + d
      /\ Len(w.buf) = d + Len(v.buf)
      /\ \A j \in 1..Len(v.buf) : w.buf[j + d] = v.buf[j]
      /\ v.kind = "float" => w.buf[d] = v.tip /\ \A j \in 1 .. d - 1 : w.buf[j] = Gap
  BY DEF Pushed
<1>3. /\ SampleAt(log, k, "float", v.age) = v.tip
      /\ \A a \in v.age + 1 .. age : FinePart(log[a].sample)[k] = NoValue
      /\ \A j \in 1..Len(v.buf) :
            SampleAt(log, k, "float", v.age - j) = IF v.buf[j] = Gap THEN NoValue ELSE v.buf[j]
  BY <1>2 DEF ValueTells, NewestTold, FloatsTold
<1>4. i \in 1 .. d + Len(v.buf)
  BY <1>2
<1>5. CASE i = d
  <2>1. w.age - i = v.age
    BY ONLY <1>1, <1>2, <1>5
  <2>2. v.tip # Gap
    BY <1>1, AbsentAssumption
  <2> QED BY <1>2, <1>3, <1>5, <2>1, <2>2
<1>6. CASE i > d
  <2>1. i - d \in 1..Len(v.buf) /\ (i - d) + d = i /\ w.age - i = v.age - (i - d)
    BY ONLY <1>1, <1>2, <1>4, <1>6
  <2> QED BY <1>2, <1>3, <2>1
<1>7. CASE i < d
  <2> DEFINE a == w.age - i
  <2>1. i \in 1 .. d - 1
    BY ONLY <1>1, <1>2, <1>4, <1>7
  <2>2. a \in v.age + 1 .. age /\ a \in 1..Len(log)
    <3> DEFINE va == v.age
               len == Len(log)
    <3>1. len \in Nat /\ age + 1 <= len /\ age \in Nat /\ va \in Nat /\ va >= 1
      BY <1>1
    <3>2. a = (va + d) - i /\ age + 1 = va + d
      BY <1>2
    <3>3. d \in Nat /\ i \in 1 .. d - 1
      BY <1>2, <2>1
    <3> HIDE DEF a, va, len
    <3>4. a \in va + 1 .. age /\ a \in 1..len
      BY ONLY <3>1, <3>2, <3>3
    <3> QED BY <3>4 DEF va, len
  <2> HIDE DEF a
  <2>3. SampleAt(log, k, "float", a) = NoValue
    BY <1>3, <2>2, SampleAtType DEF FineKind
  <2> QED BY <1>2, <2>1, <2>3 DEF a
<1> QED BY <1>2, <1>4, <1>5, <1>6, <1>7

\* A run of samples goes on, or a new one begins.
LEMMA PushKeepsRuns ==
    ASSUME NEW log \in Seq(Scan), NEW k \in Key, NEW age \in Nat, age + 1 <= Len(log),
           NEW v, Fits(v, age), ValueTells(log, k, v, age), NEW x \in Int,
           SampleAt(log, k, v.kind, age + 1) = x,
           NEW w, NEW d, Pushed(v, w, x, d), age + 1 = v.age + d
    PROVE  RunsTold(log, k, w)
<1> DEFINE S(a) == SampleAt(log, k, w.kind, a)
<1> SUFFICES ASSUME w.kind # "float", NEW n \in 1..Len(w.buf),
                    \A a \in w.age - n .. w.age : S(a) # NoValue
             PROVE  w.buf[n] # Gap /\ w.buf[n] = S(w.age - n + 1) - S(w.age - n)
  BY DEF RunsTold
<1>1. /\ v.kind \in FineKind /\ v.tip \in Int /\ v.age \in Nat
      /\ Len(v.buf) \in Nat /\ Len(v.buf) < v.age /\ v.age <= age
  BY FitsParts
<1>2. /\ d \in Nat \ {0} /\ age + 1 = v.age + d
      /\ w.kind = v.kind /\ w.age = v.age + d
      /\ Len(w.buf) = d + Len(v.buf)
      /\ \A j \in 1..Len(v.buf) : w.buf[j + d] = v.buf[j]
      /\ v.kind # "float" => w.buf[1] = x - v.tip
  BY DEF Pushed
<1>3. n \in 1 .. d + Len(v.buf)
  BY <1>2
<1>4. d = 1
  <2> SUFFICES ASSUME d # 1 PROVE FALSE
    OBVIOUS
  <2>1. age \in w.age - n .. w.age /\ age \in v.age + 1 .. age
    BY ONLY <1>1, <1>2, <1>3, d # 1, age \in Nat
  <2>2. FinePart(log[age].sample)[k] = NoValue
    BY <2>1 DEF ValueTells, NewestTold
  <2>3. age \in 1..Len(log)
    BY <1>1
  <2>4. SampleAt(log, k, v.kind, age) = NoValue
    BY <1>1, <2>2, <2>3, SampleAtType
  <2> QED BY <1>2, <2>1, <2>4
<1>5. S(v.age) = v.tip /\ S(v.age + 1) = x
  <2>1. SampleAt(log, k, v.kind, v.age) = v.tip
    BY DEF ValueTells, NewestTold
  <2> QED BY <1>2, <1>4, <2>1
<1>6. \A m \in 1..Len(v.buf) :
          (\A a \in v.age - m .. v.age : S(a) # NoValue) =>
              v.buf[m] # Gap /\ v.buf[m] = S(v.age - m + 1) - S(v.age - m)
  BY <1>2 DEF ValueTells, RunsTold
<1> HIDE DEF S
<1>7. CASE n = 1
  <2>1. w.age - n = v.age /\ w.age - n + 1 = v.age + 1
    BY ONLY <1>1, <1>2, <1>4, <1>7
  <2>2. w.buf[1] = x - v.tip /\ x - v.tip \in Int
    BY <1>1, <1>2
  <2> QED BY <1>5, <1>7, <2>1, <2>2, AbsentAssumption
<1>8. CASE n # 1
  <2>1. PICK m \in 1..Len(v.buf) :
            /\ m + d = n /\ v.age - m = w.age - n
            /\ \A a \in v.age - m .. v.age : a \in w.age - n .. w.age
    <3> DEFINE lv == Len(v.buf)
               va == v.age
               wa == w.age
    <3>1. lv \in Nat /\ va \in Nat /\ wa = va + 1 /\ n \in 1 .. 1 + lv /\ n # 1
      BY <1>1, <1>2, <1>3, <1>4, <1>8
    <3> HIDE DEF lv, va, wa
    <3>2. /\ n - 1 \in 1..lv /\ (n - 1) + 1 = n /\ va - (n - 1) = wa - n
          /\ \A a \in va - (n - 1) .. va : a \in wa - n .. wa
      BY ONLY <3>1
    <3> QED BY <1>4, <3>2 DEF lv, va, wa
  <2>2. v.buf[m] # Gap /\ v.buf[m] = S(v.age - m + 1) - S(v.age - m)
    BY <1>6, <2>1
  <2> QED BY <1>2, <2>1, <2>2
<1> QED BY <1>7, <1>8

\* The samples of a buffer of differences: the new one and the old tip are in
\* front of those that were there.
LEMMA PushedPlaces ==
    ASSUME NEW v, v.tip \in Int, Len(v.buf) \in Nat, v.kind # "float", NEW x \in Int,
           NEW w, NEW d, Pushed(v, w, x, d)
    PROVE  /\ SamplePlaces(v.buf) \subseteq Nat /\ SamplePlaces(w.buf) \subseteq Nat
           /\ 0 \in SamplePlaces(v.buf) /\ 0 \in SamplePlaces(w.buf) /\ 1 \in SamplePlaces(w.buf)
           /\ \A p \in SamplePlaces(w.buf) \ {0, 1} :
                 /\ p > d /\ p - d \in SamplePlaces(v.buf) \ {0}
                 /\ w.buf[p] = v.buf[p - d]
           /\ \A j \in SamplePlaces(v.buf) \ {0} : j + d \in SamplePlaces(w.buf) \ {0, 1}
<1> DEFINE lv == Len(v.buf)
           lw == Len(w.buf)
<1>1. /\ lv \in Nat /\ d \in Nat \ {0} /\ lw = d + lv
      /\ \A j \in 1..lv : w.buf[j + d] = v.buf[j]
      /\ w.buf[1] = x - v.tip /\ \A j \in 2..d : w.buf[j] = Gap
  BY DEF Pushed
<1>2. /\ SamplePlaces(v.buf) = {0} \cup {i \in 1..lv : v.buf[i] # Gap}
      /\ SamplePlaces(w.buf) = {0} \cup {i \in 1..lw : w.buf[i] # Gap}
  BY DEF SamplePlaces
<1> HIDE DEF lv, lw
<1>3. SamplePlaces(v.buf) \subseteq Nat /\ SamplePlaces(w.buf) \subseteq Nat
  BY ONLY <1>1, <1>2
<1>4. 1 \in SamplePlaces(w.buf)
  <2>1. 1 \in 1..lw
    BY ONLY <1>1
  <2>2. w.buf[1] # Gap
    BY <1>1, AbsentAssumption
  <2> QED BY <1>2, <2>1, <2>2
<1>5. ASSUME NEW p \in SamplePlaces(w.buf) \ {0, 1}
      PROVE  /\ p > d /\ p - d \in SamplePlaces(v.buf) \ {0}
             /\ w.buf[p] = v.buf[p - d]
  <2>1. p \in 2 .. d + lv /\ w.buf[p] # Gap
    BY <1>1, <1>2
  <2>2. p \notin 2..d
    BY <1>1, <2>1
  <2>3. p > d /\ p - d \in 1..lv /\ (p - d) + d = p
    BY ONLY <1>1, <2>1, <2>2
  <2>4. w.buf[p] = v.buf[p - d]
    BY <1>1, <2>3
  <2> QED BY <1>2, <2>1, <2>3, <2>4
<1>6. ASSUME NEW j \in SamplePlaces(v.buf) \ {0}
      PROVE  j + d \in SamplePlaces(w.buf) \ {0, 1}
  <2>1. j \in 1..lv /\ v.buf[j] # Gap
    BY <1>2
  <2>2. j + d \in 1..lw /\ j + d > 1
    BY ONLY <1>1, <2>1
  <2> QED BY <1>1, <1>2, <2>1, <2>2
<1> QED BY <1>2, <1>3, <1>4, <1>5, <1>6

\* Between two samples there are only gaps, before the push and after it.
LEMMA PushKeepsOrder ==
    ASSUME NEW log \in Seq(Scan), NEW k \in Key, NEW age \in Nat, age + 1 <= Len(log),
           NEW v, Fits(v, age), ValueTells(log, k, v, age), NEW x \in Int,
           SampleAt(log, k, v.kind, age + 1) = x,
           NEW w, NEW d, Pushed(v, w, x, d), age + 1 = v.age + d
    PROVE  OrderTold(log, k, w)
<1> SUFFICES ASSUME w.kind # "float" PROVE OrderTold(log, k, w)
  BY DEF OrderTold
<1> DEFINE S(a) == SampleAt(log, k, v.kind, a)
           va == v.age
           P == SamplePlaces(v.buf)
           Q == SamplePlaces(w.buf)
           back == [p \in Q |-> IF p = 1 THEN 0 ELSE p - d]
           forth == [j \in P |-> IF j = 0 THEN 1 ELSE j + d]
<1>1. /\ v.kind \in FineKind /\ v.tip \in Int /\ va \in Nat /\ 1 <= va /\ va <= age
      /\ Len(v.buf) \in Nat
  BY FitsParts
<1>2. /\ d \in Nat \ {0} /\ w.kind = v.kind /\ w.tip = x /\ w.age = va + d
      /\ w.buf[1] = x - v.tip /\ v.kind # "float"
  BY DEF Pushed
<1>3. PICK src \in [P -> 1..va] :
          /\ Sources(log, k, v, src)
          /\ \A i, j \in P : Neighbours(v.buf, i, j) => v.buf[j] = S(src[i]) - S(src[j])
  BY <1>2 DEF ValueTells, OrderTold
<1>4. /\ S(va) = v.tip /\ S(age + 1) = x /\ \A a \in va + 1 .. age : S(a) = NoValue
  <2>1. S(va) = v.tip /\ \A a \in va + 1 .. age : FinePart(log[a].sample)[k] = NoValue
    BY DEF ValueTells, NewestTold
  <2>2. \A a \in va + 1 .. age : a \in 1..Len(log)
    BY <1>1
  <2> QED BY <1>1, <2>1, <2>2, SampleAtType
<1>5. /\ P \subseteq Nat /\ Q \subseteq Nat /\ 0 \in P /\ 0 \in Q /\ 1 \in Q
      /\ \A p \in Q \ {0, 1} : /\ p > d /\ p - d \in P \ {0}
                               /\ w.buf[p] = v.buf[p - d]
      /\ \A j \in P \ {0} : j + d \in Q \ {0, 1}
  BY <1>1, <1>2, PushedPlaces
<1>6. /\ src[0] = va /\ \A i \in P : S(src[i]) # NoValue
      /\ \A i, j \in P : i < j => src[j] < src[i]
      /\ \A i \in P : \A a \in src[i]..va : S(a) # NoValue => \E j \in P : j <= i /\ src[j] = a
  BY <1>3 DEF Sources
<1> DEFINE src2 == [p \in Q |-> IF p = 0 THEN age + 1 ELSE src[back[p]]]
<1>7. S(age + 1) # NoValue
  BY <1>4, AbsentAssumption
<1> HIDE DEF S, va, P, Q
<1>8. ASSUME NEW p \in Q \ {0}
      PROVE  /\ back[p] \in P /\ p >= 1 /\ src2[p] = src[back[p]] /\ src2[p] \in 1..va
             /\ p = 1 <=> back[p] = 0
             /\ p # 1 => p = back[p] + d /\ back[p] > 0
  BY ONLY <1>2, <1>3, <1>5, <1>8
<1>9. ASSUME NEW j \in P
      PROVE  /\ forth[j] \in Q \ {0} /\ src2[forth[j]] = src[j]
             /\ j = 0 => forth[j] = 1
             /\ j # 0 => forth[j] = j + d
  BY ONLY <1>2, <1>3, <1>5, <1>9
<1>10. src2[0] = age + 1 /\ src2 \in [Q -> 1 .. age + 1]
  BY ONLY age \in Nat, <1>1, <1>3, <1>5, <1>8
<1> HIDE DEF back, forth, src2
<1>11. ASSUME NEW p \in Q, NEW q \in Q, p < q PROVE src2[q] < src2[p]
  <2>1. q # 0 /\ src2[q] <= va /\ back[q] \in P
    BY ONLY <1>1, <1>5, <1>8, <1>11
  <2>2. CASE p = 0
    BY ONLY <1>1, <1>8, <1>10, <2>1, <2>2
  <2>3. CASE p # 0
    <3>1. back[p] < back[q] /\ back[p] \in P
      <4>1. /\ p \in Nat /\ q \in Nat /\ back[p] \in P /\ back[p] \in Nat /\ back[q] \in Nat
            /\ p >= 1 /\ (p = 1 => back[p] = 0) /\ (p # 1 => p = back[p] + d)
            /\ (q # 1 => q = back[q] + d /\ back[q] > 0)
        BY <1>5, <1>8, <2>1, <2>3
      <4> QED BY ONLY <1>2, <1>11, <4>1
    <3> QED BY ONLY <1>6, <1>8, <2>1, <2>3, <3>1
  <2> QED BY <2>2, <2>3
<1>12. ASSUME NEW p \in Q, NEW a \in src2[p] .. age + 1, S(a) # NoValue
       PROVE  \E q \in Q : q <= p /\ src2[q] = a
  <2>1. src2[p] \in Nat /\ a \in Nat /\ p \in Nat
    BY <1>5, <1>10
  <2>2. CASE a = age + 1
    <3>1. 0 \in Q /\ 0 <= p /\ src2[0] = a
      BY <1>5, <1>10, <2>1, <2>2
    <3> QED BY <3>1
  <2>3. CASE a # age + 1
    <3>1. a <= va
      BY ONLY <1>1, <1>4, <1>12, <2>1, <2>3, age \in Nat
    <3>2. p # 0
      BY ONLY <1>1, <1>10, <1>12, <2>1, <2>3, age \in Nat
    <3>3. back[p] \in P /\ a \in src[back[p]] .. va
      BY ONLY <1>1, <1>8, <2>1, <3>1, <3>2
    <3>4. PICK j \in P : j <= back[p] /\ src[j] = a
      BY <1>6, <1>12, <3>3
    <3>5. forth[j] \in Q /\ src2[forth[j]] = a
      BY <1>9, <3>4
    <3>6. forth[j] <= p
      <4>1. /\ back[p] \in Nat /\ j \in Nat /\ p >= 1 /\ j <= back[p]
            /\ (p = 1 => back[p] = 0) /\ (p # 1 => p = back[p] + d)
            /\ (j = 0 => forth[j] = 1) /\ (j # 0 => forth[j] = j + d)
        BY <1>5, <1>8, <1>9, <3>2, <3>3, <3>4
      <4> QED BY ONLY <1>2, <2>1, <4>1
    <3> QED BY <3>5, <3>6
  <2> QED BY <2>2, <2>3
<1>13. \A p \in Q : S(src2[p]) # NoValue
  BY <1>6, <1>7, <1>8, <1>10
<1>14. Sources(log, k, w, src2)
  BY <1>2, <1>10, <1>11, <1>12, <1>13 DEF Sources, S, Q, va
<1>15. ASSUME NEW p \in Q, NEW q \in Q, Neighbours(w.buf, p, q)
       PROVE  w.buf[q] = S(src2[p]) - S(src2[q])
  <2>1. p < q /\ q # 0 /\ \A m \in Q : m <= p \/ q <= m
    BY <1>5, <1>15 DEF Neighbours, Q
  <2>2. CASE p = 0
    <3>1. q = 1
      <4>1. q \in Nat /\ 1 \in Q
        BY <1>5
      <4> QED BY ONLY <2>1, <2>2, <4>1
    <3>2. src2[q] = va
      BY <1>6, <1>8, <3>1
    <3> QED BY <1>2, <1>4, <1>10, <2>2, <3>1, <3>2
  <2>3. CASE p # 0
    <3>1. /\ back[p] \in P /\ back[q] \in P /\ back[p] < back[q] /\ q # 1
          /\ w.buf[q] = v.buf[back[q]]
      <4>1. p \in Nat /\ q \in Nat /\ 1 <= p /\ q # 1
        BY <1>5, <2>1, <2>3
      <4>2. /\ back[p] \in P /\ back[q] \in P /\ back[p] \in Nat /\ back[q] \in Nat
            /\ (p = 1 => back[p] = 0) /\ (p # 1 => p = back[p] + d)
            /\ q = back[q] + d /\ back[q] > 0
        BY <1>5, <1>8, <2>1, <2>3, <4>1
      <4>3. back[p] < back[q] /\ q - d = back[q]
        BY ONLY <1>2, <2>1, <4>1, <4>2
      <4> QED BY <1>5, <2>1, <4>1, <4>2, <4>3
    <3>2. ASSUME NEW m \in P PROVE m <= back[p] \/ back[q] <= m
      <4>1. /\ p \in Nat /\ q \in Nat /\ m \in Nat /\ back[p] \in Nat /\ back[q] \in Nat
            /\ p >= 1 /\ (p = 1 => back[p] = 0) /\ (p # 1 => p = back[p] + d)
            /\ q = back[q] + d /\ q # 1 /\ p < q
            /\ (m = 0 => forth[m] = 1) /\ (m # 0 => forth[m] = m + d)
        BY <1>5, <1>8, <1>9, <2>1, <2>3, <3>1
      <4>2. forth[m] <= p \/ q <= forth[m]
        BY <1>9, <2>1
      <4> QED BY ONLY <1>2, <4>1, <4>2
    <3>3. Neighbours(v.buf, back[p], back[q])
      BY <3>1, <3>2 DEF Neighbours, P
    <3> QED BY <1>3, <1>8, <2>1, <2>3, <3>1, <3>3
  <2> QED BY <2>2, <2>3
<1>16. src2 \in [SamplePlaces(w.buf) -> 1..w.age]
  BY <1>2, <1>10 DEF Q, va
<1> QED BY <1>2, <1>14, <1>15, <1>16 DEF OrderTold, S, Q

\* A metric that is seen again.
LEMMA PushedTells ==
    ASSUME NEW log \in Seq(Scan), NEW k \in Key, NEW age \in Nat, age + 1 <= Len(log),
           NEW v, Fits(v, age), ValueTells(log, k, v, age), NEW x \in Int,
           SampleAt(log, k, v.kind, age + 1) = x,
           NEW w, w = InnerPush(v, x, age + 1)
    PROVE  ValueTells(log, k, w, age + 1)
<1> DEFINE d == (age + 1) - v.age
<1>1. age + 1 = v.age + d /\ Pushed(v, w, x, d)
  BY PushedParts
<1> HIDE DEF d
<1>2. FloatsTold(log, k, w)
  BY <1>1, PushKeepsFloats
<1>3. RunsTold(log, k, w)
  BY <1>1, PushKeepsRuns
<1>4. OrderTold(log, k, w)
  BY <1>1, PushKeepsOrder
<1>5. w.kind = v.kind /\ w.tip = x /\ w.age = age + 1
  BY <1>1 DEF Pushed
<1>6. NewestTold(log, k, w, age + 1)
  BY <1>5 DEF NewestTold
<1>7. StartTold(log, k, w)
  <2>1. v.age \in Nat /\ Len(v.buf) \in Nat
    BY FitsParts
  <2>2. /\ d \in Nat /\ w.kind = v.kind /\ w.age = v.age + d /\ Len(w.buf) = d + Len(v.buf)
    BY <1>1 DEF Pushed
  <2>3. w.age - Len(w.buf) = v.age - Len(v.buf)
    BY <2>1, <2>2
  <2> QED BY <2>2, <2>3 DEF ValueTells, StartTold
<1> QED BY <1>2, <1>3, <1>4, <1>6, <1>7 DEF ValueTells

\* A metric that is seen for the first time, or as another type.
LEMMA NewValueTells ==
    ASSUME NEW log \in Seq(Scan), NEW k \in Key, NEW age \in Nat, age + 1 <= Len(log),
           NEW tv \in TipValue, tv = log[age + 1].sample[k], tv.kind \in FineKind,
           NEW w, w = NewValue(tv, age + 1)
    PROVE  ValueTells(log, k, w, age + 1)
<1>1. /\ w.kind = tv.kind /\ w.tip = tv.val /\ w.age = age + 1 /\ w.buf = << >>
      /\ Len(w.buf) = 0 /\ tv.val \in Int
  BY TipValueAssumption DEF NewValue
<1>2. tv # NoValue
  BY AbsentAssumption
<1>3. SampleAt(log, k, w.kind, age + 1) = w.tip
  BY <1>1, <1>2 DEF SampleAt
<1>4. NewestTold(log, k, w, age + 1)
  BY <1>1, <1>3 DEF NewestTold
<1>5. FloatsTold(log, k, w) /\ RunsTold(log, k, w)
  BY <1>1 DEF FloatsTold, RunsTold
<1>6. SamplePlaces(w.buf) = {0}
  BY <1>1 DEF SamplePlaces
<1>7. OrderTold(log, k, w)
  <2> DEFINE src == [i \in {0} |-> age + 1]
  <2>1. src \in [{0} -> 1 .. age + 1] /\ src[0] = age + 1
    OBVIOUS
  <2> HIDE DEF src
  <2>2. SampleAt(log, k, w.kind, age + 1) # NoValue
    BY <1>1, <1>3, AbsentAssumption
  <2>3. \A a \in age + 1 .. age + 1 : a = age + 1
    OBVIOUS
  <2>4. Sources(log, k, w, src)
    BY <1>1, <1>6, <2>1, <2>2, <2>3 DEF Sources
  <2>5. \A i, j \in {0} : ~Neighbours(w.buf, i, j)
    BY DEF Neighbours
  <2> QED BY <1>1, <1>6, <2>1, <2>4, <2>5 DEF OrderTold
<1>8. StartTold(log, k, w)
  <2>1. age + 1 \in 1 .. w.age - Len(w.buf)
    BY <1>1
  <2>2. SampleAt(log, k, w.kind, age + 1) # NoValue
    BY <1>1, <1>3, AbsentAssumption
  <2> QED BY <2>1, <2>2 DEF StartTold
<1> QED BY <1>4, <1>5, <1>7, <1>8 DEF ValueTells

\* A metric that a scan did not see.
LEMMA UnseenTells ==
    ASSUME NEW log, NEW k \in Key, NEW age \in Nat, NEW v,
           ValueTells(log, k, v, age), v.age \in 1..age,
           FinePart(log[age + 1].sample)[k] = NoValue
    PROVE  ValueTells(log, k, v, age + 1)
<1>1. \A a \in v.age + 1 .. age + 1 : a = age + 1 \/ a \in v.age + 1 .. age
  OBVIOUS
<1> QED BY <1>1 DEF ValueTells, NewestTold

-----------------------------------------------------------------------------
(* The oldest items of a metric are cut                                    *)

\* A value without some of its oldest items.
ShortenedTo(v, w) ==
    /\ w.kind = v.kind /\ w.tip = v.tip /\ w.age = v.age
    /\ Len(w.buf) \in Nat /\ Len(v.buf) \in Nat /\ Len(w.buf) <= Len(v.buf)
    /\ \A i \in 1..Len(w.buf) : w.buf[i] = v.buf[i]

LEMMA TruncatedShortened ==
    ASSUME NEW v \in Value, NEW trim \in Nat, InnerTruncate(v, trim) # NoValue
    PROVE  ShortenedTo(v, InnerTruncate(v, trim))
<1> DEFINE keep == (v.age - trim) - 1
           buf == Take(v.buf, keep)
           w == InnerTruncate(v, trim)
<1>1. v.age \in Nat /\ v.buf \in Seq(Item) /\ Len(v.buf) \in Nat
  BY DEF Value, Item
<1>2. trim < v.age
  BY <1>1 DEF InnerTruncate
<1>3. keep \in Nat
  BY <1>1, <1>2
<1>4. w = [v EXCEPT !.buf = buf]
  BY <1>1, <1>2 DEF InnerTruncate
<1>5. /\ Len(buf) = Smaller(keep, Len(v.buf))
      /\ \A i \in 1..Len(buf) : buf[i] = v.buf[i]
  <2> HIDE DEF keep
  <2> QED BY <1>1, <1>3, TakeProperties
<1> HIDE DEF keep, buf, w
<1>6. w.kind = v.kind /\ w.tip = v.tip /\ w.age = v.age /\ w.buf = buf
  BY <1>4 DEF Value
<1>7. Len(buf) \in Nat /\ Len(buf) <= Len(v.buf)
  BY <1>1, <1>3, <1>5 DEF Smaller
<1>8. ShortenedTo(v, w)
  BY <1>1, <1>5, <1>6, <1>7 DEF ShortenedTo
<1> QED BY <1>8 DEF w

\* The samples that are left are the newest ones.
LEMMA ShortenedPlaces ==
    ASSUME NEW v, NEW w, ShortenedTo(v, w)
    PROVE  /\ SamplePlaces(w.buf) \subseteq SamplePlaces(v.buf)
           /\ SamplePlaces(v.buf) \subseteq Nat
           /\ \A i \in SamplePlaces(w.buf) : \A j \in SamplePlaces(v.buf) :
                 j <= i => j \in SamplePlaces(w.buf)
<1> DEFINE lv == Len(v.buf)
           lw == Len(w.buf)
<1>1. lv \in Nat /\ lw \in Nat /\ lw <= lv /\ \A i \in 1..lw : w.buf[i] = v.buf[i]
  BY DEF ShortenedTo
<1>2. /\ SamplePlaces(v.buf) = {0} \cup {i \in 1..lv : v.buf[i] # Gap}
      /\ SamplePlaces(w.buf) = {0} \cup {i \in 1..lw : w.buf[i] # Gap}
  BY DEF SamplePlaces
<1> HIDE DEF lv, lw
<1> QED BY ONLY <1>1, <1>2

LEMMA ShortenedTells ==
    ASSUME NEW log, NEW k \in Key, NEW age \in Nat, NEW v, ValueTells(log, k, v, age),
           v.age \in Nat, NEW w, ShortenedTo(v, w)
    PROVE  ValueTells(log, k, w, age)
<1> DEFINE P == SamplePlaces(v.buf)
           Q == SamplePlaces(w.buf)
<1>1. /\ w.kind = v.kind /\ w.tip = v.tip /\ w.age = v.age
      /\ \A i \in 1..Len(w.buf) : i \in 1..Len(v.buf) /\ w.buf[i] = v.buf[i]
  BY DEF ShortenedTo
<1>2. NewestTold(log, k, w, age) /\ FloatsTold(log, k, w) /\ RunsTold(log, k, w)
  BY <1>1 DEF ValueTells, NewestTold, FloatsTold, RunsTold
<1>3. /\ Q \subseteq P /\ P \subseteq Nat
      /\ \A i \in Q : \A j \in P : j <= i => j \in Q
  BY ShortenedPlaces
<1>4. ASSUME w.kind # "float" PROVE OrderTold(log, k, w)
  <2> DEFINE S(a) == SampleAt(log, k, v.kind, a)
             va == v.age
  <2>1. PICK src \in [P -> 1..va] :
            /\ Sources(log, k, v, src)
            /\ \A i, j \in P : Neighbours(v.buf, i, j) => v.buf[j] = S(src[i]) - S(src[j])
    BY <1>1, <1>4 DEF ValueTells, OrderTold
  <2>2. /\ src[0] = va /\ \A i \in P : S(src[i]) # NoValue
        /\ \A i, j \in P : i < j => src[j] < src[i]
        /\ \A i \in P : \A a \in src[i]..va : S(a) # NoValue => \E j \in P : j <= i /\ src[j] = a
    BY <2>1 DEF Sources
  <2> DEFINE src2 == [i \in Q |-> src[i]]
  <2>3. 0 \in Q
    BY DEF SamplePlaces
  <2>4. ASSUME NEW i \in Q, NEW j \in Q, Neighbours(w.buf, i, j)
        PROVE  Neighbours(v.buf, i, j)
    <3>1. i < j /\ \A m \in Q : m <= i \/ j <= m
      BY <2>4 DEF Neighbours
    <3>2. ASSUME NEW m \in P PROVE m <= i \/ j <= m
      <4>1. m \in Nat /\ i \in Nat /\ j \in Nat
        BY <1>3
      <4>2. j <= m \/ m <= j
        BY <4>1
      <4>3. m <= j => m \in Q
        BY <1>3
      <4> QED BY <3>1, <4>2, <4>3
    <3> QED BY <3>1, <3>2 DEF Neighbours
  <2> HIDE DEF P, Q, S, va
  <2>5. src2 \in [Q -> 1..va] /\ \A i \in Q : src2[i] = src[i]
    BY <1>3, <2>1
  <2> HIDE DEF src2
  <2>6. \A i \in Q : \A a \in src2[i]..va : S(a) # NoValue => \E j \in Q : j <= i /\ src2[j] = a
    BY <1>3, <2>2, <2>5
  <2>7. /\ src2[0] = va /\ \A i \in Q : S(src2[i]) # NoValue
        /\ \A i, j \in Q : i < j => src2[j] < src2[i]
    BY <1>3, <2>2, <2>3, <2>5
  <2>8. Sources(log, k, w, src2)
    BY <1>1, <2>7, <2>5, <2>6 DEF Sources, S, va, Q
  <2>9. \A i, j \in Q : Neighbours(w.buf, i, j) => w.buf[j] = S(src2[i]) - S(src2[j])
    <3> SUFFICES ASSUME NEW i \in Q, NEW j \in Q, Neighbours(w.buf, i, j)
                 PROVE  w.buf[j] = S(src2[i]) - S(src2[j])
      OBVIOUS
    <3>1. Neighbours(v.buf, i, j)
      BY <2>4
    <3>2. j \in 1..Len(w.buf)
      BY <1>3, <3>1 DEF Q, Neighbours, SamplePlaces
    <3>3. w.buf[j] = v.buf[j]
      BY <1>1, <3>2
    <3> QED BY <1>3, <2>1, <2>5, <3>1, <3>3
  <2> QED BY <1>1, <2>5, <2>8, <2>9 DEF OrderTold, S, Q, va
<1>5. OrderTold(log, k, w)
  BY <1>4 DEF OrderTold
<1>6. StartTold(log, k, w)
  <2>1. Len(w.buf) \in Nat /\ Len(v.buf) \in Nat /\ Len(w.buf) <= Len(v.buf)
    BY DEF ShortenedTo
  <2>2. \A a \in 1 .. v.age - Len(v.buf) : a \in 1 .. w.age - Len(w.buf)
    BY <1>1, <2>1
  <2> QED BY <1>1, <2>2 DEF ValueTells, StartTold
<1> QED BY <1>2, <1>5, <1>6 DEF ValueTells

-----------------------------------------------------------------------------
(* What a history tells: all metrics                                       *)

\* What is told of one log is told of another with the same scans.
LEMMA BacklogTellsAgree ==
    ASSUME NEW log, NEW log2, NEW bl, Good(bl),
           \A a \in 1..bl.age : log2[a] = log[a], BacklogTells(log, bl)
    PROVE  BacklogTells(log2, bl)
<1> SUFFICES ASSUME NEW k \in Key, bl.values[k] # NoValue
             PROVE  ValueTells(log2, k, bl.values[k], bl.age)
  BY DEF BacklogTells
<1>1. bl \in BacklogRecord /\ WindowOK(bl) /\ bl.age \in Nat
  BY DEF Good, BacklogRecord
<1>2. Fits(bl.values[k], bl.age)
  BY <1>1, WindowFits
<1>3. ValueTells(log, k, bl.values[k], bl.age)
  BY DEF BacklogTells
<1> QED BY <1>1, <1>2, <1>3, ValueTellsAgree

LEMMA EmptyTells ==
    ASSUME NEW log PROVE BacklogTells(log, EmptyBacklog)
BY DEF BacklogTells, EmptyBacklog

\* Backlog::push: every metric tells of the new scan, too.
LEMMA PushTells ==
    ASSUME NEW log \in Seq(Scan), NEW bl, Good(bl), bl.age + 1 <= Len(log),
           NEW sample \in Sample, log[bl.age + 1].sample = sample, NEW ts,
           BacklogTells(log, bl)
    PROVE  BacklogTells(log, Push(bl, ts, FinePart(sample)))
<1> DEFINE age == bl.age
           new == Push(bl, ts, FinePart(sample))
<1> SUFFICES ASSUME NEW k \in Key, new.values[k] # NoValue
             PROVE  ValueTells(log, k, new.values[k], new.age)
  BY DEF BacklogTells
<1> DEFINE tv == sample[k]
           seen == FinePart(sample)[k]
           v == bl.values[k]
           w == new.values[k]
<1>1. bl \in BacklogRecord /\ WindowOK(bl) /\ age \in Nat
  BY DEF Good, BacklogRecord
<1>2. /\ new.age = age + 1
      /\ w = IF seen = NoValue THEN v
             ELSE IF ValueAccepts(v, seen) THEN InnerPush(v, seen.val, age + 1)
                                           ELSE NewValue(seen, age + 1)
  BY DEF Push
<1>3. /\ tv \in TipValue \cup {NoValue}
      /\ seen = IF tv # NoValue /\ tv.kind # "state" THEN tv ELSE NoValue
      /\ tv = log[age + 1].sample[k]
  BY DEF FinePart, Sample
<1>4. v # NoValue => Fits(v, age) /\ ValueTells(log, k, v, age)
  BY <1>1, WindowFits DEF BacklogTells
<1>5. seen # NoValue => /\ seen = tv /\ tv \in TipValue /\ tv.kind \in FineKind
                        /\ tv.val \in Int
  BY <1>3, TipValueAssumption
<1>6. seen = FinePart(log[age + 1].sample)[k]
  OBVIOUS
<1>7. w # NoValue
  OBVIOUS
<1> HIDE DEF age, new, tv, seen, v, w
<1>8. CASE seen = NoValue
  <2>1. v # NoValue /\ w = v
    BY <1>2, <1>7, <1>8
  <2>2. v.age \in 1..age
    BY <1>4, <2>1 DEF Fits
  <2>3. ValueTells(log, k, v, age + 1)
    BY <1>1, <1>4, <1>6, <1>8, <2>1, <2>2, UnseenTells
  <2> QED BY <1>2, <2>1, <2>3 DEF w
<1>9. CASE seen # NoValue /\ ValueAccepts(v, seen)
  <2>1. v # NoValue /\ v.kind = tv.kind /\ w = InnerPush(v, tv.val, age + 1)
    BY <1>2, <1>5, <1>9 DEF ValueAccepts
  <2>2. SampleAt(log, k, v.kind, age + 1) = tv.val
    BY <1>3, <1>5, <1>9, <2>1 DEF SampleAt
  <2> DEFINE x == tv.val
  <2>3. x \in Int /\ SampleAt(log, k, v.kind, age + 1) = x /\ w = InnerPush(v, x, age + 1)
    BY <1>5, <1>9, <2>1, <2>2
  <2> HIDE DEF x
  <2>4. age + 1 <= Len(log)
    BY DEF age
  <2>5. ValueTells(log, k, w, age + 1)
    BY <1>1, <1>4, <2>1, <2>3, <2>4, PushedTells
  <2> QED BY <1>2, <2>5 DEF w
<1>10. CASE seen # NoValue /\ ~ValueAccepts(v, seen)
  <2>1. w = NewValue(tv, age + 1) /\ tv \in TipValue /\ tv.kind \in FineKind
    BY <1>2, <1>5, <1>10
  <2>2. age + 1 <= Len(log)
    BY DEF age
  <2>3. ValueTells(log, k, w, age + 1)
    BY <1>1, <1>3, <2>1, <2>2, NewValueTells
  <2> QED BY <1>2, <2>3 DEF w
<1> QED BY <1>8, <1>9, <1>10

\* Backlog::truncate_by_num.
LEMMA TruncateByNumTells ==
    ASSUME NEW log, NEW bl, Good(bl), NEW idx \in 0..Len(bl.timestamps),
           BacklogTells(log, bl)
    PROVE  BacklogTells(log, TruncateByNum(bl, idx))
<1> DEFINE new == TruncateByNum(bl, idx)
           trim == Monus(bl.age, idx)
<1> SUFFICES ASSUME NEW k \in Key, new.values[k] # NoValue
             PROVE  ValueTells(log, k, new.values[k], new.age)
  BY DEF BacklogTells
<1>1. bl.age \in Nat /\ bl.values \in [Key -> Value \cup {NoValue}] /\ idx \in Nat
  BY DEF Good, BacklogRecord
<1>2. trim \in Nat
  BY <1>1 DEF Monus
<1>3. /\ new.age = bl.age
      /\ new.values[k] = IF bl.values[k] = NoValue THEN NoValue
                         ELSE InnerTruncate(bl.values[k], trim)
  BY DEF TruncateByNum
<1> HIDE DEF new, trim
<1>4. /\ bl.values[k] \in Value /\ bl.values[k] # NoValue
      /\ new.values[k] = InnerTruncate(bl.values[k], trim)
  BY <1>1, <1>3
<1>5. ShortenedTo(bl.values[k], new.values[k])
  BY <1>2, <1>4, TruncatedShortened
<1>6. ValueTells(log, k, bl.values[k], bl.age) /\ bl.values[k].age \in Nat
  BY <1>4 DEF BacklogTells, Value
<1> QED BY <1>1, <1>3, <1>5, <1>6, ShortenedTells

\* Backlog::truncate_by_time cuts all that is older than its argument, and
\* nothing else.
LEMMA TruncateByTimeCuts ==
    ASSUME NEW bl, Good(bl), NEW ts \in Int
    PROVE  /\ \/ TruncateByTime(bl, ts) = bl
              \/ \E n \in 0..Len(bl.timestamps) :
                    TruncateByTime(bl, ts) = TruncateByNum(bl, n)
           /\ \A i \in 1..Len(bl.timestamps) :
                 bl.timestamps[i] >= ts => i <= Len(TruncateByTime(bl, ts).timestamps)
<1> DEFINE older == {i \in 1..Len(bl.timestamps) : bl.timestamps[i] < ts}
           first == CHOOSE i \in older : \A j \in older : i <= j
<1>1. /\ bl.timestamps \in Seq(Nat) /\ Len(bl.timestamps) \in Nat
      /\ bl \in BacklogRecord /\ WindowOK(bl) /\ Descending(bl.timestamps)
  BY DEF Good, BacklogRecord
<1>2. CASE older = {}
  <2>1. TruncateByTime(bl, ts) = bl
    BY <1>2 DEF TruncateByTime
  <2> QED BY <1>1, <2>1
<1>3. CASE older # {}
  <2>1. older \subseteq Nat
    OBVIOUS
  <2>2. first \in older
    <3> HIDE DEF older
    <3>1. \E i \in older : \A j \in older : i <= j
      BY <1>3, <2>1, LeastExists
    <3> QED BY <3>1
  <2>3. TruncateByTime(bl, ts) = TruncateByNum(bl, first - 1)
    BY <1>3 DEF TruncateByTime
  <2> DEFINE f == first
             n == f - 1
  <2>4. f \in older => f \in 1..Len(bl.timestamps) /\ bl.timestamps[f] < ts
    <3> HIDE DEF f
    <3> QED OBVIOUS
  <2> HIDE DEF f
  <2>5. f \in 1..Len(bl.timestamps) /\ bl.timestamps[f] < ts
    BY <2>2, <2>4 DEF f
  <2>6. n \in 0..Len(bl.timestamps) /\ n \in Nat /\ n <= Len(bl.timestamps)
    BY <1>1, <2>5
  <2>7. TruncateByTime(bl, ts) = TruncateByNum(bl, n)
    BY <2>3 DEF f
  <2>8. ASSUME NEW i \in 1..Len(bl.timestamps), bl.timestamps[i] >= ts PROVE i <= n
    <3>1. i # f /\ ~ (f < i)
      BY <1>1, <2>5, <2>8 DEF Descending
    <3> QED BY ONLY <1>1, <2>5, <3>1 DEF n
  <2> HIDE DEF n
  <2>9. Len(Take(bl.timestamps, n)) = n
    BY <1>1, <2>6, TakeProperties DEF Smaller
  <2>10. Len(TruncateByNum(bl, n).timestamps) = n
    BY <2>9 DEF TruncateByNum
  <2> QED BY <2>6, <2>7, <2>8, <2>10
<1> QED BY <1>2, <1>3

LEMMA TruncateTells ==
    ASSUME NEW log, NEW bl, Good(bl), NEW ts \in Int, BacklogTells(log, bl)
    PROVE  BacklogTells(log, TruncateByTime(bl, ts))
<1>1. CASE TruncateByTime(bl, ts) = bl
  BY <1>1
<1>2. CASE \E n \in 0..Len(bl.timestamps) : TruncateByTime(bl, ts) = TruncateByNum(bl, n)
  BY <1>2, TruncateByNumTells
<1> QED BY <1>1, <1>2, TruncateByTimeCuts

-----------------------------------------------------------------------------
(* What is kept, and for how long                                          *)

\* The timestamps of a backlog are those of the scans it counts.
Dated(log, bl) ==
    /\ bl.age <= Len(log)
    /\ \A i \in 1..Len(bl.timestamps) : bl.timestamps[i] = log[bl.age + 1 - i].at

LogOrdered(log) == \A a, b \in 1..Len(log) : a < b => log[a].at < log[b].at

LEMMA TimeKeptAgree ==
    ASSUME NEW log, NEW log2, NEW bl, Good(bl), NEW time,
           \A a \in 1..bl.age : log2[a] = log[a], TimeKept(log, bl, time)
    PROVE  TimeKept(log2, bl, time)
<1>1. bl.age \in Nat
  BY DEF Good, BacklogRecord
<1>2. \A a \in 1..bl.age : a \in 1..bl.age /\ bl.age \in 1..bl.age
  BY <1>1
<1> QED BY <1>2 DEF TimeKept

LEMMA EmptyTimeKept ==
    ASSUME NEW log, NEW time PROVE TimeKept(log, EmptyBacklog, time)
BY DEF TimeKept, EmptyBacklog

\* A later scan asks for less of the older ones.
LEMMA PushKeepsTime ==
    ASSUME NEW log \in Seq(Scan), LogOrdered(log), NEW bl, Good(bl), bl.age + 1 <= Len(log),
           NEW time \in Nat, TimeKept(log, bl, time), NEW ts, NEW sample
    PROVE  TimeKept(log, Push(bl, ts, sample), time)
<1> DEFINE age == bl.age
           len == Len(bl.timestamps)
           new == Push(bl, ts, sample)
           at(a) == log[a].at
<1>1. age \in Nat /\ len \in Nat /\ len <= age /\ age + 1 <= Len(log)
  BY DEF Good, BacklogRecord, WindowOK
<1>2. new.age = age + 1 /\ Len(new.timestamps) = len + 1
  BY DEF Push, Good, BacklogRecord
<1>3. \A a \in 1 .. age + 1 : at(a) \in Nat
  <2>1. \A a \in 1 .. age + 1 : a \in 1..Len(log)
    BY <1>1
  <2>2. \A a \in 1..Len(log) : log[a] \in Scan
    <3> HIDE DEF Scan
    <3> QED OBVIOUS
  <2> QED BY <2>1, <2>2 DEF Scan
<1>4. \A a \in 1..age : at(a) >= at(age) - time => a > age - len
  BY DEF TimeKept
<1>5. age > 0 => at(age) < at(age + 1)
  BY <1>1 DEF LogOrdered
<1> HIDE DEF age, len, at
<1>6. ASSUME NEW a \in 1 .. age + 1, at(a) >= at(age + 1) - time
      PROVE  a > (age + 1) - (len + 1)
  <2>1. CASE a = age + 1
    BY <1>1, <2>1
  <2>2. CASE a # age + 1
    <3>1. a \in 1..age /\ age > 0 /\ age \in 1 .. age + 1 /\ age + 1 \in 1 .. age + 1
      BY <1>1, <2>2
    <3>2. at(a) \in Nat /\ at(age) \in Nat /\ at(age + 1) \in Nat
      BY <1>3, <3>1
    <3>3. at(a) >= at(age) - time
      BY <1>5, <1>6, <3>1, <3>2
    <3> QED BY <1>1, <1>4, <3>1, <3>3
  <2> QED BY <2>1, <2>2
<1> QED BY <1>2, <1>6 DEF TimeKept, at

\* Only what is too old is cut.
LEMMA TruncateKeepsTime ==
    ASSUME NEW log \in Seq(Scan), NEW bl, Good(bl), Dated(log, bl),
           NEW time \in Nat, TimeKept(log, bl, time),
           NEW ts \in Int, bl.age > 0 => ts = log[bl.age].at - time
    PROVE  TimeKept(log, TruncateByTime(bl, ts), time)
<1> DEFINE age == bl.age
           len == Len(bl.timestamps)
           new == TruncateByTime(bl, ts)
           kept == Len(new.timestamps)
<1>1. /\ age \in Nat /\ len \in Nat /\ new.age = age /\ kept \in Nat
      /\ \A i \in 1..len : bl.timestamps[i] = log[age + 1 - i].at
      /\ \A i \in 1..len : bl.timestamps[i] >= ts => i <= kept
  <2>1. Good(new) /\ new.age = age
    BY TruncateGood
  <2>2. kept \in Nat
    <3> HIDE DEF new
    <3> QED BY <2>1 DEF Good, BacklogRecord
  <2>3. \A i \in 1..len : bl.timestamps[i] >= ts => i <= kept
    BY TruncateByTimeCuts
  <2>4. age \in Nat /\ len \in Nat
    BY DEF Good, BacklogRecord
  <2>5. \A i \in 1..len : bl.timestamps[i] = log[age + 1 - i].at
    BY DEF Dated
  <2> QED BY <2>1, <2>2, <2>3, <2>4, <2>5
<1> SUFFICES ASSUME NEW a \in 1..age, log[a].at >= log[age].at - time
             PROVE  a > age - kept
  BY <1>1 DEF TimeKept
<1>2. a > age - len
  BY DEF TimeKept
<1>3. age > 0
  BY <1>1
<1>4. log[a].at >= ts
  BY <1>3
<1> HIDE DEF age, len, new, kept
<1> DEFINE i == (age + 1) - a
<1>5. i \in 1..len /\ age + 1 - i = a
  BY <1>1, <1>2
<1> HIDE DEF i
<1>6. i <= kept
  BY <1>1, <1>4, <1>5
<1> QED BY <1>1, <1>5, <1>6

\* The newest scan is not too old.
LEMMA TruncateKeepsNewest ==
    ASSUME NEW bl, Good(bl), bl.timestamps # << >>, NEW ts \in Int, bl.timestamps[1] >= ts
    PROVE  TruncateByTime(bl, ts).timestamps # << >>
<1>1. 1 \in 1..Len(bl.timestamps)
  BY DEF Good, BacklogRecord
<1>2. 1 <= Len(TruncateByTime(bl, ts).timestamps)
  BY <1>1, TruncateByTimeCuts
<1> QED BY <1>2

-----------------------------------------------------------------------------
(* How far back the metrics go                                             *)

LEMMA MetricsKeptAgree ==
    ASSUME NEW log, NEW log2, NEW bl, Good(bl),
           \A a \in 1..bl.age : log2[a] = log[a], MetricsKept(log, bl)
    PROVE  MetricsKept(log2, bl)
<1> SUFFICES ASSUME NEW k \in Key, NEW a \in bl.age - Len(bl.timestamps) + 1 .. bl.age
             PROVE  SeenKept(log2, k, bl.values[k], bl.age, a)
  BY DEF MetricsKept
<1>1. bl.age \in Nat /\ Len(bl.timestamps) \in Nat /\ Len(bl.timestamps) <= bl.age
  BY DEF Good, BacklogRecord, WindowOK
<1>2. a \in a..bl.age /\ \A b \in a..bl.age : b \in 1..bl.age
  BY <1>1
<1>3. \A b \in a..bl.age : log2[b] = log[b]
  BY <1>2
<1>4. SeenKept(log, k, bl.values[k], bl.age, a)
  BY DEF MetricsKept
<1> QED BY ONLY <1>2, <1>3, <1>4 DEF SeenKept

LEMMA EmptyMetricsKept ==
    ASSUME NEW log PROVE MetricsKept(log, EmptyBacklog)
<1>1. EmptyBacklog.age = 0 /\ Len(EmptyBacklog.timestamps) = 0
  BY DEF EmptyBacklog
<1>2. \A a \in 0 - 0 + 1 .. 0 : FALSE
  OBVIOUS
<1> QED BY <1>1, <1>2 DEF MetricsKept

\* The newest sample of a metric was seen by a scan, and none after it.
LEMMA NewestSeen ==
    ASSUME NEW log \in Seq(Scan), NEW k \in Key, NEW age \in Nat, NEW v, Fits(v, age),
           NewestTold(log, k, v, age)
    PROVE  /\ FinePart(log[v.age].sample)[k] # NoValue
           /\ FinePart(log[v.age].sample)[k].kind = v.kind
           /\ \A a \in 1..age : FinePart(log[a].sample)[k] # NoValue => a <= v.age
<1>1. v.kind \in FineKind /\ v.tip \in Int /\ v.age \in Nat /\ v.age <= age
  BY FitsParts
<1>2. SampleAt(log, k, v.kind, v.age) # NoValue
  BY <1>1, AbsentAssumption DEF NewestTold
<1>3. \A a \in 1..age : ~ (a <= v.age) => a \in v.age + 1 .. age
  BY <1>1
<1> QED BY <1>1, <1>2, <1>3 DEF SampleAt, FinePart, FineKind, NewestTold

\* A scan that sees a metric again adds to its buffer, and one that sees it
\* as another type begins a new one.
LEMMA PushKeepsMetrics ==
    ASSUME NEW log \in Seq(Scan), NEW bl, Good(bl), bl.age + 1 <= Len(log),
           NEW sample \in Sample, log[bl.age + 1].sample = sample, NEW ts,
           BacklogTells(log, bl), MetricsKept(log, bl)
    PROVE  MetricsKept(log, Push(bl, ts, FinePart(sample)))
<1> DEFINE age == bl.age
           len == Len(bl.timestamps)
           new == Push(bl, ts, FinePart(sample))
<1>1. age \in Nat /\ len \in Nat /\ len <= age /\ bl \in BacklogRecord /\ WindowOK(bl)
  BY DEF Good, BacklogRecord, WindowOK
<1>2. new.age = age + 1 /\ Len(new.timestamps) = len + 1
  BY DEF Push, Good, BacklogRecord
<1>3. (age + 1) - (len + 1) + 1 = age - len + 1
  BY <1>1
<1> SUFFICES ASSUME NEW k \in Key, NEW a \in age - len + 1 .. age + 1
             PROVE  SeenKept(log, k, new.values[k], age + 1, a)
  BY <1>2, <1>3 DEF MetricsKept
<1> DEFINE Fine(b) == FinePart(log[b].sample)[k]
           seen == Fine(age + 1)
           v == bl.values[k]
           w == new.values[k]
<1>4. w = IF seen = NoValue THEN v
          ELSE IF ValueAccepts(v, seen) THEN InnerPush(v, seen.val, age + 1)
                                        ELSE NewValue(seen, age + 1)
  BY DEF Push
<1>5. v # NoValue => /\ Fits(v, age) /\ ValueTells(log, k, v, age)
                     /\ v \in Value /\ v.age \in Nat /\ v.age <= age
                     /\ Len(v.buf) \in Nat
  BY <1>1, WindowFits, FitsParts DEF BacklogTells, Fits
<1>6. seen # NoValue => seen.val \in Int /\ seen.kind \in FineKind
  BY TipValueAssumption DEF FinePart, Sample
<1>7. a # age + 1 => a \in age - len + 1 .. age /\ SeenKept(log, k, v, age, a)
  <2>1. a # age + 1 => a \in age - len + 1 .. age
    BY <1>1
  <2> QED BY <2>1 DEF MetricsKept
<1>8. a \in Int /\ a <= age + 1
  BY <1>1
<1> HIDE DEF age, len, new, seen, v, w
<1> SUFFICES ASSUME Fine(a) # NoValue
             PROVE  /\ w # NoValue
                    /\ (\A b \in a .. age + 1 : Fine(b) # NoValue => Fine(b).kind = w.kind)
                          => w.age - Len(w.buf) <= a
  BY DEF SeenKept, w
<1>9. CASE seen = NoValue
  <2>1. w = v /\ a # age + 1
    BY <1>4, <1>9 DEF seen
  <2>2. \A b \in a..age : b \in a .. age + 1
    BY <1>1, <1>8
  <2> QED BY <1>7, <2>1, <2>2 DEF SeenKept
<1>10. CASE seen # NoValue /\ ValueAccepts(v, seen)
  <2>1. v # NoValue /\ w = InnerPush(v, seen.val, age + 1)
    BY <1>4, <1>10 DEF ValueAccepts
  <2> DEFINE x == seen.val
             n == age + 1
  <2>2. x \in Int /\ n \in Nat /\ v.age < n /\ w = InnerPush(v, x, n)
    BY <1>1, <1>5, <1>6, <1>10, <2>1
  <2> HIDE DEF x, n
  <2>3. w \in Value /\ w.age - Len(w.buf) = v.age - Len(v.buf) /\ w.kind = v.kind
    <3>1. w \in Value /\ w.age = n /\ n - Len(w.buf) = v.age - Len(v.buf)
      BY <1>5, <2>1, <2>2, InnerPushProperties
    <3>2. w.kind = v.kind
      BY <1>5, <2>1, <2>2 DEF InnerPush, Value
    <3> QED BY <3>1, <3>2
  <2>4. w # NoValue
    BY <2>3, AbsentAssumption
  <2>5. CASE a = age + 1
    BY <1>1, <1>5, <2>1, <2>3, <2>4, <2>5
  <2>6. CASE a # age + 1
    <3>1. \A b \in a..age : b \in a .. age + 1
      BY <1>1, <1>8
    <3> QED BY <1>7, <2>3, <2>4, <2>6, <3>1 DEF SeenKept
  <2> QED BY <2>5, <2>6
<1>11. CASE seen # NoValue /\ ~ValueAccepts(v, seen)
  <2>1. /\ w = NewValue(seen, age + 1) /\ w.kind = seen.kind
        /\ w.age = age + 1 /\ Len(w.buf) = 0
    BY <1>4, <1>11 DEF NewValue
  <2>2. w # NoValue
    <3>1. w \in Value
      BY <1>1, <1>6, <1>11, <2>1 DEF NewValue, Value
    <3> QED BY <3>1, AbsentAssumption
  <2>3. CASE a = age + 1
    BY <1>1, <2>1, <2>2, <2>3
  <2>4. CASE a # age + 1
    <3>1. v # NoValue /\ v.kind # seen.kind
      BY <1>7, <1>11, <2>4 DEF SeenKept, ValueAccepts
    <3>2. /\ Fine(v.age) # NoValue /\ Fine(v.age).kind = v.kind
          /\ \A b \in 1..age : Fine(b) # NoValue => b <= v.age
      BY <1>1, <1>5, <3>1, NewestSeen DEF ValueTells
    <3>3. a \in 1..age /\ a <= v.age
      <4>1. a \in 1..age
        BY <1>1, <1>7, <2>4
      <4> QED BY <3>2, <4>1
    <3>4. v.age \in a .. age + 1
      BY <1>1, <1>5, <3>1, <3>3
    <3>5. ~ \A b \in a .. age + 1 : Fine(b) # NoValue => Fine(b).kind = w.kind
      BY <2>1, <3>1, <3>2, <3>4
    <3> QED BY <2>2, <3>5
  <2> QED BY <2>3, <2>4
<1> QED BY <1>9, <1>10, <1>11

\* Backlog::truncate_by_num cuts no deeper than the timestamps.
LEMMA TruncateByNumKeepsMetrics ==
    ASSUME NEW log \in Seq(Scan), NEW bl, Good(bl), NEW idx \in 0..Len(bl.timestamps),
           BacklogTells(log, bl), MetricsKept(log, bl)
    PROVE  MetricsKept(log, TruncateByNum(bl, idx))
<1> DEFINE age == bl.age
           len == Len(bl.timestamps)
           new == TruncateByNum(bl, idx)
           trim == Monus(age, idx)
<1>1. /\ age \in Nat /\ len \in Nat /\ len <= age /\ bl \in BacklogRecord /\ WindowOK(bl)
      /\ idx \in Nat /\ idx <= len /\ bl.timestamps \in Seq(Nat)
  BY DEF Good, BacklogRecord, WindowOK
<1>2. trim = age - idx /\ trim \in Nat
  BY <1>1 DEF Monus
<1>3. new.age = age /\ Len(new.timestamps) = idx
  <2>1. Len(Take(bl.timestamps, idx)) = idx
    BY <1>1, TakeProperties DEF Smaller
  <2> QED BY <2>1 DEF TruncateByNum
<1> SUFFICES ASSUME NEW k \in Key, NEW a \in age - idx + 1 .. age
             PROVE  SeenKept(log, k, new.values[k], age, a)
  BY <1>3 DEF MetricsKept
<1> DEFINE Fine(b) == FinePart(log[b].sample)[k]
           v == bl.values[k]
           w == new.values[k]
<1>4. w = IF v = NoValue THEN NoValue ELSE InnerTruncate(v, trim)
  BY DEF TruncateByNum
<1>5. v # NoValue => /\ Fits(v, age) /\ ValueTells(log, k, v, age)
                     /\ v \in Value /\ v.age \in Nat /\ v.buf \in Seq(Item)
                     /\ Len(v.buf) \in Nat
  BY <1>1, WindowFits, FitsParts DEF BacklogTells, Fits
<1>6. a \in age - len + 1 .. age /\ a \in 1..age
  BY <1>1
<1>7. SeenKept(log, k, v, age, a)
  BY <1>6 DEF MetricsKept
<1> HIDE DEF age, len, new, v, w, trim
<1> SUFFICES ASSUME Fine(a) # NoValue
             PROVE  /\ w # NoValue
                    /\ (\A b \in a..age : Fine(b) # NoValue => Fine(b).kind = w.kind)
                          => w.age - Len(w.buf) <= a
  BY DEF SeenKept, w
<1>8. v # NoValue
  BY <1>7 DEF SeenKept
<1>9. a <= v.age
  BY <1>1, <1>5, <1>6, <1>8, NewestSeen DEF ValueTells
<1> DEFINE keep == (v.age - trim) - 1
           buf == Take(v.buf, keep)
<1>10. ~ (v.age <= trim) /\ keep \in Nat
  BY <1>1, <1>2, <1>5, <1>6, <1>8, <1>9
<1>11. w = [v EXCEPT !.buf = buf]
  BY <1>4, <1>8, <1>10 DEF InnerTruncate
<1>12. Len(buf) = Smaller(keep, Len(v.buf)) /\ buf \in Seq(Item)
  <2> HIDE DEF keep
  <2> QED BY <1>5, <1>8, <1>10, TakeProperties
<1>13. Len(buf) = keep \/ Len(buf) = Len(v.buf)
  <2> HIDE DEF keep, buf
  <2> QED BY <1>12 DEF Smaller
<1> HIDE DEF buf
<1>14. w.kind = v.kind /\ w.age = v.age /\ w.buf = buf /\ w \in Value
  BY <1>5, <1>8, <1>11, <1>12 DEF Value, Item
<1>15. w # NoValue
  BY <1>14, AbsentAssumption
<1>16. CASE Len(buf) = keep
  <2>1. w.age - Len(w.buf) = trim + 1
    BY <1>2, <1>5, <1>8, <1>14, <1>16
  <2> QED BY <1>1, <1>2, <1>15, <2>1
<1>17. CASE Len(buf) = Len(v.buf)
  BY <1>7, <1>14, <1>15, <1>17 DEF SeenKept
<1> QED BY <1>13, <1>16, <1>17

LEMMA TruncateKeepsMetrics ==
    ASSUME NEW log \in Seq(Scan), NEW bl, Good(bl), NEW ts \in Int,
           BacklogTells(log, bl), MetricsKept(log, bl)
    PROVE  MetricsKept(log, TruncateByTime(bl, ts))
<1>1. CASE TruncateByTime(bl, ts) = bl
  BY <1>1
<1>2. CASE \E n \in 0..Len(bl.timestamps) : TruncateByTime(bl, ts) = TruncateByNum(bl, n)
  BY <1>2, TruncateByNumKeepsMetrics
<1> QED BY <1>1, <1>2, TruncateByTimeCuts

-----------------------------------------------------------------------------
(* The tip                                                                 *)

LEMMA TipTellsAgree ==
    ASSUME NEW log, NEW log2, NEW known, NEW age \in Nat, NEW time,
           \A a \in 1..age : log2[a] = log[a], TipTells(log, known, age, time)
    PROVE  TipTells(log2, known, age, time)
<1>1. \A k : \A a \in 1..age : SampleAt(log2, k, "state", a) = SampleAt(log, k, "state", a)
  BY DEF SampleAt
<1>2. \A a \in 1..age : age \in 1..age /\ \A b \in a + 1 .. age : b \in 1..age
  OBVIOUS
<1>3. /\ \A a \in 1..age : log2[a] = log[a] /\ (log2[age] = log[age])
      /\ \A k : \A a \in 1..age : \A b \in a + 1 .. age :
            SampleAt(log2, k, "state", b) = SampleAt(log, k, "state", b)
  BY <1>1, <1>2
<1> SUFFICES ASSUME NEW k \in Key
             PROVE  /\ known[k] # NoValue =>
                          \E a \in 1..age :
                             /\ SampleAt(log2, k, "state", a) # NoValue
                             /\ \A b \in a + 1 .. age : SampleAt(log2, k, "state", b) = NoValue
                             /\ known[k] = [at |-> log2[a].at, val |-> SampleAt(log2, k, "state", a)]
                    /\ known[k] = NoValue =>
                          \A a \in 1..age : SampleAt(log2, k, "state", a) # NoValue =>
                             log2[a].at < log2[age].at - time
  BY DEF TipTells
<1>4. CASE known[k] # NoValue
  <2>1. PICK a \in 1..age :
            /\ SampleAt(log, k, "state", a) # NoValue
            /\ \A b \in a + 1 .. age : SampleAt(log, k, "state", b) = NoValue
            /\ known[k] = [at |-> log[a].at, val |-> SampleAt(log, k, "state", a)]
    BY <1>4 DEF TipTells
  <2>2. /\ SampleAt(log2, k, "state", a) # NoValue
        /\ \A b \in a + 1 .. age : SampleAt(log2, k, "state", b) = NoValue
        /\ known[k] = [at |-> log2[a].at, val |-> SampleAt(log2, k, "state", a)]
    BY <1>1, <1>3, <2>1
  <2> QED BY <1>4, <2>2
<1>5. CASE known[k] = NoValue
  <2>1. \A a \in 1..age : SampleAt(log, k, "state", a) # NoValue =>
            log[a].at < log[age].at - time
    BY <1>5 DEF TipTells
  <2> QED BY <1>1, <1>3, <1>5, <2>1
<1> QED BY <1>4, <1>5

LEMMA EmptyTipTells ==
    ASSUME NEW log, NEW time PROVE TipTells(log, EmptyTip, 0, time)
BY DEF TipTells, EmptyTip

\* Tip::push: the states of a scan replace the older ones.
LEMMA TipPushTells ==
    ASSUME NEW log \in Seq(Scan), LogOrdered(log), NEW known, NEW age \in Nat,
           age + 1 <= Len(log), NEW time \in Nat, TipTells(log, known, age, time),
           NEW sample \in Sample, log[age + 1].sample = sample,
           NEW ts, ts = log[age + 1].at
    PROVE  TipTells(log, TipPush(known, ts, StatePart(sample)), age + 1, time)
<1> DEFINE new == TipPush(known, ts, StatePart(sample))
<1> SUFFICES ASSUME NEW k \in Key
             PROVE  /\ new[k] # NoValue =>
                          \E a \in 1 .. age + 1 :
                             /\ SampleAt(log, k, "state", a) # NoValue
                             /\ \A b \in a + 1 .. age + 1 : SampleAt(log, k, "state", b) = NoValue
                             /\ new[k] = [at |-> log[a].at, val |-> SampleAt(log, k, "state", a)]
                    /\ new[k] = NoValue =>
                          \A a \in 1 .. age + 1 : SampleAt(log, k, "state", a) # NoValue =>
                             log[a].at < log[age + 1].at - time
  BY DEF TipTells
<1> DEFINE S(a) == SampleAt(log, k, "state", a)
           at(a) == log[a].at
           tv == sample[k]
<1>1. tv \in TipValue \cup {NoValue} /\ (tv # NoValue => tv.val \in Int)
  BY TipValueAssumption DEF Sample
<1>2. new[k] = IF tv # NoValue /\ tv.kind = "state" THEN [at |-> ts, val |-> tv.val] ELSE known[k]
  BY DEF TipPush, StatePart
<1>3. S(age + 1) = IF tv # NoValue /\ tv.kind = "state" THEN tv.val ELSE NoValue
  BY DEF SampleAt
<1>4. \A a \in 1 .. age + 1 : at(a) \in Nat
  <2>1. \A a \in 1 .. age + 1 : a \in 1..Len(log)
    OBVIOUS
  <2>2. \A a \in 1..Len(log) : log[a] \in Scan
    <3> HIDE DEF Scan
    <3> QED OBVIOUS
  <2> QED BY <2>1, <2>2 DEF Scan
<1>5. age > 0 => at(age) < at(age + 1)
  BY DEF LogOrdered
<1>6. CASE tv # NoValue /\ tv.kind = "state"
  <2>1. new[k] = [at |-> at(age + 1), val |-> S(age + 1)] /\ S(age + 1) \in Int
    BY <1>1, <1>2, <1>3, <1>6
  <2>2. at(age + 1) \in Nat /\ age + 1 \in 1 .. age + 1
    BY <1>4
  <2> HIDE DEF new, S, at
  <2>3. new[k] # NoValue /\ S(age + 1) # NoValue
    BY <2>1, <2>2, AbsentAssumption
  <2>4. \A b \in (age + 1) + 1 .. age + 1 : S(b) = NoValue
    OBVIOUS
  <2> QED BY <2>1, <2>2, <2>3, <2>4 DEF S, at
<1>7. CASE ~ (tv # NoValue /\ tv.kind = "state")
  <2>1. new[k] = known[k] /\ S(age + 1) = NoValue
    BY <1>2, <1>3, <1>7
  <2>2. /\ known[k] # NoValue =>
             \E a \in 1..age : /\ S(a) # NoValue
                               /\ \A b \in a + 1 .. age : S(b) = NoValue
                               /\ known[k] = [at |-> at(a), val |-> S(a)]
        /\ known[k] = NoValue => \A a \in 1..age : S(a) # NoValue => at(a) < at(age) - time
    BY DEF TipTells
  <2> HIDE DEF new, S, at
  <2>3. \A a \in 1..age : a \in 1 .. age + 1
                          /\ \A b \in a + 1 .. age + 1 : b \in a + 1 .. age \/ b = age + 1
    OBVIOUS
  <2>4. CASE new[k] # NoValue
    <3>1. PICK a \in 1..age : /\ S(a) # NoValue
                              /\ \A b \in a + 1 .. age : S(b) = NoValue
                              /\ known[k] = [at |-> at(a), val |-> S(a)]
      BY <2>1, <2>2, <2>4
    <3> QED BY <2>1, <2>3, <2>4, <3>1 DEF S, at
  <2>5. CASE new[k] = NoValue
    <3>1. ASSUME NEW a \in 1 .. age + 1, S(a) # NoValue PROVE at(a) < at(age + 1) - time
      <4>1. a \in 1..age /\ age > 0 /\ age \in 1 .. age + 1 /\ age + 1 \in 1 .. age + 1
        BY <2>1, <3>1
      <4>2. at(a) \in Nat /\ at(age) \in Nat /\ at(age + 1) \in Nat
        BY <1>4, <4>1
      <4>3. at(a) < at(age) - time
        BY <2>1, <2>2, <2>5, <3>1, <4>1
      <4> QED BY <1>5, <4>1, <4>2, <4>3
    <3> QED BY <2>5, <3>1 DEF S, at
  <2> QED BY <2>4, <2>5
<1> QED BY <1>6, <1>7

\* Tip::truncate_by_time: what is dropped was the last state, and is too old.
LEMMA TipTruncateTells ==
    ASSUME NEW log \in Seq(Scan), LogOrdered(log), NEW known, NEW age \in Nat,
           age <= Len(log), NEW time \in Nat, TipTells(log, known, age, time),
           NEW ts \in Int, age > 0 => ts = log[age].at - time
    PROVE  TipTells(log, TipTruncate(known, ts), age, time)
<1> DEFINE new == TipTruncate(known, ts)
           at(a) == log[a].at
<1> SUFFICES ASSUME NEW k \in Key
             PROVE  /\ new[k] # NoValue =>
                          \E a \in 1..age :
                             /\ SampleAt(log, k, "state", a) # NoValue
                             /\ \A b \in a + 1 .. age : SampleAt(log, k, "state", b) = NoValue
                             /\ new[k] = [at |-> log[a].at, val |-> SampleAt(log, k, "state", a)]
                    /\ new[k] = NoValue =>
                          \A a \in 1..age : SampleAt(log, k, "state", a) # NoValue =>
                             log[a].at < log[age].at - time
  BY DEF TipTells
<1> DEFINE S(a) == SampleAt(log, k, "state", a)
<1>1. new[k] = IF known[k] # NoValue /\ known[k].at < ts THEN NoValue ELSE known[k]
  BY DEF TipTruncate
<1>2. /\ known[k] # NoValue =>
           \E a \in 1..age : /\ S(a) # NoValue
                             /\ \A b \in a + 1 .. age : S(b) = NoValue
                             /\ known[k] = [at |-> at(a), val |-> S(a)]
      /\ known[k] = NoValue => \A a \in 1..age : S(a) # NoValue => at(a) < at(age) - time
  BY DEF TipTells
<1>3. \A a \in 1..age : at(a) \in Nat
  <2>1. \A a \in 1..age : a \in 1..Len(log)
    OBVIOUS
  <2>2. \A a \in 1..Len(log) : log[a] \in Scan
    <3> HIDE DEF Scan
    <3> QED OBVIOUS
  <2> QED BY <2>1, <2>2 DEF Scan
<1>4. \A a, b \in 1..age : a < b => at(a) < at(b)
  BY DEF LogOrdered
<1>5. age > 0 => ts = at(age) - time
  OBVIOUS
<1> HIDE DEF new, S, at
<1>6. CASE known[k] # NoValue /\ known[k].at < ts
  <2>1. PICK c \in 1..age : /\ S(c) # NoValue
                            /\ \A b \in c + 1 .. age : S(b) = NoValue
                            /\ known[k] = [at |-> at(c), val |-> S(c)]
    BY <1>2, <1>6
  <2>2. at(c) < at(age) - time
    BY <1>5, <1>6, <2>1
  <2>3. ASSUME NEW a \in 1..age, S(a) # NoValue PROVE at(a) < at(age) - time
    <3>1. a = c \/ a < c
      BY <2>1, <2>3
    <3>2. at(a) \in Nat /\ at(c) \in Nat /\ at(age) \in Nat /\ at(a) <= at(c)
      BY <1>3, <1>4, <3>1
    <3> QED BY <2>2, <3>2
  <2> QED BY <1>1, <1>6, <2>3 DEF S, at
<1>7. CASE ~ (known[k] # NoValue /\ known[k].at < ts)
  BY <1>1, <1>2, <1>7 DEF S, at
<1> QED BY <1>6, <1>7

-----------------------------------------------------------------------------
(* Going back in a history: the running value of DeltaHistory              *)

\* The recursive function Rewound has the values its definition asks for.  It
\* is built up step by step; a first step that could not be built does not
\* exist.
LEMMA RewoundDefined ==
    ASSUME NEW v, NEW n \in Nat, Len(v.buf) = n
    PROVE  /\ Rewound(v)[0] = v.tip
           /\ \A i \in 1..n :
                 Rewound(v)[i] = IF v.buf[i] = Gap THEN Rewound(v)[i - 1]
                                 ELSE Rewound(v)[i - 1] - v.buf[i]
<1> DEFINE Step(f, i) == IF i = 0 THEN v.tip
                         ELSE IF v.buf[i] = Gap THEN f[i - 1] ELSE f[i - 1] - v.buf[i]
           Defines(f, m) == f = [i \in 0..m |-> Step(f, i)]
           T == {m \in 0..n : ~ \E f : Defines(f, m)}
<1>1. T = {}
  <2> SUFFICES ASSUME T # {} PROVE FALSE
    OBVIOUS
  <2>1. PICK m \in T : \A y \in T : m <= y
    <3>1. T \in SUBSET Nat
      OBVIOUS
    <3> HIDE DEF T
    <3> QED BY <3>1, LeastExists
  <2>2. m \in 0..n /\ ~ \E f : Defines(f, m)
    BY <2>1
  <2>3. CASE m = 0
    <3> DEFINE f == [i \in 0..0 |-> v.tip]
    <3>1. Defines(f, 0)
      OBVIOUS
    <3> QED BY <2>2, <2>3, <3>1
  <2>4. CASE m # 0
    <3> DEFINE p == m - 1
    <3>1. p \in 0..n /\ p \in Nat /\ ~ (m <= p) /\ m = p + 1
      BY <2>2, <2>4
    <3> HIDE DEF p
    <3>2. p \notin T
      BY <2>1, <3>1
    <3>3. PICK f : Defines(f, p)
      BY <3>1, <3>2
    <3>4. \A i \in 0..p : f[i] = Step(f, i)
      BY <3>3
    <3> DEFINE g == [i \in 0..m |-> IF i = m THEN Step(f, i) ELSE f[i]]
    <3>5. \A i \in 0..p : g[i] = f[i] /\ i # m /\ i \in 0..m
      BY <3>1
    <3>6. ASSUME NEW i \in 0..m PROVE g[i] = Step(g, i)
      <4>1. i # 0 => i - 1 \in 0..p
        BY <3>1
      <4>2. Step(g, i) = Step(f, i)
        <5>1. i # 0 => g[i - 1] = f[i - 1]
          BY <3>5, <4>1
        <5> HIDE DEF g
        <5> QED BY <5>1
      <4>3. i = m \/ i \in 0..p
        BY <3>1
      <4>4. g[i] = Step(f, i)
        <5>1. CASE i = m
          BY <5>1
        <5>2. CASE i \in 0..p
          BY <3>4, <3>5, <5>2
        <5> QED BY <4>3, <5>1, <5>2
      <4> QED BY <4>2, <4>4
    <3>7. Defines(g, m)
      <4>1. g = [i \in 0..m |-> g[i]]
        OBVIOUS
      <4> HIDE DEF g
      <4> QED BY <3>6, <4>1
    <3> QED BY <2>2, <3>7
  <2> QED BY <2>3, <2>4
<1>2. \E f : Defines(f, n)
  <2>1. n \in 0..n
    OBVIOUS
  <2> QED BY <1>1, <2>1
<1>3. Rewound(v) = CHOOSE f : Defines(f, n)
  BY DEF Rewound
<1>4. Defines(Rewound(v), n)
  <2> HIDE DEF Defines
  <2> QED BY <1>2, <1>3
<1>5. \A i \in 0..n : Rewound(v)[i] = Step(Rewound(v), i)
  <2> DEFINE r == Rewound(v)
  <2>1. r = [i \in 0..n |-> Step(r, i)]
    BY <1>4
  <2> HIDE DEF r
  <2>2. \A i \in 0..n : r[i] = Step(r, i)
    BY <2>1
  <2> QED BY <2>2 DEF r
<1>6. 0 \in 0..n /\ \A i \in 1..n : i \in 0..n /\ i # 0
  OBVIOUS
<1> QED BY <1>5, <1>6

\* While every scan saw the metric, going back finds what they saw.
LEMMA RewoundRuns ==
    ASSUME NEW log, NEW k, NEW v, v.age \in Nat, NEW len \in Nat, Len(v.buf) = len,
           v.kind # "float", SampleAt(log, k, v.kind, v.age) = v.tip, RunsTold(log, k, v),
           NEW n \in 0..len,
           \A a \in v.age - n .. v.age : SampleAt(log, k, v.kind, a) \in Int,
           NoValue \notin Int
    PROVE  Rewound(v)[n] = SampleAt(log, k, v.kind, v.age - n)
<1> DEFINE S(a) == SampleAt(log, k, v.kind, a)
           va == v.age
           r == Rewound(v)
           T == {m \in 0..n : r[m] # S(va - m)}
<1>1. /\ r[0] = v.tip
      /\ \A i \in 1..len : r[i] = IF v.buf[i] = Gap THEN r[i - 1] ELSE r[i - 1] - v.buf[i]
  BY RewoundDefined
<1>2. \A m \in 1..len : (\A a \in va - m .. va : S(a) # NoValue) =>
          v.buf[m] # Gap /\ v.buf[m] = S(va - m + 1) - S(va - m)
  BY DEF RunsTold
<1>3. \A a \in va - n .. va : S(a) \in Int
  OBVIOUS
<1>4. S(va) = v.tip /\ va \in Nat
  OBVIOUS
<1> HIDE DEF S, va, r
<1>5. T = {}
  <2> SUFFICES ASSUME T # {} PROVE FALSE
    OBVIOUS
  <2>1. PICK m \in T : \A y \in T : m <= y
    <3>1. T \in SUBSET Nat
      OBVIOUS
    <3> HIDE DEF T
    <3> QED BY <3>1, LeastExists
  <2>2. m \in 0..n /\ r[m] # S(va - m)
    BY <2>1
  <2>3. m # 0
    <3>1. va - 0 = va
      BY <1>4
    <3> QED BY <1>1, <1>4, <2>2, <3>1
  <2> DEFINE p == m - 1
  <2>4. /\ p \in 0..n /\ ~ (m <= p) /\ m = p + 1 /\ m \in 1..len
        /\ va - m + 1 = va - p /\ va - m \in va - n .. va /\ va - p \in va - n .. va
    BY <1>4, <2>2, <2>3
  <2>5. r[p] = S(va - p)
    BY <2>1, <2>4
  <2>6. \A a \in va - m .. va : a \in va - n .. va
    BY <1>4, <2>2
  <2>7. v.buf[m] # Gap /\ v.buf[m] = S(va - p) - S(va - m)
    BY <1>2, <1>3, <2>4, <2>6
  <2>8. r[m] = S(va - p) - (S(va - p) - S(va - m))
    BY <1>1, <2>4, <2>5, <2>7
  <2>9. S(va - p) \in Int /\ S(va - m) \in Int
    BY <1>3, <2>4
  <2> HIDE DEF p
  <2>10. r[m] = S(va - m)
    BY <2>8, <2>9
  <2> QED BY <2>2, <2>10
<1> QED BY <1>5 DEF S, va, r

\* The buffer has the differences of the samples of these scans.
Differs(log, k, v, src) ==
    /\ SampleAt(log, k, v.kind, src[0]) = v.tip
    /\ \A i \in SamplePlaces(v.buf) : SampleAt(log, k, v.kind, src[i]) \in Int
    /\ \A i, j \in SamplePlaces(v.buf) :
          Neighbours(v.buf, i, j) =>
              v.buf[j] = SampleAt(log, k, v.kind, src[i]) - SampleAt(log, k, v.kind, src[j])

\* With gaps, going back still finds the sample of each place.
LEMMA RewoundOrder ==
    ASSUME NEW log, NEW k, NEW v, NEW len \in Nat, Len(v.buf) = len,
           NEW src, Differs(log, k, v, src), NEW n \in SamplePlaces(v.buf)
    PROVE  Rewound(v)[n] = SampleAt(log, k, v.kind, src[n])
<1> DEFINE S(a) == SampleAt(log, k, v.kind, a)
           P == SamplePlaces(v.buf)
           r == Rewound(v)
           Last(p, m) == p <= m /\ \A q \in P : q <= p \/ m < q
           T == {m \in 0..len : \E p \in P : Last(p, m) /\ r[m] # S(src[p])}
<1>1. /\ r[0] = v.tip
      /\ \A i \in 1..len : r[i] = IF v.buf[i] = Gap THEN r[i - 1] ELSE r[i - 1] - v.buf[i]
  BY RewoundDefined
<1>2. P = {0} \cup {i \in 1..len : v.buf[i] # Gap}
  BY DEF SamplePlaces
<1>3. \A i, j \in P : i < j /\ (\A m \in P : m <= i \/ j <= m) => v.buf[j] = S(src[i]) - S(src[j])
  BY DEF Neighbours, Differs
<1>4. (\A i \in P : S(src[i]) \in Int) /\ S(src[0]) = v.tip
  BY DEF Differs
<1>5. n \in P /\ P \subseteq 0..len /\ 0 \in P
  BY <1>2
<1> HIDE DEF P, r, S
<1>6. T = {}
  <2> SUFFICES ASSUME T # {} PROVE FALSE
    OBVIOUS
  <2>1. PICK m \in T : \A y \in T : m <= y
    <3>1. T \in SUBSET Nat
      OBVIOUS
    <3> HIDE DEF T
    <3> QED BY <3>1, LeastExists
  <2>2. m \in 0..len
    BY <2>1
  <2>3. PICK p \in P : Last(p, m) /\ r[m] # S(src[p])
    BY <2>1
  <2>4. m # 0
    <3>1. m = 0 => p = 0
      BY <1>5, <2>3
    <3> QED BY <1>1, <1>4, <2>3, <3>1
  <2> DEFINE b == m - 1
  <2>5. b \in 0..len /\ ~ (m <= b) /\ m = b + 1 /\ m \in 1..len
    BY <2>2, <2>4
  <2>6. \A q \in P : Last(q, b) => r[b] = S(src[q])
    BY <2>1, <2>5
  <2>7. r[m] = IF v.buf[m] = Gap THEN r[b] ELSE r[b] - v.buf[m]
    BY <1>1, <2>5
  <2> HIDE DEF b, T
  <2>8. CASE p = m
    <3> DEFINE Q == {q \in P : q <= b}
    <3>1. Q \in SUBSET (0..len) /\ 0 \in Q
      <4>1. (\A q \in Q : q \in 0..len) /\ 0 <= b
        BY <1>5, <2>5
      <4> QED BY <1>5, <4>1
    <3>2. PICK q \in Q : \A z \in Q : z <= q
      <4> HIDE DEF Q
      <4> QED BY <3>1, GreatestExists
    <3>3. q \in P /\ q <= b /\ q \in 0..len
      BY <3>1, <3>2
    <3>4. \A z \in P : z \in 0..len /\ (z <= q \/ b < z)
      BY <1>5, <2>5, <3>2, <3>3
    <3>5. r[b] = S(src[q])
      BY <2>6, <3>3, <3>4
    <3>6. q < m /\ \A z \in P : z <= q \/ m <= z
      BY <2>5, <3>3, <3>4
    <3>7. v.buf[m] = S(src[q]) - S(src[m])
      BY <1>3, <2>8, <3>3, <3>6
    <3>8. v.buf[m] # Gap
      BY <1>2, <2>4, <2>8
    <3>9. S(src[q]) \in Int /\ S(src[m]) \in Int
      BY <1>4, <2>8, <3>3
    <3>10. r[m] = S(src[q]) - (S(src[q]) - S(src[m]))
      BY <2>7, <3>5, <3>7, <3>8
    <3> QED BY <2>3, <2>8, <3>9, <3>10
  <2>9. CASE p # m
    <3>1. p \in 0..len /\ p < m /\ m \notin P
      BY <1>5, <2>2, <2>3, <2>9
    <3>2. v.buf[m] = Gap
      BY <1>2, <2>5, <3>1
    <3>3. p <= b /\ \A q \in P : q <= p \/ b < q
      BY <1>5, <2>2, <2>3, <2>5, <3>1
    <3>4. r[b] = S(src[p])
      BY <2>6, <3>3
    <3> QED BY <2>3, <2>7, <3>2, <3>4
  <2> QED BY <2>8, <2>9
<1>7. n \in 0..len /\ Last(n, n)
  BY <1>5
<1> QED BY <1>5, <1>6, <1>7 DEF r, S

-----------------------------------------------------------------------------
(* What the readers find                                                   *)

\* The places of a history: no samples since the newest, the newest, and
\* what the buffer has.
LEMMA HistoryItems ==
    ASSUME NEW age \in Nat, NEW v, Fits(v, age), NEW gone, gone = age - v.age,
           NEW h, h = History(v, age)
    PROVE  /\ gone \in Nat /\ Len(h) = gone + 1 + Len(v.buf)
           /\ \A i \in 1..gone : h[i] = NoValue
           /\ h[gone + 1] = v.tip
           /\ \A n \in 1..Len(v.buf) : h[gone + 1 + n] = BufItem(v, n)
<1> DEFINE len == Len(v.buf)
           all == gone + 1 + len
           Item1(i) == IF i <= gone THEN NoValue
                       ELSE IF i = gone + 1 THEN v.tip ELSE BufItem(v, i - gone - 1)
<1>1. gone \in Nat /\ len \in Nat
  BY FitsParts
<1>2. Monus(age, v.age) = gone
  BY FitsParts DEF Monus
<1>3. h = [i \in 1..all |-> Item1(i)]
  BY <1>2 DEF History
<1> HIDE DEF Item1
<1>4. all \in Nat /\ Len(h) = all /\ \A i \in 1..all : h[i] = Item1(i)
  <2>1. all \in Nat
    BY <1>1
  <2> HIDE DEF all
  <2> QED BY <1>3, <2>1
<1> HIDE DEF len
<1>5. \A i \in 1..gone : h[i] = NoValue
  <2>1. \A i \in 1..gone : i \in 1..all /\ i <= gone
    BY <1>1
  <2> QED BY <1>4, <2>1 DEF Item1
<1>6. h[gone + 1] = v.tip
  <2>1. gone + 1 \in 1..all /\ ~ (gone + 1 <= gone)
    BY <1>1
  <2> QED BY <1>4, <2>1 DEF Item1
<1>7. ASSUME NEW n \in 1..len PROVE h[gone + 1 + n] = BufItem(v, n)
  <2> DEFINE i == gone + 1 + n
  <2>1. i \in 1..all /\ ~ (i <= gone) /\ i # gone + 1 /\ i - gone - 1 = n
    BY <1>1
  <2> HIDE DEF i
  <2>2. h[i] = BufItem(v, n)
    BY <1>4, <2>1 DEF Item1
  <2> QED BY <2>2 DEF i
<1> QED BY <1>1, <1>4, <1>5, <1>6, <1>7 DEF len

\* The items of a history are within the timestamps.
LEMMA HistoryFits ==
    ASSUME NEW bl, Good(bl), NEW k \in Key, NEW v, v = bl.values[k], v # NoValue
    PROVE  /\ bl.age \in Nat /\ Fits(v, bl.age) /\ Len(bl.timestamps) \in Nat
           /\ TipIndex(bl, v) = bl.age - v.age
           /\ TipIndex(bl, v) \in 0 .. Len(bl.timestamps) - 1
           /\ Len(History(v, bl.age)) = TipIndex(bl, v) + 1 + Len(v.buf)
           /\ Len(History(v, bl.age)) <= Len(bl.timestamps)
<1>1. /\ bl \in BacklogRecord /\ WindowOK(bl) /\ bl.age \in Nat
      /\ Len(bl.timestamps) \in Nat /\ ValueInWindow(bl, v)
  BY DEF Good, BacklogRecord, WindowOK
<1>2. Fits(v, bl.age)
  BY <1>1, WindowFits
<1>3. v.age \in Nat /\ v.age <= bl.age /\ Len(v.buf) \in Nat
  BY <1>1, <1>2, FitsParts
<1> DEFINE gone == bl.age - v.age
           h == History(v, bl.age)
           len == Len(bl.timestamps)
           lv == Len(v.buf)
<1>4. Len(h) = gone + 1 + lv
  BY <1>1, <1>2, HistoryItems
<1>5. gone \in Nat /\ gone + lv < len /\ lv \in Nat /\ len \in Nat
  <2> DEFINE a == bl.age
             b == v.age
  <2>1. a - len < b - lv /\ a \in Nat /\ b \in Nat /\ lv \in Nat /\ len \in Nat /\ b <= a
    BY <1>1, <1>3 DEF ValueInWindow
  <2> HIDE DEF a, b, lv, len
  <2>2. a - b \in Nat /\ (a - b) + lv < len
    BY ONLY <2>1
  <2> QED BY <2>1, <2>2 DEF a, b
<1>6. TipIndex(bl, v) = gone
  BY DEF TipIndex
<1> HIDE DEF gone, h, len, lv
<1>7. gone \in 0 .. len - 1 /\ gone + 1 + lv <= len
  BY ONLY <1>5
<1> QED BY <1>1, <1>2, <1>4, <1>6, <1>7 DEF gone, h, len, lv

\* The oldest sample among the last n is not newer than the tip.
LEMMA LastKnownProperties ==
    ASSUME NEW bl, Good(bl), NEW k \in Key, NEW v, v = bl.values[k], v # NoValue,
           NEW n \in Nat, KnownIndexes(bl, v, n) # {}
    PROVE  /\ LastKnown(bl, v, n) \in TipIndex(bl, v) .. Len(bl.timestamps) - 1
           /\ LastKnown(bl, v, n) <= TipIndex(bl, v) + Len(v.buf)
           /\ History(v, bl.age)[LastKnown(bl, v, n) + 1] # NoValue
<1> DEFINE h == History(v, bl.age)
           gone == TipIndex(bl, v)
           len == Len(bl.timestamps)
           lh == Len(h)
           lv == Len(v.buf)
           K == KnownIndexes(bl, v, n)
<1>1. /\ bl.age \in Nat /\ Fits(v, bl.age) /\ len \in Nat
      /\ gone = bl.age - v.age /\ gone \in 0 .. len - 1
      /\ lh = gone + 1 + lv /\ lh <= len /\ lv \in Nat
  BY HistoryFits, FitsParts
<1>2. \A i \in 1..gone : h[i] = NoValue
  <2> HIDE DEF gone, h, lh, lv, len
  <2>1. h = History(v, bl.age)
    BY DEF h
  <2> QED BY <1>1, <2>1, HistoryItems
<1>3. K = {i \in 1..Smaller(n, lh - 1) : h[i + 1] # NoValue}
  BY DEF KnownIndexes
<1> HIDE DEF h, gone, len, lv, lh, K
<1>4. lh \in Nat /\ lh - 1 \in Nat
  BY ONLY <1>1
<1>5. Smaller(n, lh - 1) \in Nat /\ Smaller(n, lh - 1) <= lh - 1
  BY <1>4 DEF Smaller
<1>6. K \in SUBSET (0 .. lh - 1)
  <2> DEFINE m == Smaller(n, lh - 1)
             top == lh - 1
  <2>1. m \in Nat /\ m <= top /\ top \in Nat
    BY <1>4, <1>5
  <2>2. \A i \in K : i \in 1..m
    BY <1>3
  <2> HIDE DEF m, top
  <2>3. \A i \in K : i \in 0..top
    BY <2>1, <2>2
  <2> QED BY <2>3 DEF top
<1>7. \E i \in K : \A j \in K : j <= i
  <2> DEFINE m == lh - 1
  <2>1. m \in Nat /\ K \in SUBSET (0..m) /\ K # {}
    BY <1>4, <1>6 DEF K
  <2> HIDE DEF m
  <2> QED BY <2>1, GreatestExists
<1>8. LastKnown(bl, v, n) \in K
  BY <1>7 DEF LastKnown, K
<1> DEFINE idx == LastKnown(bl, v, n)
<1> HIDE DEF idx
<1>9. idx \in 1 .. lh - 1 /\ h[idx + 1] # NoValue
  BY <1>3, <1>4, <1>5, <1>8 DEF idx
<1>10. ~ (idx + 1 \in 1..gone)
  BY <1>2, <1>9
<1>11. idx \in gone .. len - 1 /\ idx <= gone + lv
  BY ONLY <1>1, <1>4, <1>9, <1>10
<1> QED BY <1>9, <1>11 DEF idx, h, gone, len, lv

\* The first place that is old enough, or all of them.
LEMMA ByTimeProperties ==
    ASSUME NEW bl, Good(bl), bl.timestamps # << >>, NEW v, NEW d
    PROVE  \E num \in 1..Len(bl.timestamps) :
              HistoryByTime(bl, v, d) = HistoryByNum(bl, v, num)
<1> DEFINE len == Len(bl.timestamps)
           old == {i \in 1..len : bl.timestamps[1] - bl.timestamps[i] >= d}
           first == CHOOSE i \in old : \A j \in old : i <= j
<1>1. len \in Nat /\ len # 0
  BY DEF Good, BacklogRecord
<1>2. HistoryByTime(bl, v, d) = HistoryByNum(bl, v, IF old = {} THEN len ELSE first)
  BY DEF HistoryByTime
<1>3. (IF old = {} THEN len ELSE first) \in 1..len
  <2>1. CASE old = {}
    BY <1>1, <2>1
  <2>2. CASE old # {}
    <3>1. old \in SUBSET Nat
      BY <1>1
    <3>2. \A i \in old : i \in 1..len
      OBVIOUS
    <3> HIDE DEF old, len
    <3>3. \E i \in old : \A j \in old : i <= j
      BY <2>2, <3>1, LeastExists
    <3>4. first \in old
      BY <3>3
    <3> QED BY <2>2, <3>2, <3>4
  <2> QED BY <2>1, <2>2
<1> HIDE DEF len, old, first
<1> QED BY <1>2, <1>3 DEF len

\* What the web interface gets by number: no value is without a timestamp.
LEMMA ByNumProperties ==
    ASSUME NEW bl, Good(bl), NEW k \in Key, NEW v, v = bl.values[k], v # NoValue,
           NEW n \in Nat
    PROVE  Len(HistoryByNum(bl, v, n).values) <= Len(HistoryByNum(bl, v, n).timestamps)
<1> DEFINE h == History(v, bl.age)
           ts == bl.timestamps
           S == {h[i] : i \in DOMAIN h}
           lh == Len(h)
           lt == Len(ts)
<1>1. lh \in Nat /\ lt \in Nat /\ lh <= lt /\ ts \in Seq(Nat)
  <2>1. TipIndex(bl, v) \in Nat /\ Len(v.buf) \in Nat
    BY HistoryFits, FitsParts
  <2> QED BY <2>1, HistoryFits DEF Good, BacklogRecord
<1>2. h \in Seq(S)
  <2> DEFINE all == Monus(bl.age, v.age) + 1 + Len(v.buf)
  <2>1. DOMAIN h = 1..all
    BY DEF History
  <2>2. bl.age \in Nat /\ v.age \in Nat /\ Len(v.buf) \in Nat
    BY HistoryFits, FitsParts
  <2>3. all \in Nat
    <3> DEFINE lv == Len(v.buf)
               m == Monus(bl.age, v.age)
    <3>1. m \in Nat /\ lv \in Nat
      BY <2>2 DEF Monus
    <3> HIDE DEF lv, m
    <3>2. m + 1 + lv \in Nat
      BY ONLY <3>1
    <3> QED BY <3>2 DEF lv, m
  <2>4. h = [i \in DOMAIN h |-> h[i]]
    BY DEF History
  <2> HIDE DEF h, all
  <2> QED BY <2>1, <2>3, <2>4
<1> HIDE DEF h, ts, S
<1>3. Len(Take(h, n)) = Smaller(n, lh)
  BY <1>2, TakeProperties
<1>4. Len(Take(ts, n)) = Smaller(n, lt)
  BY <1>1, TakeProperties
<1> HIDE DEF lh, lt
<1>5. Smaller(n, lh) <= Smaller(n, lt)
  BY <1>1 DEF Smaller
<1>6. HistoryByNum(bl, v, n) = [values |-> Take(h, n), timestamps |-> Take(ts, n)]
  BY DEF HistoryByNum, h, ts
<1> QED BY <1>3, <1>4, <1>5, <1>6

\* The two timestamps of a rate are in order.
LEMMA DiffProperties ==
    ASSUME NEW bl, Good(bl), NEW k \in Key, NEW v, v = bl.values[k], v # NoValue,
           NEW n \in Nat, KnownIndexes(bl, v, n) # {}
    PROVE  /\ DiffToAtMost(bl, v, n).from = bl.timestamps[TipIndex(bl, v) + 1]
           /\ DiffToAtMost(bl, v, n).to = bl.timestamps[LastKnown(bl, v, n) + 1]
           /\ DiffToAtMost(bl, v, n).from >= DiffToAtMost(bl, v, n).to
<1> DEFINE idx == LastKnown(bl, v, n)
           gone == TipIndex(bl, v)
           len == Len(bl.timestamps)
           ts == bl.timestamps
<1>1. /\ DiffToAtMost(bl, v, n).from = ts[gone + 1]
      /\ DiffToAtMost(bl, v, n).to = ts[idx + 1]
  BY DEF DiffToAtMost
<1>2. idx \in gone .. len - 1 /\ gone \in 0 .. len - 1 /\ len \in Nat
  BY HistoryFits, LastKnownProperties
<1>3. ts \in Seq(Nat) /\ Descending(ts) /\ len = Len(ts)
  BY DEF Good, BacklogRecord
<1> HIDE DEF idx, gone, ts, len
<1>4. idx + 1 \in 1..len /\ gone + 1 \in 1..len /\ (gone = idx \/ gone + 1 < idx + 1)
  BY <1>2
<1>5. ts[gone + 1] >= ts[idx + 1]
  <2>1. ts[gone + 1] \in Nat /\ ts[idx + 1] \in Nat
    BY <1>3, <1>4
  <2>2. CASE gone = idx
    BY <2>1, <2>2
  <2>3. CASE gone + 1 < idx + 1
    BY <1>3, <1>4, <2>1, <2>3 DEF Descending
  <2> QED BY <1>4, <2>2, <2>3
<1> QED BY <1>1, <1>5 DEF idx, gone, ts

\* As long as every scan saw a metric, its samples are in its history, each at
\* its place, but for those before a decrease.
LEMMA GaplessItems ==
    ASSUME NEW log \in Seq(Scan), NEW k \in Key, NEW v, NEW age \in Nat, age <= Len(log),
           Fits(v, age), v.kind # "float", ValueTells(log, k, v, age),
           NEW n \in 1..Len(v.buf),
           \A a \in v.age - n .. v.age : SampleAt(log, k, v.kind, a) # NoValue
    PROVE  /\ SampleAt(log, k, v.kind, v.age - n) \in Int
           /\ SampleAt(log, k, v.kind, v.age - n + 1) \in Int
           /\ BufItem(v, n) =
                IF SampleAt(log, k, v.kind, v.age - n) > SampleAt(log, k, v.kind, v.age - n + 1)
                THEN NoValue ELSE SampleAt(log, k, v.kind, v.age - n)
<1> DEFINE S(a) == SampleAt(log, k, v.kind, a)
           va == v.age
           lv == Len(v.buf)
           ll == Len(log)
<1>1. va \in Nat /\ lv \in Nat /\ lv < va /\ va <= ll /\ ll \in Nat /\ v.kind \in FineKind
  <2>1. v.age \in Nat /\ v.age <= age /\ Len(v.buf) \in Nat /\ Len(v.buf) < v.age
        /\ v.kind \in FineKind
    BY FitsParts
  <2>2. Len(log) \in Nat
    OBVIOUS
  <2> DEFINE x == v.age
  <2> HIDE DEF x
  <2> QED BY <2>1, <2>2
<1>2. \A a \in va - n .. va : S(a) # NoValue
  OBVIOUS
<1>3. S(va) = v.tip /\ RunsTold(log, k, v)
  BY DEF ValueTells, NewestTold
<1>4. \A a \in 1..ll : S(a) \in Int \cup {NoValue}
  BY SampleAtType
<1> HIDE DEF S, va, lv, ll
<1>5. \A a \in va - n .. va : a \in 1..ll
  BY <1>1 DEF lv
<1>6. \A a \in va - n .. va : S(a) \in Int
  BY <1>2, <1>4, <1>5
<1>7. va - n \in va - n .. va /\ va - n + 1 \in va - n .. va
  BY <1>1 DEF lv
<1>8. Rewound(v)[n] = S(va - n)
  <2>1. n \in 0..lv /\ lv \in Nat /\ Len(v.buf) = lv /\ v.age \in Nat
    BY <1>1 DEF lv, va
  <2>2. \A a \in v.age - n .. v.age : SampleAt(log, k, v.kind, a) \in Int
    BY <1>6 DEF S, va
  <2>3. SampleAt(log, k, v.kind, v.age) = v.tip
    BY <1>3 DEF S, va
  <2>4. NoValue \notin Int
    BY AbsentAssumption
  <2>5. Rewound(v)[n] = SampleAt(log, k, v.kind, v.age - n)
    BY <1>3, <2>1, <2>2, <2>3, <2>4, RewoundRuns
  <2> QED BY <2>5 DEF S, va
<1>9. v.buf[n] # Gap /\ v.buf[n] = S(va - n + 1) - S(va - n)
  <2>1. \A a \in v.age - n .. v.age : SampleAt(log, k, v.kind, a) # NoValue
    BY <1>6, AbsentAssumption DEF S, va
  <2> QED BY <1>3, <2>1 DEF RunsTold, S, va
<1>10. S(va - n) \in Int /\ S(va - n + 1) \in Int
  BY <1>6, <1>7
<1>11. BufItem(v, n) = IF S(va - n) > S(va - n + 1) THEN NoValue ELSE S(va - n)
  <2> DEFINE x == S(va - n)
             y == S(va - n + 1)
             d == v.buf[n]
  <2>1. BufItem(v, n) = IF d < 0 THEN NoValue ELSE x
    BY <1>8, <1>9 DEF BufItem
  <2>2. x \in Int /\ y \in Int /\ d = y - x
    BY <1>9, <1>10
  <2> HIDE DEF x, y, d
  <2>3. d < 0 <=> x > y
    BY <2>2
  <2>4. BufItem(v, n) = IF x > y THEN NoValue ELSE x
    BY <2>1, <2>3
  <2> QED BY <2>4 DEF x, y
<1> QED BY <1>10, <1>11 DEF S, va

\* A place of a history has the time of its scan.
LEMMA DatedPlace ==
    ASSUME NEW log, NEW bl, Good(bl), Dated(log, bl), NEW i \in 0 .. Len(bl.timestamps) - 1
    PROVE  bl.timestamps[i + 1] = log[bl.age - i].at
<1>1. Len(bl.timestamps) \in Nat /\ bl.age \in Nat
  BY DEF Good, BacklogRecord
<1>2. i + 1 \in 1..Len(bl.timestamps) /\ bl.age + 1 - (i + 1) = bl.age - i
  BY <1>1
<1> QED BY <1>2 DEF Dated

\* The float that a difference starts from is the sample of a scan, with the
\* time of that scan.
FromScan(log, bl, k, v, idx) ==
    \E b \in 1..v.age :
       /\ SampleAt(log, k, "float", b) \in Int
       /\ History(v, bl.age)[idx + 1] = SampleAt(log, k, "float", b)
       /\ bl.timestamps[idx + 1] = log[b].at

LEMMA FloatKnown ==
    ASSUME NEW log, NEW bl, Good(bl), Dated(log, bl),
           NEW k \in Key, NEW v, v = bl.values[k], v # NoValue, v.kind = "float",
           ValueTells(log, k, v, bl.age), NEW n \in Nat, KnownIndexes(bl, v, n) # {}
    PROVE  FromScan(log, bl, k, v, LastKnown(bl, v, n))
<1> DEFINE idx == LastKnown(bl, v, n)
           gone == TipIndex(bl, v)
           h == History(v, bl.age)
           age == bl.age
           va == v.age
           lv == Len(v.buf)
           lt == Len(bl.timestamps)
           m == idx - gone
           b == va - m
<1>1. /\ age \in Nat /\ Fits(v, age) /\ lt \in Nat /\ gone = age - va
      /\ gone \in 0 .. lt - 1
  BY HistoryFits
<1>2. idx \in gone .. lt - 1 /\ idx <= gone + lv /\ h[idx + 1] # NoValue
  BY LastKnownProperties
<1>3. va \in Nat /\ va >= 1 /\ va <= age /\ lv \in Nat /\ lv < va /\ v.tip \in Int
      /\ \A i \in 1..lv : v.buf[i] \in Int \/ v.buf[i] = Gap
  BY <1>1, FitsParts
<1>4. /\ h[gone + 1] = v.tip
      /\ \A i \in 1..lv : h[gone + 1 + i] = BufItem(v, i)
  <2>1. h = History(v, age) /\ gone = age - v.age
    BY <1>1
  <2> HIDE DEF h, gone, age
  <2> QED BY ONLY <1>1, <2>1, HistoryItems
<1>5. bl.timestamps[idx + 1] = log[age - idx].at
  <2>1. \A i \in gone .. lt - 1 : i \in 0 .. lt - 1
    BY <1>1
  <2> QED BY <1>2, <2>1, DatedPlace
<1> HIDE DEF idx, gone, h, age, va, lv, lt
<1>6. m \in 0..lv /\ idx + 1 = gone + 1 + m /\ age - idx = b /\ b \in 1..va
  BY ONLY <1>1, <1>2, <1>3
<1>7. SampleAt(log, k, "float", b) \in Int /\ h[idx + 1] = SampleAt(log, k, "float", b)
  <2>1. CASE m = 0
    <3>1. b = va /\ idx + 1 = gone + 1
      BY <1>1, <1>2, <1>3, <2>1
    <3> QED BY <1>3, <1>4, <3>1 DEF ValueTells, NewestTold, va
  <2>2. CASE m # 0
    <3>1. m \in 1..lv
      BY <1>3, <1>6, <2>2
    <3>2. h[idx + 1] = BufItem(v, m)
      BY <1>4, <1>6, <3>1
    <3>3. v.buf[m] # Gap /\ BufItem(v, m) = v.buf[m] /\ v.buf[m] \in Int
      BY <1>2, <1>3, <3>1, <3>2 DEF BufItem
    <3>4. SampleAt(log, k, "float", b) = v.buf[m]
      <4> HIDE DEF m
      <4> QED BY <3>1, <3>3 DEF ValueTells, FloatsTold, va, lv
    <3> QED BY <3>2, <3>3, <3>4
  <2> QED BY <2>1, <2>2
<1>8. bl.timestamps[idx + 1] = log[b].at
  BY <1>5, <1>6
<1> HIDE DEF b
<1> QED BY <1>6, <1>7, <1>8 DEF FromScan, idx, h, age, va

-----------------------------------------------------------------------------
(* Lemmas                                                                  *)

LEMMA FinePartProperties ==
    ASSUME NEW sample \in Sample
    PROVE  /\ FinePart(sample) \in Sample
           /\ \A k \in Key : FinePart(sample)[k] # NoValue =>
                                FinePart(sample)[k].kind \in FineKind
<1>1. \A k \in Key : sample[k] \in TipValue \cup {NoValue}
  BY DEF Sample
<1>2. \A k \in Key : sample[k] # NoValue => sample[k].kind \in FineKind \cup {"state"}
  BY <1>1, TipValueAssumption
<1> QED BY <1>1, <1>2 DEF FinePart, Sample

LEMMA TipPushType ==
    ASSUME NEW old \in TipHistory, NEW ts \in Nat, NEW sample \in Sample
    PROVE  TipPush(old, ts, StatePart(sample)) \in TipHistory
<1>1. \A k \in Key : /\ old[k] \in [at : Nat, val : Int] \cup {NoValue}
                     /\ StatePart(sample)[k] # NoValue => StatePart(sample)[k].val \in Int
  BY TipValueAssumption DEF Sample, StatePart, TipHistory
<1> QED BY <1>1 DEF TipPush, TipHistory

LEMMA TipTruncateType ==
    ASSUME NEW old \in TipHistory, NEW ts \in Int
    PROVE  TipTruncate(old, ts) \in TipHistory
BY DEF TipTruncate, TipHistory

\* A longer list of scans aligns what a shorter one did.
LEMMA AppendAligned ==
    ASSUME NEW bl \in BacklogRecord, WindowOK(bl), scans \in Seq(Scan), Aligned(bl),
           NEW s \in Scan, scans' = Append(scans, s)
    PROVE  Aligned(bl)'
<1>1. /\ Len(scans') = Len(scans) + 1 /\ Len(scans) \in Nat
      /\ \A i \in 1..Len(scans) : scans'[i] = scans[i]
  BY AppendProperties
<1>2. bl.age \in Nat /\ Len(bl.timestamps) \in Nat /\ Len(bl.timestamps) <= bl.age
  BY DEF BacklogRecord, WindowOK
<1>3. \A i \in 1..Len(bl.timestamps) : bl.age + 1 - i \in 1..Len(scans)
  BY <1>1, <1>2 DEF Aligned
<1> QED BY <1>1, <1>2, <1>3 DEF Aligned

\* So does a prefix that has all the scans of the backlog.
LEMMA TakeAligned ==
    ASSUME NEW bl \in BacklogRecord, WindowOK(bl), scans \in Seq(Scan), Aligned(bl),
           scans' = Take(scans, bl.age)
    PROVE  Aligned(bl)' /\ Len(scans') = bl.age
<1>1. bl.age \in Nat /\ Len(bl.timestamps) \in Nat /\ Len(bl.timestamps) <= bl.age
      /\ Len(scans) \in Nat /\ bl.age <= Len(scans)
  BY DEF BacklogRecord, WindowOK, Aligned
<1>2. /\ Len(scans') = bl.age
      /\ \A i \in 1..bl.age : scans'[i] = scans[i]
  BY <1>1, TakeProperties DEF Smaller
<1>3. \A i \in 1..Len(bl.timestamps) : bl.age + 1 - i \in 1..bl.age
  BY <1>1
<1>4. \A i \in 1..Len(bl.timestamps) : bl.timestamps[i] = scans'[bl.age + 1 - i].at
  BY <1>2, <1>3 DEF Aligned
<1>5. bl.age <= Len(scans')
  BY <1>1, <1>2
<1> QED BY <1>2, <1>4, <1>5 DEF Aligned

\* Backlogs, spelled out.
LEMMA BacklogsAre ==
    /\ fine \in Backlogs
    /\ slot # NoHistory => slot.fine \in Backlogs
    /\ disk # NoHistory => disk.fine \in Backlogs
    /\ \A bl \in Backlogs : \/ bl = fine
                            \/ slot # NoHistory /\ bl = slot.fine
                            \/ disk # NoHistory /\ bl = disk.fine
BY DEF Backlogs

\* What IInv says of each backlog.
LEMMA BacklogsGood ==
    ASSUME IInv
    PROVE  \A bl \in Backlogs : Good(bl) /\ Aligned(bl)
<1>1. \A bl \in Backlogs : bl \in BacklogRecord
  BY BacklogsAre DEF IInv, TypeOK, Saved
<1> QED BY <1>1 DEF IInv, HistoryInWindow, TimestampsOK, Good

\* .. and what is enough of each backlog.
LEMMA BacklogsEnough ==
    ASSUME \A bl \in Backlogs : Good(bl) /\ Aligned(bl)
    PROVE  HistoryInWindow /\ TimestampsOK
BY DEF HistoryInWindow, TimestampsOK, Good

\* The backlog after a scan, before it is cut.
LEMMA PushedFine ==
    ASSUME IInv, NEW sample \in Sample, Scanned,
           scans' = Append(scans, [at |-> clock, sample |-> sample])
    PROVE  LET pushed == Push(fine, clock, FinePart(sample)) IN
           /\ Good(pushed) /\ pushed.age = Len(scans') /\ pushed.age = Len(scans) + 1
           /\ Dated(scans', pushed)
           /\ \A i \in 1..Len(pushed.timestamps) : pushed.timestamps[i] <= clock
           /\ pushed.timestamps # << >> /\ pushed.timestamps[1] = clock
<1> DEFINE pushed == Push(fine, clock, FinePart(sample))
           s == [at |-> clock, sample |-> sample]
<1>1. /\ Good(fine) /\ Aligned(fine) /\ clock \in Nat /\ Pushable(fine, clock)
      /\ scans \in Seq(Scan) /\ s \in Scan /\ fine.age = Len(scans)
      /\ clock - backlog_time \in Int
  BY BacklogsGood, BacklogsAre, TimeAssumption DEF IInv, TypeOK, Scanned, ScanCount, Scan
<1>2. /\ Good(pushed)
      /\ pushed.age = fine.age + 1
      /\ pushed.timestamps = <<clock>> \o fine.timestamps
  BY <1>1, PushGood, FinePartProperties
<1>3. /\ fine.timestamps \in Seq(Nat) /\ Len(fine.timestamps) \in Nat
      /\ fine.age \in Nat /\ Len(fine.timestamps) <= fine.age
  BY <1>1 DEF Good, BacklogRecord, WindowOK
<1>4. /\ Len(scans') = Len(scans) + 1 /\ Len(scans) \in Nat
      /\ \A i \in 1..Len(scans) : scans'[i] = scans[i]
      /\ scans'[Len(scans) + 1] = s
  BY <1>1, AppendProperties
<1>5. /\ Len(pushed.timestamps) = 1 + Len(fine.timestamps)
      /\ pushed.timestamps[1] = clock
      /\ \A i \in 2 .. 1 + Len(fine.timestamps) :
            pushed.timestamps[i] = fine.timestamps[i - 1]
  <2>1. <<clock>> \in Seq(Nat) /\ Len(<<clock>>) = 1 /\ <<clock>>[1] = clock
    BY <1>1
  <2>2. /\ Len(<<clock>> \o fine.timestamps) = 1 + Len(fine.timestamps)
        /\ \A i \in 1 .. 1 + Len(fine.timestamps) :
             (<<clock>> \o fine.timestamps)[i] =
                 IF i <= 1 THEN <<clock>>[i] ELSE fine.timestamps[i - 1]
    BY <1>3, <2>1, ConcatProperties
  <2> HIDE DEF pushed
  <2> QED BY <1>2, <1>3, <2>1, <2>2
<1> HIDE DEF pushed, s
<1>6. \A i \in 1..Len(pushed.timestamps) :
        /\ pushed.timestamps[i] = scans'[pushed.age + 1 - i].at
        /\ pushed.timestamps[i] <= clock
  <2> TAKE i \in 1..Len(pushed.timestamps)
  <2>1. s.at = clock
    BY DEF s
  <2>2. CASE i = 1
    <3>1. pushed.age + 1 - i = Len(scans) + 1
      BY <1>1, <1>2, <1>4, <2>2
    <3> QED BY <1>1, <1>4, <1>5, <2>1, <2>2, <3>1
  <2>3. CASE i # 1
    <3>1. i - 1 \in 1..Len(fine.timestamps) /\ i \in 2 .. 1 + Len(fine.timestamps)
      BY <1>3, <1>5, <2>3
    <3>2. /\ pushed.age + 1 - i = fine.age + 1 - (i - 1)
          /\ fine.age + 1 - (i - 1) \in 1..Len(scans)
      BY <1>1, <1>2, <1>3, <3>1
    <3>3. pushed.timestamps[i] = scans'[pushed.age + 1 - i].at
      BY <1>1, <1>4, <1>5, <3>1, <3>2 DEF Aligned
    <3>4. Descending(pushed.timestamps)
      BY <1>2 DEF Good
    <3>5. 1 \in 1..Len(pushed.timestamps) /\ 1 < i
      BY <1>3, <1>5, <2>3
    <3>6. pushed.timestamps[1] > pushed.timestamps[i]
      BY <3>4, <3>5 DEF Descending
    <3>7. fine.timestamps[i - 1] \in Nat /\ pushed.timestamps[i] = fine.timestamps[i - 1]
      <4>1. fine.timestamps \in Seq(Nat) /\ i - 1 \in 1..Len(fine.timestamps)
        BY <1>3, <3>1
      <4>2. fine.timestamps[i - 1] \in Nat
        BY ONLY <4>1
      <4> QED BY <1>5, <3>1, <4>2
    <3>8. pushed.timestamps[i] <= clock
      BY <1>1, <1>5, <3>6, <3>7
    <3> QED BY <3>3, <3>8
  <2> QED BY <2>2, <2>3
<1>7. pushed.age = Len(scans')
  BY <1>1, <1>2, <1>4
<1>8. pushed.age <= Len(scans') /\ pushed.timestamps # << >> /\ pushed.age = Len(scans) + 1
  BY <1>1, <1>2, <1>3, <1>4, <1>5, <1>7
<1> QED BY <1>2, <1>5, <1>6, <1>7, <1>8 DEF pushed, Dated

\* .. and whether it was cut or not.
LEMMA ScannedFine ==
    ASSUME IInv, NEW sample \in Sample, Scanned,
           scans' = Append(scans, [at |-> clock, sample |-> sample]),
           \/ fine' = Push(fine, clock, FinePart(sample))
           \/ fine' = TruncateByTime(Push(fine, clock, FinePart(sample)),
                                     clock - backlog_time)
    PROVE  /\ Good(fine') /\ Aligned(fine)'
           /\ fine'.age = Len(scans')
           /\ \A i \in 1..Len(fine'.timestamps) : fine'.timestamps[i] <= clock
<1> DEFINE pushed == Push(fine, clock, FinePart(sample))
<1>1. clock - backlog_time \in Int /\ Len(scans') \in Nat
  <2>1. clock \in Nat /\ backlog_time \in Nat /\ scans \in Seq(Scan)
    BY TimeAssumption DEF IInv, TypeOK, Scan
  <2> DEFINE s == [at |-> clock, sample |-> sample]
  <2>2. s \in Scan
    BY <2>1 DEF Scan
  <2> HIDE DEF s
  <2>3. Len(scans') = Len(scans) + 1 /\ Len(scans) \in Nat
    BY <2>1, <2>2, AppendProperties DEF s
  <2> QED BY <2>1, <2>3
<1>2. Good(pushed) /\ pushed.age = Len(scans')
  BY PushedFine
<1>3. \A i \in 1..Len(pushed.timestamps) :
        /\ pushed.timestamps[i] = scans'[pushed.age + 1 - i].at
        /\ pushed.timestamps[i] <= clock
  BY PushedFine DEF Dated
<1> HIDE DEF pushed
<1>4. /\ Good(fine') /\ fine'.age = pushed.age
      /\ \A i \in 1..Len(fine'.timestamps) :
            /\ i \in 1..Len(pushed.timestamps)
            /\ fine'.timestamps[i] = pushed.timestamps[i]
  <2>1. CASE fine' = pushed
    BY <1>2, <2>1
  <2>2. CASE fine' = TruncateByTime(pushed, clock - backlog_time)
    <3>1. /\ Good(fine') /\ fine'.age = pushed.age
          /\ Len(fine'.timestamps) <= Len(pushed.timestamps)
          /\ \A i \in 1..Len(fine'.timestamps) : fine'.timestamps[i] = pushed.timestamps[i]
      BY <1>1, <1>2, <2>2, TruncateGood
    <3>2. Len(fine'.timestamps) \in Nat /\ Len(pushed.timestamps) \in Nat
      BY <1>2, <3>1 DEF Good, BacklogRecord
    <3> QED BY <3>1, <3>2
  <2> QED BY <2>1, <2>2 DEF pushed
<1>5. /\ fine'.age = Len(scans') /\ fine'.age <= Len(scans')
      /\ \A i \in 1..Len(fine'.timestamps) :
            /\ fine'.timestamps[i] = scans'[fine'.age + 1 - i].at
            /\ fine'.timestamps[i] <= clock
  <2>1. fine'.age = Len(scans') /\ fine'.age <= Len(scans')
    BY <1>1, <1>2, <1>4
  <2>2. ASSUME NEW i \in 1..Len(fine'.timestamps)
        PROVE  /\ fine'.timestamps[i] = scans'[fine'.age + 1 - i].at
               /\ fine'.timestamps[i] <= clock
    <3>1. i \in 1..Len(pushed.timestamps) /\ fine'.timestamps[i] = pushed.timestamps[i]
      BY <1>4
    <3> QED BY <1>3, <1>4, <3>1
  <2> QED BY <2>1, <2>2
<1> QED BY <1>4, <1>5 DEF Aligned

-----------------------------------------------------------------------------
(* The invariant is inductive                                              *)

LEMMA InitIInv == Init => IInv
<1> SUFFICES ASSUME Init PROVE IInv
  OBVIOUS
<1>1. /\ Good(EmptyBacklog) /\ EmptyBacklog.age = 0
      /\ EmptyBacklog.timestamps = << >> /\ EmptyBacklog \in BacklogRecord
  BY EmptyGood DEF Good
<1>2. TypeOK
  <2>1. EmptyTip \in TipHistory
    BY DEF EmptyTip, TipHistory
  <2>2. Start \in Nat /\ Start - 1 \in Int /\ Start \div Hour \in Int
    BY TimeAssumption
  <2>3. /\ backlog_time \in BacklogTimes /\ clock \in Nat /\ steps \in Nat /\ crashes \in Nat
        /\ proc \in {"up", "down", "panicked"} /\ asleep \in BOOLEAN
        /\ last_scan \in Int /\ last_store \in Nat /\ last_hourly \in Int
    BY <2>2 DEF Init
  <2>4. /\ fine \in BacklogRecord /\ tip \in TipHistory
        /\ slot \in Saved \cup {NoHistory} /\ disk \in Saved \cup {NoHistory}
        /\ scans \in Seq([at : Nat, sample : Sample])
    BY <1>1, <2>1 DEF Init
  <2> QED BY <2>3, <2>4 DEF TypeOK
<1>3. \A bl \in Backlogs : bl = fine
  BY BacklogsAre DEF Init
<1>4. Good(fine) /\ Aligned(fine) /\ Len(fine.timestamps) = 0
  BY <1>1 DEF Init, Aligned
<1>5. HistoryInWindow /\ TimestampsOK
  BY <1>3, <1>4, BacklogsEnough
<1>6. ScanCount /\ ClockOK
  BY <1>1, <1>3, <1>4, TimeAssumption DEF Init, ScanCount, ClockOK
<1> QED BY <1>2, <1>5, <1>6 DEF IInv

\* The parts of IInv that speak of the backlogs, after a step that changes
\* none of them but `fine', and appends to the scans at most.
LEMMA ScanStep ==
    ASSUME IInv, NEW sample \in Sample, Scanned,
           scans' = Append(scans, [at |-> clock, sample |-> sample]),
           \/ fine' = Push(fine, clock, FinePart(sample))
           \/ fine' = TruncateByTime(Push(fine, clock, FinePart(sample)),
                                     clock - backlog_time),
           tip' \in TipHistory,
           slot' = slot \/ slot' = [fine |-> fine', tip |-> tip'],
           last_store' \in Nat, last_hourly' \in Int
    PROVE  IInv'
<1> DEFINE s == [at |-> clock, sample |-> sample]
<1>1. /\ Good(fine') /\ Aligned(fine)' /\ fine'.age = Len(scans')
      /\ \A i \in 1..Len(fine'.timestamps) : fine'.timestamps[i] <= clock
  BY ScannedFine
<1>2. /\ clock' = clock /\ proc' = "up" /\ disk' = disk /\ steps' = steps
      /\ crashes' = crashes /\ backlog_time' = backlog_time
      /\ last_scan' = clock /\ asleep' = TRUE /\ proc = "up"
  BY DEF Scanned
<1>3. s \in Scan /\ scans \in Seq(Scan) /\ clock \in Nat
  BY DEF IInv, TypeOK, Scan
<1>4. fine' \in BacklogRecord
  BY <1>1 DEF Good
<1>5. TypeOK'
  <2>1. scans' \in Seq(Scan)
    <3> HIDE DEF s
    <3> QED BY <1>3, AppendProperties DEF s
  <2>2. slot' \in Saved \cup {NoHistory}
    BY <1>4 DEF IInv, TypeOK, Saved
  <2> QED BY <1>2, <1>3, <1>4, <2>1, <2>2 DEF IInv, TypeOK, Scan
<1>6. \A bl \in Backlogs' : bl \in Backlogs \/ bl = fine'
  BY <1>2 DEF Backlogs
<1>7. \A bl \in Backlogs : Good(bl) /\ Aligned(bl)'
  <2> TAKE bl \in Backlogs
  <2>1. Good(bl) /\ Aligned(bl)
    BY BacklogsGood
  <2> QED BY <1>3, <2>1, AppendAligned DEF Good
<1>8. (HistoryInWindow /\ TimestampsOK)'
  BY <1>1, <1>6, <1>7 DEF HistoryInWindow, TimestampsOK, Good, Aligned
<1>9. ScanCount'
  BY <1>1, <1>2 DEF ScanCount
<1>10. ClockOK'
  <2>1. \A bl \in Backlogs' : steps = 0 =>
          \A i \in 1..Len(bl.timestamps) : bl.timestamps[i] <= clock
    BY <1>1, <1>6 DEF IInv, ClockOK
  <2> QED BY <1>2, <1>3, <2>1 DEF ClockOK
<1> QED BY <1>5, <1>8, <1>9, <1>10 DEF IInv

LEMMA ScanOnlyKeeps ==
    ASSUME IInv, NEW sample \in Sample, ScanOnly(sample)
    PROVE  IInv'
<1>1. tip' \in TipHistory
  BY TipPushType DEF ScanOnly, IInv, TypeOK
<1>2. last_store' \in Nat /\ last_hourly' \in Int /\ slot' = slot
  BY DEF ScanOnly, IInv, TypeOK
<1> QED BY <1>1, <1>2, ScanStep DEF ScanOnly

LEMMA ScanAndStoreKeeps ==
    ASSUME IInv, NEW sample \in Sample, ScanAndStore(sample)
    PROVE  IInv'
<1>1. clock \in Nat /\ tip \in TipHistory /\ backlog_time \in Nat /\ last_hourly \in Int
  BY TimeAssumption DEF IInv, TypeOK
<1>2. tip' \in TipHistory
  <2> DEFINE pushed == TipPush(tip, clock, StatePart(sample))
             ts == clock - Smaller(backlog_time, TipTime)
  <2>1. pushed \in TipHistory
    BY <1>1, TipPushType
  <2>2. ts \in Int
    BY <1>1, TimeAssumption DEF Smaller
  <2>3. tip' = TipTruncate(pushed, ts)
    BY DEF ScanAndStore
  <2> HIDE DEF pushed, ts
  <2> QED BY <2>1, <2>2, <2>3, TipTruncateType
<1>3. last_store' \in Nat /\ last_hourly' \in Int
  BY <1>1, TimeAssumption DEF ScanAndStore
<1>4. \/ fine' = Push(fine, clock, FinePart(sample))
      \/ fine' = TruncateByTime(Push(fine, clock, FinePart(sample)), clock - backlog_time)
  BY DEF ScanAndStore
<1> QED BY <1>2, <1>3, <1>4, ScanStep DEF ScanAndStore

LEMMA WaitForClockKeeps ==
    ASSUME IInv, WaitForClock
    PROVE  IInv'
<1>1. TypeOK'
  BY DEF WaitForClock, IInv, TypeOK
<1>2. Backlogs' = Backlogs /\ scans' = scans /\ fine' = fine
  BY DEF WaitForClock, Backlogs
<1>3. (HistoryInWindow /\ TimestampsOK)'
  BY <1>2 DEF IInv, HistoryInWindow, TimestampsOK, Aligned
<1>4. ScanCount' /\ ClockOK'
  BY <1>2 DEF WaitForClock, IInv, ScanCount, ClockOK
<1> QED BY <1>1, <1>3, <1>4 DEF IInv

\* Losing the memory leaves what is on the disk.
LEMMA ForgetKeeps ==
    ASSUME IInv, Forget, proc' \in {"down", "panicked"}, crashes' \in Nat,
           steps = 0 => proc' # "panicked"
    PROVE  IInv'
<1>1. /\ fine' = EmptyBacklog /\ slot' = NoHistory /\ disk' = disk
      /\ clock' = clock /\ steps' = steps /\ clock \in Nat
      /\ last_scan' = 0 /\ asleep' = FALSE
  BY DEF Forget, IInv, TypeOK
<1>2. /\ Good(EmptyBacklog) /\ EmptyBacklog.age = 0
      /\ EmptyBacklog.timestamps = << >> /\ EmptyBacklog \in BacklogRecord
  BY EmptyGood DEF Good
<1>3. scans \in Seq(Scan)
  BY DEF IInv, TypeOK, Scan
<1>4. disk # NoHistory => /\ Good(disk.fine) /\ Aligned(disk.fine)
                          /\ disk.fine \in BacklogRecord /\ disk.fine.age \in Nat
  BY BacklogsGood, BacklogsAre DEF Good, BacklogRecord
<1>5. scans' \in Seq(Scan)
  <2>1. CASE disk = NoHistory
    BY <2>1 DEF Forget
  <2>2. CASE disk # NoHistory
    <3>1. Take(scans, disk.fine.age) \in Seq(Scan)
      BY <1>3, <1>4, <2>2, TakeProperties
    <3> QED BY <2>2, <3>1 DEF Forget
  <2> QED BY <2>1, <2>2
<1>6. TypeOK'
  <2>1. EmptyTip \in TipHistory
    BY DEF EmptyTip, TipHistory
  <2>2. /\ backlog_time' \in BacklogTimes /\ clock' \in Nat /\ steps' \in Nat
        /\ disk' \in Saved \cup {NoHistory}
    BY DEF Forget, IInv, TypeOK
  <2>3. /\ asleep' \in BOOLEAN
        /\ last_scan' \in Int /\ last_store' \in Nat /\ last_hourly' \in Int
    <3>1. asleep' \in BOOLEAN
      BY <1>1
    <3>2. last_scan' = 0 /\ last_store' = 0 /\ last_hourly' = 0
      BY DEF Forget
    <3> QED BY <3>1, <3>2
  <2>4. slot' \in Saved \cup {NoHistory}
    BY <1>1
  <2>5. tip' \in TipHistory
    <3>1. tip' = EmptyTip
      BY DEF Forget
    <3> QED BY <2>1, <3>1
  <2>6. fine' \in BacklogRecord
    BY <1>1, <1>2
  <2>7. proc' \in {"up", "down", "panicked"}
    OBVIOUS
  <2> QED BY <1>5, <2>2, <2>3, <2>4, <2>5, <2>6, <2>7 DEF TypeOK, Scan
<1>7. disk # NoHistory => Aligned(disk.fine)' /\ Len(scans') = disk.fine.age
  <2> SUFFICES ASSUME disk # NoHistory
               PROVE  Aligned(disk.fine)' /\ Len(scans') = disk.fine.age
    OBVIOUS
  <2> DEFINE bl == disk.fine
  <2>1. /\ bl \in BacklogRecord /\ WindowOK(bl) /\ Aligned(bl)
        /\ scans' = Take(scans, bl.age)
    BY <1>4 DEF Forget, Good
  <2>2. bl.age \in Nat /\ Len(bl.timestamps) \in Nat /\ Len(bl.timestamps) <= bl.age
        /\ Len(scans) \in Nat /\ bl.age <= Len(scans)
    BY <1>3, <2>1 DEF BacklogRecord, WindowOK, Aligned
  <2> HIDE DEF bl
  <2>3. /\ Len(scans') = bl.age
        /\ \A i \in 1..bl.age : scans'[i] = scans[i]
    BY <1>3, <2>1, <2>2, TakeProperties DEF Smaller
  <2>4. \A i \in 1..Len(bl.timestamps) :
           /\ bl.timestamps[i] = scans[bl.age + 1 - i].at
           /\ bl.age + 1 - i \in 1..bl.age
    BY <2>1, <2>2 DEF Aligned
  <2>5. /\ bl.age <= Len(scans')
        /\ \A i \in 1..Len(bl.timestamps) : bl.timestamps[i] = scans'[bl.age + 1 - i].at
    <3>1. bl.age <= Len(scans')
      BY <2>2, <2>3
    <3>2. ASSUME NEW i \in 1..Len(bl.timestamps)
          PROVE  bl.timestamps[i] = scans'[bl.age + 1 - i].at
      <4>1. scans'[bl.age + 1 - i] = scans[bl.age + 1 - i]
        BY <2>3, <2>4
      <4> QED BY <2>4, <4>1
    <3> QED BY <3>1, <3>2
  <2> QED BY <1>1, <2>3, <2>5 DEF Aligned, bl
<1>8. \A bl \in Backlogs' : bl = EmptyBacklog \/ (disk # NoHistory /\ bl = disk.fine)
  BY <1>1 DEF Backlogs
<1>9. \A bl \in Backlogs' : WindowOK(bl) /\ Descending(bl.timestamps)
  BY <1>2, <1>4, <1>8 DEF Good
<1>10. HistoryInWindow' /\ TimestampsOK'
  <2>1. Len(scans') \in Nat
    BY <1>5
  <2>2. \A bl \in Backlogs' : /\ bl.age <= Len(scans')
                              /\ \A i \in 1..Len(bl.timestamps) :
                                    bl.timestamps[i] = scans'[bl.age + 1 - i].at
    <3> TAKE bl \in Backlogs'
    <3>1. CASE bl = EmptyBacklog
      <4>1. bl.age = 0 /\ bl.timestamps = << >>
        BY <1>2, <3>1
      <4>2. 1..Len(bl.timestamps) = {}
        BY <4>1
      <4> QED BY <2>1, <4>1, <4>2
    <3>2. CASE disk # NoHistory /\ bl = disk.fine
      BY <1>1, <1>7, <3>2 DEF Aligned
    <3> QED BY <1>8, <3>1, <3>2
  <2> QED BY <1>9, <2>2 DEF HistoryInWindow, TimestampsOK, Aligned
<1>11. ScanCount'
  BY <1>1, <1>7 DEF ScanCount, Forget
<1>12. ClockOK'
  <2>1. disk # NoHistory => disk.fine \in Backlogs
    BY BacklogsAre
  <2> QED BY <1>1, <1>2, <1>8, <2>1 DEF IInv, ClockOK
<1> QED BY <1>6, <1>10, <1>11, <1>12 DEF IInv

\* The heart of PanicNeedsClockStep: with a clock that only went forward,
\* neither reason to panic exists.
LEMMA ScanPanicsKeeps ==
    ASSUME IInv, ScanPanics
    PROVE  IInv'
<1>1. steps # 0
  <2> SUFFICES ASSUME steps = 0 PROVE FALSE
    OBVIOUS
  <2>1. last_scan <= clock /\ clock \in Nat /\ last_scan \in Int
    BY DEF IInv, ClockOK, TypeOK
  <2>2. \A i \in 1..Len(fine.timestamps) : fine.timestamps[i] < clock
    BY DEF IInv, ClockOK, ScanPanics
  <2>3. fine.timestamps \in Seq(Nat)
    BY DEF IInv, TypeOK, BacklogRecord
  <2>4. Pushable(fine, clock)
    BY <2>1, <2>2, <2>3 DEF Pushable
  <2> QED BY <2>1, <2>4 DEF ScanPanics
<1>2. Forget /\ proc' \in {"down", "panicked"} /\ crashes' \in Nat
  BY DEF ScanPanics, IInv, TypeOK
<1> QED BY <1>1, <1>2, ForgetKeeps

LEMMA CrashKeeps ==
    ASSUME IInv, Crash
    PROVE  IInv'
<1>1. Forget /\ proc' = "down" /\ crashes' \in Nat
  BY DEF Crash, IInv, TypeOK
<1> QED BY <1>1, ForgetKeeps

LEMMA StorageTakesKeeps ==
    ASSUME IInv, StorageTakes
    PROVE  IInv'
<1>1. TypeOK'
  BY DEF StorageTakes, IInv, TypeOK
<1>2. Backlogs' \subseteq Backlogs /\ scans' = scans /\ fine' = fine
  BY DEF StorageTakes, Backlogs
<1>3. (HistoryInWindow /\ TimestampsOK)'
  BY <1>2 DEF IInv, HistoryInWindow, TimestampsOK, Aligned
<1>4. ScanCount'
  BY <1>2 DEF StorageTakes, IInv, ScanCount
<1>5. ClockOK'
  BY <1>2 DEF StorageTakes, IInv, ClockOK
<1> QED BY <1>1, <1>3, <1>4, <1>5 DEF IInv

LEMMA RestartKeeps ==
    ASSUME IInv, Restart
    PROVE  IInv'
<1>1. /\ Good(EmptyBacklog) /\ EmptyBacklog.age = 0
      /\ EmptyBacklog.timestamps = << >> /\ EmptyBacklog \in BacklogRecord
  BY EmptyGood DEF Good
<1>2. /\ clock \in Nat /\ clock - 1 \in Int /\ clock \div Hour \in Int
  BY TimeAssumption DEF IInv, TypeOK
<1>3. fine' \in BacklogRecord /\ tip' \in TipHistory
  <2>1. EmptyTip \in TipHistory
    BY DEF EmptyTip, TipHistory
  <2> QED BY <1>1, <2>1 DEF Restart, IInv, TypeOK, Saved
<1>4. TypeOK'
  BY <1>2, <1>3 DEF Restart, IInv, TypeOK
<1>5. fine = EmptyBacklog /\ slot = NoHistory /\ slot' = NoHistory /\ disk' = disk
      /\ scans' = scans
  BY DEF Restart, IInv, ScanCount
<1>6. Backlogs' \subseteq Backlogs
  BY <1>5 DEF Backlogs, Restart
<1>7. (HistoryInWindow /\ TimestampsOK)'
  BY <1>5, <1>6 DEF IInv, HistoryInWindow, TimestampsOK, Aligned
<1>8. ScanCount'
  BY <1>1, <1>5 DEF Restart, IInv, ScanCount
<1>9. ClockOK'
  BY <1>2, <1>6 DEF Restart, IInv, ClockOK
<1> QED BY <1>4, <1>7, <1>8, <1>9 DEF IInv

LEMMA TickKeeps ==
    ASSUME IInv, Tick
    PROVE  IInv'
<1>1. /\ clock \in Nat /\ clock' \in Nat /\ clock' > clock
      /\ last_scan' = last_scan /\ last_scan \in Int
  BY TimeAssumption DEF Tick, IInv, TypeOK
<1>2. TypeOK'
  BY <1>1 DEF Tick, IInv, TypeOK
<1>3. Backlogs' = Backlogs /\ scans' = scans /\ fine' = fine
  BY DEF Tick, Backlogs
<1>4. (HistoryInWindow /\ TimestampsOK)'
  BY <1>3 DEF IInv, HistoryInWindow, TimestampsOK, Aligned
<1>5. ScanCount'
  BY <1>3 DEF Tick, IInv, ScanCount
<1>6. \A bl \in Backlogs : \A i \in 1..Len(bl.timestamps) : bl.timestamps[i] \in Nat
  BY BacklogsGood DEF Good, BacklogRecord
<1>7. ClockOK'
  <2> SUFFICES ASSUME steps' = 0 PROVE ClockOK!2'
    BY DEF ClockOK
  <2>1. steps = 0 /\ proc' = proc /\ fine \in Backlogs
    BY BacklogsAre DEF Tick
  <2>2. /\ proc # "panicked" /\ last_scan <= clock
        /\ \A bl \in Backlogs : \A i \in 1..Len(bl.timestamps) : bl.timestamps[i] <= clock
    BY <2>1 DEF IInv, ClockOK
  <2>3. \A bl \in Backlogs : \A i \in 1..Len(bl.timestamps) :
            bl.timestamps[i] <= clock' /\ bl.timestamps[i] < clock'
    BY <1>1, <1>6, <2>2
  <2> QED BY <1>1, <1>3, <2>1, <2>2, <2>3
<1> QED BY <1>2, <1>4, <1>5, <1>7 DEF IInv

LEMMA StepBackKeeps ==
    ASSUME IInv, StepBack
    PROVE  IInv'
<1>1. clock' \in Nat /\ steps' \in Nat /\ steps' # 0
  BY TimeAssumption DEF StepBack, IInv, TypeOK
<1>2. TypeOK'
  BY <1>1 DEF StepBack, IInv, TypeOK
<1>3. Backlogs' = Backlogs /\ scans' = scans /\ fine' = fine
  BY DEF StepBack, Backlogs
<1>4. (HistoryInWindow /\ TimestampsOK)'
  BY <1>3 DEF IInv, HistoryInWindow, TimestampsOK, Aligned
<1>5. ScanCount' /\ ClockOK'
  BY <1>1, <1>3 DEF StepBack, IInv, ScanCount, ClockOK
<1> QED BY <1>2, <1>4, <1>5 DEF IInv

LEMMA StutterKeeps ==
    ASSUME IInv, UNCHANGED vars
    PROVE  IInv'
<1>1. TypeOK'
  BY DEF vars, IInv, TypeOK
<1>2. Backlogs' = Backlogs /\ scans' = scans /\ fine' = fine
  BY DEF vars, Backlogs
<1>3. (HistoryInWindow /\ TimestampsOK)'
  BY <1>2 DEF IInv, HistoryInWindow, TimestampsOK, Aligned
<1>4. ScanCount' /\ ClockOK'
  BY <1>2 DEF vars, IInv, ScanCount, ClockOK
<1> QED BY <1>1, <1>3, <1>4 DEF IInv

LEMMA NextKeepsIInv ==
    ASSUME IInv, [Next]_vars
    PROVE  IInv'
<1>1. ASSUME NEW sample \in Sample, ScanOnly(sample) PROVE IInv'
  BY <1>1, ScanOnlyKeeps
<1>2. ASSUME NEW sample \in Sample, ScanAndStore(sample) PROVE IInv'
  BY <1>2, ScanAndStoreKeeps
<1>3. CASE WaitForClock
  BY <1>3, WaitForClockKeeps
<1>4. CASE ScanPanics
  BY <1>4, ScanPanicsKeeps
<1>5. CASE StorageTakes
  BY <1>5, StorageTakesKeeps
<1>6. CASE Crash
  BY <1>6, CrashKeeps
<1>7. CASE Restart
  BY <1>7, RestartKeeps
<1>8. CASE Tick
  BY <1>8, TickKeeps
<1>9. CASE StepBack
  BY <1>9, StepBackKeeps
<1>10. CASE UNCHANGED vars
  BY <1>10, StutterKeeps
<1> QED
  BY <1>1, <1>2, <1>3, <1>4, <1>5, <1>6, <1>7, <1>8, <1>9, <1>10, SamplesAssumption DEF Next

-----------------------------------------------------------------------------
(* What the histories tell: TInv is inductive                              *)

\* What HistoriesTell says of one history and a log of scans.
Tells(log, h, time) ==
    /\ h.fine.age > 0 => h.fine.timestamps # << >>
    /\ BacklogTells(log, h.fine) /\ MetricsKept(log, h.fine)
    /\ TimeKept(log, h.fine, time)
    /\ TipTells(log, h.tip, h.fine.age, Smaller(time, TipTime))

LEMMA HistoriesTellAll ==
    HistoriesTell <=> \A h \in Histories : Tells(scans, h, backlog_time)
BY DEF HistoriesTell, Tells

\* The backlog of a history is a backlog.
LEMMA HistoriesGood ==
    ASSUME IInv
    PROVE  \A h \in Histories : /\ Good(h.fine) /\ Dated(scans, h.fine)
                                /\ h.fine.age \in Nat /\ h.fine.age <= Len(scans)
<1>1. \A h \in Histories : h.fine \in Backlogs
  BY BacklogsAre DEF Histories
<1>2. \A bl : Good(bl) => bl.age \in Nat
  BY DEF Good, BacklogRecord
<1> QED BY <1>1, <1>2, BacklogsGood DEF Dated, Aligned

\* A log with the same scans tells the same.
LEMMA TellsAgree ==
    ASSUME NEW log, NEW log2, NEW h, NEW time, Good(h.fine),
           \A a \in 1..h.fine.age : log2[a] = log[a], Tells(log, h, time)
    PROVE  Tells(log2, h, time)
<1>1. h.fine.age \in Nat
  BY DEF Good, BacklogRecord
<1>2. BacklogTells(log2, h.fine)
  BY BacklogTellsAgree DEF Tells
<1>3. TimeKept(log2, h.fine, time) /\ MetricsKept(log2, h.fine)
  BY TimeKeptAgree, MetricsKeptAgree DEF Tells
<1>4. TipTells(log2, h.tip, h.fine.age, Smaller(time, TipTime))
  BY <1>1, TipTellsAgree DEF Tells
<1> QED BY <1>2, <1>3, <1>4 DEF Tells

LEMMA EmptyHistoryTells ==
    ASSUME NEW log, NEW h, NEW time, h.fine = EmptyBacklog, h.tip = EmptyTip
    PROVE  Tells(log, h, time)
<1>1. EmptyBacklog.age = 0
  BY DEF EmptyBacklog
<1> QED BY <1>1, EmptyTells, EmptyMetricsKept, EmptyTimeKept, EmptyTipTells DEF Tells

\* The assertion of Backlog::push orders all the scans there ever were.
LEMMA ScanOrdered ==
    ASSUME TInv, NEW sample \in Sample, Scanned,
           scans' = Append(scans, [at |-> clock, sample |-> sample])
    PROVE  /\ LogOrdered(scans') /\ scans' \in Seq(Scan)
           /\ Len(scans') = Len(scans) + 1 /\ Len(scans) \in Nat
           /\ \A a \in 1..Len(scans) : scans'[a] = scans[a]
           /\ scans'[Len(scans) + 1] = [at |-> clock, sample |-> sample]
<1> DEFINE s == [at |-> clock, sample |-> sample]
<1>1. /\ IInv /\ ScansInOrder /\ clock \in Nat /\ Pushable(fine, clock)
      /\ scans \in Seq(Scan) /\ fine.age = Len(scans)
  BY DEF TInv, IInv, TypeOK, Scan, Scanned, ScanCount
<1>2. s \in Scan
  BY <1>1 DEF Scan
<1> HIDE DEF s
<1>3. /\ scans' \in Seq(Scan) /\ Len(scans') = Len(scans) + 1 /\ Len(scans) \in Nat
      /\ \A a \in 1..Len(scans) : scans'[a] = scans[a]
      /\ scans'[Len(scans) + 1] = s
  BY <1>1, <1>2, AppendProperties DEF s
<1>4. \A a \in 1..Len(scans) : scans[a] \in Scan
  <2> HIDE DEF Scan
  <2> QED BY <1>1
<1>5. ASSUME NEW a \in 1..Len(scans) PROVE scans[a].at < clock
  <2>1. fine.age > 0
    BY <1>1, <1>3
  <2>2. fine.timestamps # << >>
    <3>1. [fine |-> fine, tip |-> tip] \in Histories
      BY DEF Histories
    <3> QED BY <2>1, <3>1 DEF TInv, HistoriesTell
  <2>3. 1 \in 1..Len(fine.timestamps) /\ fine.timestamps \in Seq(Nat)
    BY <1>1, <2>2 DEF IInv, TypeOK, BacklogRecord
  <2>4. Aligned(fine)
    BY <1>1, BacklogsGood, BacklogsAre
  <2>5. fine.timestamps[1] = scans[fine.age + 1 - 1].at /\ fine.age + 1 - 1 = Len(scans)
    BY <1>1, <1>3, <2>3, <2>4 DEF Aligned
  <2>6. scans[Len(scans)].at < clock
    BY <1>1, <2>2, <2>5 DEF Pushable
  <2>7. scans[a].at \in Nat /\ scans[Len(scans)].at \in Nat
    <3>1. Len(scans) \in 1..Len(scans)
      BY <1>3
    <3> QED BY <1>4, <3>1 DEF Scan
  <2>8. a = Len(scans) \/ scans[a].at < scans[Len(scans)].at
    BY <1>1, <1>3 DEF ScansInOrder
  <2> QED BY <1>1, <2>6, <2>7, <2>8
<1>6. ASSUME NEW a \in 1..Len(scans'), NEW b \in 1..Len(scans'), a < b
      PROVE  scans'[a].at < scans'[b].at
  <2>1. a \in 1..Len(scans)
    BY <1>3, <1>6
  <2>2. CASE b = Len(scans')
    BY <1>3, <1>5, <2>1, <2>2 DEF s
  <2>3. CASE b # Len(scans')
    <3>1. b \in 1..Len(scans)
      BY <1>3, <2>3
    <3> QED BY <1>1, <1>3, <1>6, <2>1, <3>1 DEF ScansInOrder
  <2> QED BY <2>2, <2>3
<1> QED BY <1>3, <1>6 DEF LogOrdered, s

\* A scan: what it saw is told, and nothing that was told is lost.
LEMMA ScanTells ==
    ASSUME TInv, NEW sample \in Sample, Scanned,
           scans' = Append(scans, [at |-> clock, sample |-> sample]),
           \/ fine' = Push(fine, clock, FinePart(sample))
           \/ fine' = TruncateByTime(Push(fine, clock, FinePart(sample)),
                                     clock - backlog_time),
           \/ tip' = TipPush(tip, clock, StatePart(sample))
           \/ tip' = TipTruncate(TipPush(tip, clock, StatePart(sample)),
                                 clock - Smaller(backlog_time, TipTime)),
           slot' = slot \/ slot' = [fine |-> fine', tip |-> tip']
    PROVE  ScansInOrder' /\ HistoriesTell'
<1> DEFINE log == scans'
           age == Len(scans)
           pushed == Push(fine, clock, FinePart(sample))
           tips == TipPush(tip, clock, StatePart(sample))
           tiptime == Smaller(backlog_time, TipTime)
           h == [fine |-> fine, tip |-> tip]
           new == [fine |-> fine', tip |-> tip']
<1>1. /\ LogOrdered(log) /\ log \in Seq(Scan) /\ Len(log) = age + 1 /\ age \in Nat
      /\ \A a \in 1..age : log[a] = scans[a]
      /\ log[age + 1].at = clock /\ log[age + 1].sample = sample
  <2> HIDE DEF log
  <2> QED BY ScanOrdered DEF log
<1>2. /\ IInv /\ clock \in Nat /\ backlog_time \in Nat /\ tiptime \in Nat
      /\ fine.age = age
  BY TimeAssumption DEF TInv, IInv, TypeOK, ScanCount, Scanned, Smaller
<1>3. /\ Good(pushed) /\ pushed.age = age + 1 /\ Dated(log, pushed)
      /\ pushed.timestamps # << >> /\ pushed.timestamps[1] = clock
  BY <1>2, PushedFine
<1>4. h \in Histories /\ h.fine = fine /\ h.tip = tip /\ Good(fine)
  <2>1. h \in Histories /\ h.fine = fine /\ h.tip = tip
    BY DEF Histories
  <2> HIDE DEF h
  <2>2. Good(h.fine)
    BY <1>2, <2>1, HistoriesGood
  <2> QED BY <2>1, <2>2
<1>5. Tells(log, h, backlog_time)
  <2> HIDE DEF h, log
  <2>1. Tells(scans, h, backlog_time)
    BY <1>4, HistoriesTellAll DEF TInv
  <2> QED BY <1>1, <1>2, <1>4, <2>1, TellsAgree
<1>6. /\ BacklogTells(log, fine) /\ MetricsKept(log, fine)
      /\ TimeKept(log, fine, backlog_time)
      /\ TipTells(log, tip, age, tiptime)
  BY <1>2, <1>4, <1>5 DEF Tells
<1> HIDE DEF log, age, h
<1>7. BacklogTells(log, pushed) /\ MetricsKept(log, pushed) /\ TimeKept(log, pushed, backlog_time)
  <2>1. fine.age + 1 <= Len(log) /\ log[fine.age + 1].sample = sample
    BY <1>1, <1>2
  <2>2. BacklogTells(log, pushed)
    BY <1>1, <1>4, <1>6, <2>1, PushTells
  <2>3. TimeKept(log, pushed, backlog_time)
    BY <1>1, <1>2, <1>4, <1>6, <2>1, PushKeepsTime
  <2>4. MetricsKept(log, pushed)
    BY <1>1, <1>4, <1>6, <2>1, PushKeepsMetrics
  <2> QED BY <2>2, <2>3, <2>4
<1> HIDE DEF tiptime
<1>8. TipTells(log, tips, age + 1, tiptime)
  BY <1>1, <1>2, <1>6, TipPushTells
<1> HIDE DEF pushed, tips
<1>9. /\ fine'.age = age + 1 /\ fine'.timestamps # << >>
       /\ BacklogTells(log, fine') /\ MetricsKept(log, fine')
       /\ TimeKept(log, fine', backlog_time)
  <2>1. CASE fine' = pushed
    BY <1>3, <1>7, <2>1
  <2> DEFINE ts == clock - backlog_time
  <2>2. CASE fine' = TruncateByTime(pushed, ts)
    <3>1. ts \in Int /\ pushed.timestamps[1] >= ts /\ log[pushed.age].at = clock
      BY <1>1, <1>2, <1>3
    <3>2. ts = log[pushed.age].at - backlog_time
      BY <3>1
    <3> HIDE DEF ts
    <3>3. fine'.age = age + 1
      BY <1>3, <2>2, <3>1, TruncateGood
    <3>4. fine'.timestamps # << >>
      BY <1>3, <2>2, <3>1, TruncateKeepsNewest
    <3>5. BacklogTells(log, fine')
      BY <1>3, <1>7, <2>2, <3>1, TruncateTells
    <3>6. TimeKept(log, fine', backlog_time)
      BY <1>1, <1>2, <1>3, <1>7, <2>2, <3>1, <3>2, TruncateKeepsTime
    <3>7. MetricsKept(log, fine')
      BY <1>1, <1>3, <1>7, <2>2, <3>1, TruncateKeepsMetrics
    <3> QED BY <3>3, <3>4, <3>5, <3>6, <3>7
  <2> QED BY <2>1, <2>2 DEF pushed
<1>10. TipTells(log, tip', age + 1, tiptime)
  <2>1. CASE tip' = tips
    BY <1>8, <2>1
  <2> DEFINE ts == clock - tiptime
  <2>2. CASE tip' = TipTruncate(tips, ts)
    <3> DEFINE n == age + 1
    <3>1. ts \in Int /\ ts = log[n].at - tiptime /\ n \in Nat /\ n <= Len(log)
          /\ TipTells(log, tips, n, tiptime)
      BY <1>1, <1>2, <1>8
    <3> HIDE DEF ts, n
    <3>2. TipTells(log, tip', n, tiptime)
      BY <1>1, <1>2, <2>2, <3>1, TipTruncateTells
    <3> QED BY <3>2 DEF n
  <2> QED BY <2>1, <2>2 DEF tips, tiptime
<1>11. Tells(log, new, backlog_time)
  BY <1>9, <1>10 DEF Tells, tiptime
<1>12. ASSUME NEW g \in Histories PROVE Tells(log, g, backlog_time)
  <2>1. Good(g.fine) /\ g.fine.age \in Nat /\ g.fine.age <= age
    BY <1>2, HistoriesGood DEF age
  <2>2. \A a \in 1..g.fine.age : log[a] = scans[a]
    BY <1>1, <2>1
  <2>3. Tells(scans, g, backlog_time)
    BY HistoriesTellAll DEF TInv
  <2> QED BY <2>1, <2>2, <2>3, TellsAgree
<1>13. \A g \in Histories' : g \in Histories \/ g = new
  BY DEF Histories, Scanned
<1>14. backlog_time' = backlog_time
  BY DEF Scanned
<1>15. HistoriesTell'
  BY <1>11, <1>12, <1>13, <1>14 DEF HistoriesTell, Tells, log
<1>16. ScansInOrder'
  BY <1>1 DEF ScansInOrder, LogOrdered, log
<1> QED BY <1>15, <1>16

\* A step that adds no history and keeps the scans.
LEMMA SameTells ==
    ASSUME TInv, scans' = scans, backlog_time' = backlog_time,
           \A h \in Histories' : h \in Histories \/ (h.fine = EmptyBacklog /\ h.tip = EmptyTip)
    PROVE  ScansInOrder' /\ HistoriesTell'
<1>1. \A h \in Histories' : Tells(scans, h, backlog_time)
  <2> TAKE h \in Histories'
  <2>1. CASE h \in Histories
    BY <2>1, HistoriesTellAll DEF TInv
  <2>2. CASE h.fine = EmptyBacklog /\ h.tip = EmptyTip
    BY <2>2, EmptyHistoryTells
  <2> QED BY <2>1, <2>2
<1>2. HistoriesTell'
  BY <1>1 DEF HistoriesTell, Tells
<1>3. ScansInOrder'
  BY DEF TInv, ScansInOrder
<1> QED BY <1>2, <1>3

\* What is on the disk tells of the scans that are not forgotten.
LEMMA ForgetTells ==
    ASSUME TInv, Forget
    PROVE  ScansInOrder' /\ HistoriesTell'
<1>1. IInv /\ ScansInOrder /\ HistoriesTell /\ scans \in Seq(Scan) /\ Len(scans) \in Nat
  BY DEF TInv, IInv, TypeOK, Scan
<1>2. disk # NoHistory => disk \in Histories
  BY DEF Histories
<1>3. CASE disk = NoHistory
  <2>1. scans' = << >> /\ Len(scans') = 0
    BY <1>3 DEF Forget
  <2>2. \A h \in Histories' : h.fine = EmptyBacklog /\ h.tip = EmptyTip
    BY <1>3 DEF Histories, Forget
  <2>3. \A h \in Histories' : Tells(scans', h, backlog_time')
    BY <2>2, EmptyHistoryTells
  <2>4. HistoriesTell'
    BY <2>3 DEF HistoriesTell, Tells
  <2>5. ScansInOrder'
    BY <2>1 DEF ScansInOrder
  <2> QED BY <2>4, <2>5
<1>4. CASE disk # NoHistory
  <2> DEFINE age == disk.fine.age
             log == scans'
  <2>1. Good(disk.fine) /\ age \in Nat /\ age <= Len(scans)
    BY <1>1, <1>2, <1>4, HistoriesGood
  <2>2. log = Take(scans, age)
    BY <1>4 DEF Forget
  <2>3. Len(log) = age /\ \A a \in 1..age : log[a] = scans[a]
    <3> HIDE DEF age, log
    <3> QED BY <1>1, <2>1, <2>2, TakeProperties DEF Smaller
  <2>4. ScansInOrder'
    <3>1. \A a \in 1..age : a \in 1..Len(scans)
      BY <1>1, <2>1
    <3> QED BY <1>1, <2>3, <3>1 DEF ScansInOrder
  <2>5. Tells(scans, disk, backlog_time)
    BY <1>1, <1>2, <1>4, HistoriesTellAll
  <2>6. Tells(log, disk, backlog_time)
    BY <2>1, <2>3, <2>5, TellsAgree
  <2>7. \A h \in Histories' : h = disk \/ (h.fine = EmptyBacklog /\ h.tip = EmptyTip)
    BY DEF Histories, Forget
  <2>8. backlog_time' = backlog_time
    BY DEF Forget
  <2> HIDE DEF log, age
  <2>9. \A h \in Histories' : Tells(log, h, backlog_time)
    BY <2>6, <2>7, EmptyHistoryTells
  <2>10. HistoriesTell'
    BY <2>8, <2>9 DEF HistoriesTell, Tells, log
  <2> QED BY <2>4, <2>10
<1> QED BY <1>3, <1>4

LEMMA NextKeepsTInv ==
    ASSUME TInv, [Next]_vars
    PROVE  TInv'
<1>1. IInv'
  BY NextKeepsIInv DEF TInv
<1> SUFFICES ScansInOrder' /\ HistoriesTell'
  BY <1>1 DEF TInv
<1>2. ASSUME NEW sample \in Sample, ScanOnly(sample)
      PROVE  ScansInOrder' /\ HistoriesTell'
  BY <1>2, ScanTells DEF ScanOnly
<1>3. ASSUME NEW sample \in Sample, ScanAndStore(sample)
      PROVE  ScansInOrder' /\ HistoriesTell'
  BY <1>3, ScanTells DEF ScanAndStore
<1>4. CASE WaitForClock \/ Tick \/ StepBack \/ UNCHANGED vars
  <2>1. /\ scans' = scans /\ backlog_time' = backlog_time
        /\ fine' = fine /\ tip' = tip /\ slot' = slot /\ disk' = disk
    BY <1>4 DEF WaitForClock, Tick, StepBack, vars
  <2>2. Histories' = Histories
    BY <2>1 DEF Histories
  <2> QED BY <2>1, <2>2, SameTells
<1>5. CASE ScanPanics \/ Crash
  BY <1>5, ForgetTells DEF ScanPanics, Crash
<1>6. CASE StorageTakes
  <2>1. \A h \in Histories' : h \in Histories
    BY <1>6 DEF StorageTakes, Histories
  <2> QED BY <1>6, <2>1, SameTells DEF StorageTakes
<1>7. CASE Restart
  <2>1. disk # NoHistory => disk = [fine |-> disk.fine, tip |-> disk.tip]
    BY DEF TInv, IInv, TypeOK, Saved
  <2>2. \A h \in Histories' : h \in Histories \/ (h.fine = EmptyBacklog /\ h.tip = EmptyTip)
    BY <1>7, <2>1 DEF Restart, Histories
  <2> QED BY <1>7, <2>2, SameTells DEF Restart
<1> QED BY <1>2, <1>3, <1>4, <1>5, <1>6, <1>7, SamplesAssumption DEF Next

LEMMA InitTInv == Init => TInv
<1> SUFFICES ASSUME Init PROVE TInv
  OBVIOUS
<1>1. IInv
  BY InitIInv
<1>2. \A h \in Histories : h.fine = EmptyBacklog /\ h.tip = EmptyTip
  BY DEF Histories, Init
<1>3. HistoriesTell
  BY <1>2, EmptyHistoryTells, HistoriesTellAll
<1>4. Len(scans) = 0
  BY DEF Init
<1>5. ScansInOrder
  BY <1>4 DEF ScansInOrder
<1> QED BY <1>1, <1>3, <1>5 DEF TInv

LEMMA TInvInvariant == Spec => []TInv
BY InitTInv, NextKeepsTInv, PTL DEF Spec

-----------------------------------------------------------------------------
(* The theorems                                                            *)

LEMMA IInvInvariant == Spec => []IInv
BY InitIInv, NextKeepsIInv, PTL DEF Spec

\* Type correctness of the scan thread and its history.
THEOREM TypeCorrect == Spec => []TypeOK
<1>1. IInv => TypeOK
  BY DEF IInv
<1> QED BY <1>1, IInvInvariant, PTL

\* However scans, gaps, type changes, truncations, crashes and restarts
\* interleave, no value of the backlog speaks of a scan whose timestamp is
\* gone: the indexes of query.rs and carbon/util.rs stay in the deque.
THEOREM WindowKept == Spec => []HistoryInWindow
<1>1. IInv => HistoryInWindow
  BY DEF IInv
<1> QED BY <1>1, IInvInvariant, PTL

\* The timestamps are the times of the scans they are counted for, strictly
\* descending, in memory and in every snapshot.
THEOREM TimestampsKept == Spec => []TimestampsOK
<1>1. IInv => TimestampsOK
  BY DEF IInv
<1> QED BY <1>1, IInvInvariant, PTL

\* The assertion of Backlog::push and the panic of scan_loop are out of reach
\* for a clock that is never set back, across any number of restarts.
THEOREM NoPanicWithoutClockStep == Spec => []PanicNeedsClockStep
<1>1. IInv => PanicNeedsClockStep
  BY DEF IInv, ClockOK, PanicNeedsClockStep, TypeOK
<1> QED BY <1>1, IInvInvariant, PTL

\* However long the history and whatever is cut when, no scan that is within
\* the configured time of the newest one loses its timestamp.
THEOREM HistoryKept == Spec => []BacklogTimeKept
<1>1. TInv => BacklogTimeKept
  <2> SUFFICES ASSUME TInv PROVE BacklogTimeKept
    OBVIOUS
  <2>1. TimeKept(scans, fine, backlog_time)
    <3>1. [fine |-> fine, tip |-> tip] \in Histories
      BY DEF Histories
    <3> QED BY <3>1 DEF TInv, HistoriesTell
  <2> QED BY <2>1 DEF BacklogTimeKept, TimeKept
<1> QED BY <1>1, TInvInvariant, PTL

\* The state shown of a metric is the one that was seen last, with its time;
\* it disappears only when it is old enough.
THEOREM TipShown == Spec => []TipIsLatest
<1>1. TInv => TipIsLatest
  <2> SUFFICES ASSUME TInv, proc = "up", NEW k \in Key
               PROVE  LET seen == {a \in 1..Len(scans) : SampleOf(k, "state", a) # NoValue}
                          last == Latest(seen)
                      IN  /\ tip[k] # NoValue =>
                               /\ seen # {}
                               /\ tip[k] = [at |-> scans[last].at,
                                            val |-> SampleOf(k, "state", last)]
                          /\ tip[k] = NoValue /\ seen # {} =>
                               scans[last].at < scans[Len(scans)].at
                                                  - Smaller(backlog_time, TipTime)
    BY DEF TipIsLatest
  <2> DEFINE n == Len(scans)
             S(a) == SampleOf(k, "state", a)
             seen == {a \in 1..n : S(a) # NoValue}
             tiptime == Smaller(backlog_time, TipTime)
  <2>1. n \in Nat /\ fine.age = n
    BY DEF TInv, IInv, TypeOK, ScanCount
  <2>2. TipTells(scans, tip, n, tiptime)
    <3>1. [fine |-> fine, tip |-> tip] \in Histories
      BY DEF Histories
    <3>2. TipTells(scans, tip, fine.age, tiptime)
      BY <3>1 DEF TInv, HistoriesTell
    <3> QED BY <2>1, <3>2
  <2>3. /\ tip[k] # NoValue =>
             \E a \in 1..n : /\ S(a) # NoValue
                             /\ \A b \in a + 1 .. n : S(b) = NoValue
                             /\ tip[k] = [at |-> scans[a].at, val |-> S(a)]
        /\ tip[k] = NoValue =>
             \A a \in 1..n : S(a) # NoValue => scans[a].at < scans[n].at - tiptime
    BY <2>2 DEF TipTells, SampleOf
  <2> HIDE DEF n, S, tiptime
  <2>4. CASE tip[k] # NoValue
    <3>1. PICK a \in 1..n : /\ S(a) # NoValue
                            /\ \A b \in a + 1 .. n : S(b) = NoValue
                            /\ tip[k] = [at |-> scans[a].at, val |-> S(a)]
      BY <2>3, <2>4
    <3>2. a \in seen
      BY <3>1
    <3>3. ASSUME NEW b \in seen PROVE b <= a
      BY <2>1, <3>1
    <3> HIDE DEF seen
    <3>4. \A b \in seen : (\A c \in seen : c <= b) => b = a
      <4>1. \A b \in seen : b \in Nat
        BY <2>1 DEF seen
      <4> QED BY <3>2, <3>3, <4>1
    <3>5. Latest(seen) = a
      BY <3>2, <3>3, <3>4 DEF Latest
    <3> QED BY <2>4, <3>1, <3>2, <3>5 DEF seen, S, n
  <2>5. CASE tip[k] = NoValue
    <3> SUFFICES ASSUME seen # {}
                 PROVE  scans[Latest(seen)].at < scans[n].at - tiptime
      BY <2>5 DEF seen, S, n, tiptime
    <3>1. seen \in SUBSET (0..n)
      BY <2>1
    <3>2. \A a \in seen : scans[a].at < scans[n].at - tiptime
      BY <2>3, <2>5
    <3> HIDE DEF seen
    <3>3. \E a \in seen : \A b \in seen : b <= a
      BY <2>1, <3>1, GreatestExists
    <3>4. Latest(seen) \in seen
      BY <3>3 DEF Latest
    <3> QED BY <3>2, <3>4
  <2> QED BY <2>4, <2>5
<1> QED BY <1>1, TInvInvariant, PTL

\* Where the history is cut nothing older than the configured time stays.
THEOREM Bounded == Spec => HistoryBounded
<1>1. IInv /\ [Next]_vars =>
          [proc = "up" /\ slot' # slot /\ slot' # NoHistory
              /\ (Hourly => last_hourly' # last_hourly)
           => \A i \in 1..Len(fine'.timestamps) :
                  fine'.timestamps[i] >= clock - backlog_time]_vars
  <2> SUFFICES ASSUME IInv, Next, slot' # slot, slot' # NoHistory,
                      Hourly => last_hourly' # last_hourly
               PROVE  \A i \in 1..Len(fine'.timestamps) :
                         fine'.timestamps[i] >= clock - backlog_time
    OBVIOUS
  <2>1. PICK sample \in Sample : ScanAndStore(sample)
    BY SamplesAssumption
       DEF Next, ScanOnly, WaitForClock, ScanPanics, StorageTakes, Crash, Restart, Tick,
           StepBack, Forget
  <2> DEFINE pushed == Push(fine, clock, FinePart(sample))
             ts == clock - backlog_time
  <2>2. fine' = TruncateByTime(pushed, ts)
    BY <2>1 DEF ScanAndStore
  <2>3. Good(pushed)
    BY <2>1, PushedFine DEF ScanAndStore
  <2>4. ts \in Int
    BY TimeAssumption DEF IInv, TypeOK
  <2> HIDE DEF pushed, ts
  <2>5. \A i \in 1..Len(fine'.timestamps) : fine'.timestamps[i] >= ts
    BY <2>2, <2>3, <2>4, TruncateGood
  <2> QED BY <2>5 DEF ts
<1> QED BY <1>1, IInvInvariant, PTL DEF Spec, HistoryBounded

\* What the invariant says of a metric in memory.
LEMMA MetricTold ==
    ASSUME TInv, NEW k \in Key, NEW v, v = fine.values[k], v # NoValue
    PROVE  /\ Good(fine) /\ Dated(scans, fine) /\ fine.timestamps # << >>
           /\ scans \in Seq(Scan) /\ Len(scans) \in Nat
           /\ fine.age \in Nat /\ fine.age <= Len(scans)
           /\ Fits(v, fine.age) /\ ValueTells(scans, k, v, fine.age)
<1> DEFINE h == [fine |-> fine, tip |-> tip]
<1>1. h \in Histories /\ h.fine = fine
  BY DEF Histories
<1> HIDE DEF h
<1>2. /\ Good(fine) /\ Dated(scans, fine) /\ fine.age \in Nat /\ fine.age <= Len(scans)
  BY <1>1, HistoriesGood DEF TInv
<1>3. BacklogTells(scans, fine) /\ (fine.age > 0 => fine.timestamps # << >>)
  BY <1>1 DEF TInv, HistoriesTell
<1>4. Fits(v, fine.age)
  BY <1>2, HistoryFits
<1>5. fine.age > 0
  BY <1>2, <1>4, FitsParts
<1>6. scans \in Seq(Scan) /\ Len(scans) \in Nat
  BY DEF TInv, IInv, TypeOK, Scan
<1> QED BY <1>2, <1>3, <1>4, <1>5, <1>6 DEF BacklogTells

\* However gaps, type changes, truncations and restarts combined: the readers
\* index within the deque, a rate has its two times in order and no value of
\* an answer is without its timestamp.
THEOREM ReadersInRange == Spec => []ReadsInRange
<1>1. TInv => ReadsInRange
  <2> SUFFICES ASSUME TInv, NEW k \in Key, NEW v, v = fine.values[k], v # NoValue
               PROVE  /\ TipIndex(fine, v) \in 0 .. Len(fine.timestamps) - 1
                      /\ \A n \in 1 .. Len(fine.timestamps) :
                            /\ KnownIndexes(fine, v, n) # {} =>
                                 /\ LastKnown(fine, v, n)
                                       \in TipIndex(fine, v) .. Len(fine.timestamps) - 1
                                 /\ LET d == DiffToAtMost(fine, v, n) IN d.from >= d.to
                            /\ LET h == HistoryByNum(fine, v, n)
                               IN  Len(h.values) <= Len(h.timestamps)
                            /\ LET h == HistoryByTime(fine, v, n)
                               IN  Len(h.values) <= Len(h.timestamps)
    BY DEF ReadsInRange
  <2>1. Good(fine) /\ fine.timestamps # << >>
    BY MetricTold
  <2>2. TipIndex(fine, v) \in 0 .. Len(fine.timestamps) - 1 /\ Len(fine.timestamps) \in Nat
    BY <2>1, HistoryFits
  <2>3. ASSUME NEW n \in 1 .. Len(fine.timestamps)
        PROVE  /\ KnownIndexes(fine, v, n) # {} =>
                    /\ LastKnown(fine, v, n) \in TipIndex(fine, v) .. Len(fine.timestamps) - 1
                    /\ DiffToAtMost(fine, v, n).from >= DiffToAtMost(fine, v, n).to
               /\ LET h == HistoryByNum(fine, v, n)
                  IN  Len(h.values) <= Len(h.timestamps)
               /\ LET h == HistoryByTime(fine, v, n)
                  IN  Len(h.values) <= Len(h.timestamps)
    <3>1. \A m \in 1 .. Len(fine.timestamps) : m \in Nat
      BY <2>2
    <3>2. ASSUME KnownIndexes(fine, v, n) # {}
          PROVE  /\ LastKnown(fine, v, n) \in TipIndex(fine, v) .. Len(fine.timestamps) - 1
                 /\ DiffToAtMost(fine, v, n).from >= DiffToAtMost(fine, v, n).to
      BY <2>1, <3>1, <3>2, LastKnownProperties, DiffProperties
    <3>3. \A m \in 1 .. Len(fine.timestamps) :
            Len(HistoryByNum(fine, v, m).values) <= Len(HistoryByNum(fine, v, m).timestamps)
      BY <2>1, <3>1, ByNumProperties
    <3>4. PICK num \in 1..Len(fine.timestamps) :
            HistoryByTime(fine, v, n) = HistoryByNum(fine, v, num)
      BY <2>1, ByTimeProperties
    <3> QED BY <3>2, <3>3, <3>4
  <2> QED BY <2>2, <2>3
<1> QED BY <1>1, TInvInvariant, PTL

\* What a client is shown of a counter or an integer that every scan saw is
\* what the scans read, each number at the timestamp of its scan; only what
\* stands before a decrease is hidden.
THEOREM GaplessShown == Spec => []GaplessExact
<1>1. TInv => GaplessExact
  <2> SUFFICES ASSUME TInv, NEW k \in Key, NEW v, v = fine.values[k], v # NoValue,
                      v.kind # "float",
                      NEW h, h = History(v, fine.age),
                      \A i \in fine.age - v.age + 1 .. Len(h) :
                         SampleOf(k, v.kind, fine.age + 1 - i) # NoValue,
                      NEW i \in 1..Len(h)
               PROVE  h[i] = IF /\ i > fine.age - v.age + 1
                                /\ SampleOf(k, v.kind, fine.age + 1 - i)
                                      > SampleOf(k, v.kind, fine.age + 1 - (i - 1))
                             THEN NoValue
                             ELSE SampleOf(k, v.kind, fine.age + 1 - i)
    BY DEF GaplessExact
  <2> DEFINE age == fine.age
             va == v.age
             lv == Len(v.buf)
             gone == age - va
             S(a) == SampleAt(scans, k, v.kind, a)
             ll == Len(scans)
  <2>1. /\ age \in Nat /\ va \in 1..age /\ lv \in Nat /\ lv < va
        /\ age <= ll /\ ll \in Nat
        /\ Fits(v, age) /\ ValueTells(scans, k, v, age) /\ scans \in Seq(Scan)
        /\ v.kind \in FineKind
    BY MetricTold, FitsParts
  <2>2. /\ gone \in Nat /\ Len(h) = gone + 1 + lv
        /\ \A j \in 1..gone : h[j] = NoValue
        /\ h[gone + 1] = v.tip
        /\ \A n \in 1..lv : h[gone + 1 + n] = BufItem(v, n)
    <3>1. h = History(v, age) /\ gone = age - v.age
      OBVIOUS
    <3> HIDE DEF age, gone
    <3>2. Fits(v, age) /\ age \in Nat
      BY <2>1
    <3> QED BY ONLY <3>1, <3>2, HistoryItems
  <2>3. \A j \in gone + 1 .. gone + 1 + lv : S(age + 1 - j) # NoValue
    BY <2>2 DEF SampleOf
  <2> HIDE DEF age, va, lv, gone, S, ll
  <2>4. \A a \in va - lv .. va : S(a) # NoValue
    <3> TAKE a \in va - lv .. va
    <3> DEFINE j == (age + 1) - a
    <3>1. a \in Int /\ va - lv <= a /\ a <= va /\ age \in Int /\ va \in Int /\ lv \in Int
      BY <2>1
    <3>2. j \in gone + 1 .. gone + 1 + lv /\ age + 1 - j = a
      BY ONLY <3>1 DEF gone
    <3> HIDE DEF j
    <3> QED BY <2>3, <3>2
  <2>5. CASE i <= gone
    <3>1. i \in 1..gone /\ ~ (i > gone + 1)
      BY <2>2, <2>5
    <3>2. age + 1 - i \in va + 1 .. age /\ age + 1 - i \in 1..ll
      BY <2>1, <2>2, <3>1 DEF gone
    <3>3. FinePart(scans[age + 1 - i].sample)[k] = NoValue
      BY <2>1, <3>2 DEF ValueTells, NewestTold, va
    <3>4. S(age + 1 - i) = NoValue
      BY <2>1, <3>2, <3>3, SampleAtType DEF S, ll
    <3> QED BY <2>2, <3>1, <3>4 DEF S, SampleOf, age, gone, va
  <2>6. CASE i = gone + 1
    <3>1. age + 1 - i = va /\ ~ (i > gone + 1)
      BY <2>1, <2>2, <2>6 DEF gone
    <3>2. S(va) = v.tip
      BY <2>1 DEF ValueTells, NewestTold, S, va
    <3> QED BY <2>2, <2>6, <3>1, <3>2 DEF S, SampleOf, age, gone, va
  <2>7. CASE i > gone + 1
    <3> DEFINE n == i - (gone + 1)
    <3>1. i \in Nat /\ i <= gone + 1 + lv
      BY <2>1, <2>2
    <3>2. /\ n \in 1..lv /\ i = gone + 1 + n
          /\ age + 1 - i = va - n /\ age + 1 - (i - 1) = va - n + 1
      BY <2>1, <2>2, <2>7, <3>1 DEF gone
    <3> HIDE DEF n
    <3>3. \A a \in va - n .. va : S(a) # NoValue
      BY <2>1, <2>4, <3>2
    <3>6. BufItem(v, n) = IF S(va - n) > S(va - n + 1) THEN NoValue ELSE S(va - n)
      BY <2>1, <3>2, <3>3, GaplessItems DEF S, va, lv, ll
    <3>4. h[i] = IF S(va - n) > S(va - n + 1) THEN NoValue ELSE S(va - n)
      BY <2>2, <3>2, <3>6
    <3>5. h[i] = IF i > gone + 1 /\ S(age + 1 - i) > S(age + 1 - (i - 1))
                 THEN NoValue ELSE S(age + 1 - i)
      BY <2>7, <3>2, <3>4
    <3> QED BY <3>5 DEF S, SampleOf, age, gone, va
  <2>8. i \in Nat /\ gone \in Nat
    BY <2>1, <2>2
  <2> QED BY <2>5, <2>6, <2>7, <2>8
<1> QED BY <1>1, TInvInvariant, PTL

\* With gaps: what the buffer shows are the newest samples of the metric, in
\* the order of the scans and with none left out, however often the metric was
\* missing, changed its type or lost its oldest samples.
THEOREM OrderShown == Spec => []SamplesInOrder
<1>1. TInv => SamplesInOrder
  <2> SUFFICES ASSUME TInv, NEW k \in Key, NEW v, v = fine.values[k], v # NoValue,
                      v.kind # "float"
               PROVE  /\ NewestTold(scans, k, v, fine.age)
                      /\ \E src \in [SamplePlaces(v.buf) -> 1..v.age] :
                            /\ Sources(scans, k, v, src)
                            /\ \A i \in SamplePlaces(v.buf) \ {0} :
                                  BufItem(v, i) = IF v.buf[i] < 0 THEN NoValue
                                                  ELSE SampleOf(k, v.kind, src[i])
    BY DEF SamplesInOrder
  <2> DEFINE S(a) == SampleAt(scans, k, v.kind, a)
             places == SamplePlaces(v.buf)
             va == v.age
             ll == Len(scans)
  <2>1. /\ va \in Nat /\ va <= ll /\ ll \in Nat /\ Len(v.buf) \in Nat
        /\ scans \in Seq(Scan) /\ v.kind \in FineKind
        /\ ValueTells(scans, k, v, fine.age)
    <3> DEFINE age == fine.age
    <3>1. /\ age \in Nat /\ age <= ll /\ va \in Nat /\ va <= age /\ ll \in Nat
          /\ Len(v.buf) \in Nat /\ v.kind \in FineKind
      BY MetricTold, FitsParts
    <3> HIDE DEF age, va, ll
    <3>2. va <= ll
      BY ONLY <3>1
    <3> QED BY <3>1, <3>2, MetricTold
  <2>2. NewestTold(scans, k, v, fine.age) /\ OrderTold(scans, k, v)
    BY <2>1 DEF ValueTells
  <2>3. PICK src \in [places -> 1..va] :
           /\ Sources(scans, k, v, src)
           /\ \A i, j \in places : Neighbours(v.buf, i, j) => v.buf[j] = S(src[i]) - S(src[j])
    BY <2>2 DEF OrderTold
  <2>4. src[0] = va /\ \A i \in places : S(src[i]) # NoValue
    BY <2>3 DEF Sources
  <2>5. S(src[0]) = v.tip
    BY <2>2, <2>4 DEF NewestTold
  <2>6. \A i \in places : S(src[i]) \in Int
    <3> TAKE i \in places
    <3> HIDE DEF va, ll, places, S
    <3>1. src[i] \in 1..ll
      BY <2>1, <2>3
    <3>2. S(src[i]) \in Int \cup {NoValue}
      BY <2>1, <3>1, SampleAtType DEF S, ll
    <3> QED BY <2>4, <3>2
  <2>7. Differs(scans, k, v, src)
    BY <2>3, <2>5, <2>6 DEF Differs
  <2>8. ASSUME NEW i \in places \ {0}
        PROVE  BufItem(v, i) = IF v.buf[i] < 0 THEN NoValue ELSE S(src[i])
    <3> DEFINE len == Len(v.buf)
    <3>1. len \in Nat /\ Len(v.buf) = len /\ i \in SamplePlaces(v.buf)
      BY <2>1
    <3> HIDE DEF len
    <3>2. Rewound(v)[i] = S(src[i])
      BY ONLY <2>7, <3>1, RewoundOrder
    <3>3. v.buf[i] # Gap
      BY DEF SamplePlaces
    <3> QED BY <3>2, <3>3 DEF BufItem
  <2> QED BY <2>2, <2>3, <2>8 DEF SampleOf
<1> QED BY <1>1, TInvInvariant, PTL

\* The single numbers that clients and carbon get: the newest sample with the
\* time of its scan; the integer of the last scans that saw one; the difference
\* of two floats that were seen, with the times at which they were.
THEOREM AnswersTrue == Spec => []AnswersAreSamples
<1>1. TInv => AnswersAreSamples
  <2> SUFFICES ASSUME TInv, NEW k \in Key, NEW v, v = fine.values[k], v # NoValue
               PROVE  LET Saw(a) == SampleOf(k, v.kind, a) IN
                      /\ ExtractTip(fine, v) = [value |-> Saw(v.age), at |-> scans[v.age].at]
                      /\ v.kind = "integer" => \A n \in 1..fine.age :
                           LET recent == {a \in 1..fine.age : a >= fine.age - n
                                                              /\ Saw(a) # NoValue}
                           IN  GraphiteInteger(fine, v, n) =
                                  IF recent = {} THEN NoValue ELSE Saw(Latest(recent))
                      /\ v.kind = "float" => \A n \in 1..Len(fine.timestamps) :
                           LET d == DiffToAtMost(fine, v, n) IN
                           d # NoValue => \E a, b \in {c \in 1..fine.age : Saw(c) # NoValue} :
                              d = [value |-> Saw(a) - Saw(b),
                                    from |-> scans[a].at, to |-> scans[b].at]
    BY DEF AnswersAreSamples
  <2> DEFINE S(a) == SampleAt(scans, k, v.kind, a)
             age == fine.age
             va == v.age
             ll == Len(scans)
             lt == Len(fine.timestamps)
             gone == TipIndex(fine, v)
  <2>1. /\ Good(fine) /\ Dated(scans, fine) /\ ValueTells(scans, k, v, age)
        /\ scans \in Seq(Scan) /\ ll \in Nat /\ age \in Nat /\ age <= ll
        /\ va \in Nat /\ va >= 1 /\ va <= age /\ v.kind \in FineKind /\ v.tip \in Int
        /\ gone = age - va /\ gone \in 0 .. lt - 1 /\ lt \in Nat
    BY MetricTold, HistoryFits, FitsParts
  <2>2. S(va) = v.tip /\ \A a \in va + 1 .. age : FinePart(scans[a].sample)[k] = NoValue
    BY <2>1 DEF ValueTells, NewestTold
  <2>3. fine.timestamps[gone + 1] = scans[va].at
    <3>1. fine.timestamps[gone + 1] = scans[age - gone].at
      BY <2>1, DatedPlace
    <3> HIDE DEF age, va, gone
    <3>2. age - gone = va
      BY <2>1
    <3> QED BY <3>1, <3>2
  <2>4. ExtractTip(fine, v) = [value |-> S(va), at |-> scans[va].at]
    BY <2>2, <2>3 DEF ExtractTip
  <2> HIDE DEF S, age, va, ll, lt, gone
  <2>5. \A a \in va + 1 .. age : S(a) = NoValue
    <3> TAKE a \in va + 1 .. age
    <3>1. a \in 1..ll
      BY <2>1
    <3> QED BY <2>1, <2>2, <3>1, SampleAtType DEF S, ll
  <2>6. ASSUME NEW n \in 1..age
        PROVE  LET recent == {a \in 1..age : a >= age - n /\ S(a) # NoValue}
               IN  GraphiteInteger(fine, v, n) =
                      IF recent = {} THEN NoValue ELSE S(Latest(recent))
    <3> DEFINE recent == {a \in 1..age : a >= age - n /\ S(a) # NoValue}
    <3>1. GraphiteInteger(fine, v, n) = IF va >= age - n THEN v.tip ELSE NoValue
      BY <2>1 DEF GraphiteInteger, Smaller, age, va
    <3>2. S(va) # NoValue
      BY <2>1, <2>2, AbsentAssumption
    <3>3. \A a \in recent : a \in Nat /\ a <= va
      BY <2>1, <2>5
    <3>4. CASE va >= age - n
      <4>1. va \in recent
        BY <2>1, <3>2, <3>4
      <4> HIDE DEF recent
      <4>2. \A x \in recent : (\A y \in recent : y <= x) => x = va
        BY <2>1, <3>3, <4>1
      <4>3. Latest(recent) = va
        BY <3>3, <4>1, <4>2 DEF Latest
      <4> QED BY <2>2, <3>1, <3>4, <4>1, <4>3 DEF recent
    <3>5. CASE ~ (va >= age - n)
      <4>1. recent = {}
        BY <2>1, <3>3, <3>5
      <4> QED BY <3>1, <3>5, <4>1
    <3> QED BY <3>4, <3>5
  <2>7. ASSUME v.kind = "float", NEW n \in 1..lt, DiffToAtMost(fine, v, n) # NoValue
        PROVE  \E a, b \in {c \in 1..age : S(c) # NoValue} :
                  DiffToAtMost(fine, v, n) = [value |-> S(a) - S(b),
                                               from |-> scans[a].at, to |-> scans[b].at]
    <3> DEFINE idx == LastKnown(fine, v, n)
    <3>1. KnownIndexes(fine, v, n) # {} /\ n \in Nat
      BY <2>1, <2>7 DEF DiffToAtMost
    <3>2. DiffToAtMost(fine, v, n) = [value |-> v.tip - History(v, age)[idx + 1],
                                       from |-> fine.timestamps[gone + 1],
                                       to |-> fine.timestamps[idx + 1]]
      BY <2>7, <3>1 DEF DiffToAtMost, Difference, age, gone
    <3>3. PICK b \in 1..va : /\ S(b) \in Int
                             /\ History(v, age)[idx + 1] = S(b)
                             /\ fine.timestamps[idx + 1] = scans[b].at
      <4>1. Good(fine) /\ Dated(scans, fine) /\ ValueTells(scans, k, v, fine.age)
        BY <2>1 DEF age
      <4>2. FromScan(scans, fine, k, v, LastKnown(fine, v, n))
        BY ONLY <2>7, <3>1, <4>1, v = fine.values[k], v # NoValue, k \in Key, FloatKnown
      <4> QED BY <2>7, <4>2 DEF FromScan, S, age, va
    <3> HIDE DEF idx
    <3>4. b \in 1..age /\ va \in 1..age /\ S(b) # NoValue /\ S(va) # NoValue
      BY <2>1, <2>2, <3>3, AbsentAssumption
    <3> QED BY <2>2, <2>3, <3>2, <3>3, <3>4
  <2> QED BY <2>4, <2>6, <2>7 DEF S, SampleOf, age, va, lt
<1> QED BY <1>1, TInvInvariant, PTL

-----------------------------------------------------------------------------
(* The sum of a function over a finite set                                 *)

\* The element that a fold takes first.
Pick(s) == CHOOSE x \in s : TRUE

LEMMA PickIn == ASSUME NEW s, s # {} PROVE Pick(s) \in s
BY DEF Pick

\* g adds up the values of f over every subset of S, one element at a time.
Adds(g, f, S) ==
    g = [s \in SUBSET S |-> IF s = {} THEN 0 ELSE f[Pick(s)] + g[s \ {Pick(s)}]]

\* The fold that sums f.
Adder(f, S) == CHOOSE g : Adds(g, f, S)

\* The library's sum is the value of that fold.
LEMMA SumIs ==
    ASSUME NEW f, NEW S
    PROVE  SumFunctionOnSet(f, S) = Adder(f, S)[S]
BY DEF SumFunctionOnSet, FoldFunctionOnSet, MapThenFoldSet, Pick, Adder, Adds

\* The subsets of S with at most m members.
Small(S, m) == {s \in SUBSET S : Cardinality(s) <= m}

\* Subsets of a finite set, and what is left of them without an element.
LEMMA SmallParts ==
    ASSUME NEW S, IsFiniteSet(S), NEW s \in SUBSET S
    PROVE  /\ IsFiniteSet(s) /\ Cardinality(s) \in Nat /\ Cardinality(s) <= Cardinality(S)
           /\ s = {} <=> Cardinality(s) = 0
           /\ \A x \in s : /\ s \ {x} \in SUBSET S
                           /\ Cardinality(s \ {x}) = Cardinality(s) - 1
<1>1. IsFiniteSet(s) /\ Cardinality(s) <= Cardinality(S)
  BY FS_Subset
<1>2. Cardinality(s) \in Nat
  BY <1>1, FS_CardinalityType
<1>3. s = {} <=> Cardinality(s) = 0
  BY <1>1, FS_EmptySet
<1>4. \A x \in s : Cardinality(s \ {x}) = Cardinality(s) - 1
  BY <1>1, FS_RemoveElement
<1> QED BY <1>1, <1>2, <1>3, <1>4

\* What holds of the empty set, and of a set if it holds of its smaller subsets,
\* holds of all: by the smallest set of which it does not.
LEMMA SmallestSet ==
    ASSUME NEW S, IsFiniteSet(S), NEW Holds \in SUBSET SUBSET S,
           \A s \in SUBSET S : (\A x \in s : s \ {x} \in Holds) => s \in Holds
    PROVE  \A s \in SUBSET S : s \in Holds
<1> DEFINE bad == {m \in Nat : \E s \in SUBSET S : Cardinality(s) = m /\ s \notin Holds}
<1> SUFFICES ASSUME bad # {} PROVE FALSE
  BY SmallParts
<1>1. PICK m \in bad : \A j \in bad : m <= j
  <2> bad \in SUBSET Nat
    OBVIOUS
  <2> HIDE DEF bad
  <2> QED BY LeastExists
<1>2. PICK s \in SUBSET S : Cardinality(s) = m /\ s \notin Holds
  BY <1>1
<1>3. PICK x \in s : s \ {x} \notin Holds
  BY <1>2
<1>4. /\ s \ {x} \in SUBSET S /\ Cardinality(s \ {x}) = m - 1
      /\ Cardinality(s \ {x}) \in Nat /\ m \in Nat
  BY <1>2, SmallParts
<1>5. m - 1 \in bad
  BY <1>3, <1>4
<1> QED BY <1>1, <1>4, <1>5

\* There is a function that adds up f.
LEMMA AdderExists ==
    ASSUME NEW S, IsFiniteSet(S), NEW f, \A x \in S : f[x] \in Int
    PROVE  \E g \in [SUBSET S -> Int] : Adds(g, f, S)
<1> DEFINE Rule(g, s) == IF s = {} THEN 0 ELSE f[Pick(s)] + g[s \ {Pick(s)}]
           Partly(g, m) == /\ g \in [Small(S, m) -> Int]
                           /\ \A s \in Small(S, m) : g[s] = Rule(g, s)
           gaps == {m \in Nat : ~ \E g : Partly(g, m)}
<1>1. \A s \in SUBSET S : s # {} => /\ Pick(s) \in s /\ f[Pick(s)] \in Int
                                    /\ s \ {Pick(s)} \in SUBSET S
                                    /\ Cardinality(s \ {Pick(s)}) = Cardinality(s) - 1
  BY PickIn, SmallParts
<1>2. \A s \in SUBSET S : Cardinality(s) \in Nat /\ Cardinality(s) <= Cardinality(S)
                          /\ (s = {} <=> Cardinality(s) = 0)
  BY SmallParts
<1>3. \E g : Partly(g, 0)
  <2> DEFINE g == [s \in Small(S, 0) |-> 0]
  <2>1. g \in [Small(S, 0) -> Int] /\ \A s \in Small(S, 0) : g[s] = 0
    OBVIOUS
  <2>2. \A s \in Small(S, 0) : s = {}
    BY <1>2 DEF Small
  <2> HIDE DEF g
  <2>3. Partly(g, 0)
    BY <2>1, <2>2
  <2> QED BY <2>3
<1>4. ASSUME NEW m \in Nat, NEW g, Partly(g, m)
      PROVE  \E h : Partly(h, m + 1)
  <2> DEFINE h == [s \in Small(S, m + 1) |-> IF Cardinality(s) <= m THEN g[s] ELSE Rule(g, s)]
  <2>1. ASSUME NEW s \in Small(S, m + 1) PROVE h[s] \in Int /\ h[s] = Rule(g, s)
    <3>1. s \in SUBSET S /\ (s \in Small(S, m) <=> Cardinality(s) <= m)
      BY DEF Small
    <3>2. CASE Cardinality(s) <= m
      BY <1>4, <3>1, <3>2
    <3>3. CASE ~ (Cardinality(s) <= m)
      <4>1. s # {} /\ s \ {Pick(s)} \in Small(S, m)
        BY <1>1, <1>2, <3>1, <3>3 DEF Small
      <4>2. g[s \ {Pick(s)}] \in Int /\ f[Pick(s)] \in Int
        BY <1>1, <1>4, <3>1, <4>1
      <4> QED BY <3>3, <4>1, <4>2
    <3> QED BY <3>2, <3>3
  <2>2. \A s \in Small(S, m) : s \in Small(S, m + 1) /\ h[s] = g[s]
    BY <1>2 DEF Small
  <2>3. ASSUME NEW s \in Small(S, m + 1), s # {} PROVE s \ {Pick(s)} \in Small(S, m)
    BY <1>1, <1>2, <2>3 DEF Small
  <2>4. h = [s \in Small(S, m + 1) |-> h[s]]
    OBVIOUS
  <2> HIDE DEF h
  <2>5. h \in [Small(S, m + 1) -> Int]
    BY <2>1, <2>4
  <2>6. \A s \in Small(S, m + 1) : h[s] = Rule(h, s)
    BY <2>1, <2>2, <2>3
  <2>7. Partly(h, m + 1)
    BY <2>5, <2>6
  <2> QED BY <2>7
<1>5. gaps = {}
  <2> SUFFICES ASSUME gaps # {} PROVE FALSE
    OBVIOUS
  <2>1. PICK m \in gaps : \A j \in gaps : m <= j
    <3> gaps \in SUBSET Nat
      OBVIOUS
    <3> HIDE DEF gaps
    <3> QED BY LeastExists
  <2> HIDE DEF Partly
  <2>2. m # 0 /\ m \in Nat
    BY <1>3, <2>1
  <2>3. m - 1 \in Nat /\ m - 1 \notin gaps /\ (m - 1) + 1 = m
    <3> HIDE DEF gaps
    <3> QED BY <2>1, <2>2
  <2>4. \E h : Partly(h, (m - 1) + 1)
    BY <1>4, <2>3
  <2> QED BY <2>1, <2>3, <2>4
<1>6. Cardinality(S) \in Nat /\ Small(S, Cardinality(S)) = SUBSET S
  BY <1>2, FS_CardinalityType DEF Small
<1>7. PICK g : Partly(g, Cardinality(S))
  BY <1>5, <1>6
<1>8. g \in [SUBSET S -> Int] /\ \A s \in SUBSET S : g[s] = Rule(g, s)
  BY <1>6, <1>7
<1>9. Adds(g, f, S)
  BY <1>8 DEF Adds
<1> QED BY <1>8, <1>9
\* The fold adds up every subset, so it is a sum of all the smaller ones, too.
LEMMA AdderAdds ==
    ASSUME NEW S, IsFiniteSet(S), NEW f, \A x \in S : f[x] \in Int
    PROVE  /\ \A s \in SUBSET S : Adder(f, S)[s] =
                  IF s = {} THEN 0 ELSE f[Pick(s)] + Adder(f, S)[s \ {Pick(s)}]
           /\ \A s \in SUBSET S : Adder(f, S)[s] \in Int
<1> DEFINE g == Adder(f, S)
           Typed == {s \in SUBSET S : g[s] \in Int}
<1>1. \E h : Adds(h, f, S)
  BY AdderExists
<1>2. Adds(g, f, S)
  BY <1>1 DEF Adder
<1> HIDE DEF g
<1>3. \A s \in SUBSET S : g[s] = IF s = {} THEN 0 ELSE f[Pick(s)] + g[s \ {Pick(s)}]
  BY <1>2 DEF Adds
<1>4. ASSUME NEW s \in SUBSET S, \A x \in s : s \ {x} \in Typed
      PROVE  s \in Typed
  <2>1. CASE s = {}
    <3>1. g[s] = 0
      BY <1>3, <2>1
    <3> QED BY <3>1
  <2>2. CASE s # {}
    <3>1. Pick(s) \in s /\ f[Pick(s)] \in Int /\ g[s \ {Pick(s)}] \in Int
      BY <1>4, <2>2, PickIn
    <3>2. g[s] = f[Pick(s)] + g[s \ {Pick(s)}]
      BY <1>3, <2>2
    <3>3. g[s] \in Int
      BY <3>1, <3>2
    <3> QED BY <3>3
  <2> QED BY <2>1, <2>2
<1>5. \A s \in SUBSET S : s \in Typed
  <2> HIDE DEF Typed
  <2>1. Typed \in SUBSET SUBSET S
    BY DEF Typed
  <2>2. \A s \in SUBSET S : (\A x \in s : s \ {x} \in Typed) => s \in Typed
    BY <1>4
  <2> QED BY <2>1, <2>2, SmallestSet
<1> QED BY <1>3, <1>5 DEF g

\* What is added up for a subset is the sum over it.
LEMMA AdderAgrees ==
    ASSUME NEW S, IsFiniteSet(S), NEW f, \A x \in S : f[x] \in Int, NEW T \in SUBSET S
    PROVE  Adder(f, S)[T] = SumFunctionOnSet(f, T)
<1> DEFINE g == Adder(f, S)
           h == Adder(f, T)
           Same == {s \in SUBSET T : g[s] = h[s]}
<1>1. IsFiniteSet(T)
  BY FS_Subset
<1>2. \A s \in SUBSET S : g[s] = IF s = {} THEN 0 ELSE f[Pick(s)] + g[s \ {Pick(s)}]
  BY AdderAdds
<1>3. \A s \in SUBSET T : h[s] = IF s = {} THEN 0 ELSE f[Pick(s)] + h[s \ {Pick(s)}]
  BY <1>1, AdderAdds
<1> HIDE DEF g, h
<1>4. ASSUME NEW s \in SUBSET T, \A x \in s : s \ {x} \in Same
      PROVE  s \in Same
  <2>1. s \in SUBSET S
    OBVIOUS
  <2>2. CASE s = {}
    BY <1>2, <1>3, <2>1, <2>2
  <2>3. CASE s # {}
    <3>1. g[s \ {Pick(s)}] = h[s \ {Pick(s)}]
      BY <1>4, <2>3, PickIn
    <3> QED BY <1>2, <1>3, <2>1, <2>3, <3>1
  <2> QED BY <2>2, <2>3
<1>5. \A s \in SUBSET T : s \in Same
  <2> HIDE DEF Same
  <2>1. Same \in SUBSET SUBSET T
    BY DEF Same
  <2>2. \A s \in SUBSET T : (\A x \in s : s \ {x} \in Same) => s \in Same
    BY <1>4
  <2> QED BY <1>1, <2>1, <2>2, SmallestSet
<1>6. g[T] = h[T]
  BY <1>5
<1> QED BY <1>6, SumIs DEF g, h

\* A sum is a number, nothing adds up to zero, and any element can be added last.
LEMMA SumProperties ==
    ASSUME NEW S, IsFiniteSet(S), NEW f, \A x \in S : f[x] \in Int
    PROVE  /\ SumFunctionOnSet(f, S) \in Int
           /\ S = {} => SumFunctionOnSet(f, S) = 0
           /\ \A x \in S : SumFunctionOnSet(f, S) = f[x] + SumFunctionOnSet(f, S \ {x})
<1> DEFINE g == Adder(f, S)
           Free == {s \in SUBSET S : \A x \in s : g[s] = f[x] + g[s \ {x}]}
<1>1. /\ \A s \in SUBSET S : g[s] = IF s = {} THEN 0 ELSE f[Pick(s)] + g[s \ {Pick(s)}]
      /\ \A s \in SUBSET S : g[s] \in Int
  BY AdderAdds
<1>2. \A s \in SUBSET S : g[s] = SumFunctionOnSet(f, s)
  BY AdderAgrees
<1> HIDE DEF g
<1>3. ASSUME NEW s \in SUBSET S, \A x \in s : s \ {x} \in Free
      PROVE  s \in Free
  <2> SUFFICES ASSUME NEW x \in s PROVE g[s] = f[x] + g[s \ {x}]
    OBVIOUS
  <2> DEFINE y == Pick(s)
  <2>1. y \in s /\ g[s] = f[y] + g[s \ {y}]
    BY <1>1, PickIn
  <2> HIDE DEF y
  <2>2. CASE x = y
    BY <2>1, <2>2
  <2>3. CASE x # y
    <3> DEFINE r == s \ {x, y}
    <3>1. g[s \ {y}] = f[x] + g[r]
      <4>1. s \ {y} \in Free /\ x \in s \ {y} /\ (s \ {y}) \ {x} = r
        BY <1>3, <2>1, <2>3
      <4> QED BY <4>1
    <3>2. g[s \ {x}] = f[y] + g[r]
      <4>1. s \ {x} \in Free /\ y \in s \ {x} /\ (s \ {x}) \ {y} = r
        BY <1>3, <2>1, <2>3
      <4> QED BY <4>1
    <3>3. f[x] \in Int /\ f[y] \in Int /\ g[r] \in Int
      BY <1>1, <2>1
    <3> HIDE DEF r
    <3> QED BY <2>1, <3>1, <3>2, <3>3
  <2> QED BY <2>2, <2>3
<1>4. \A s \in SUBSET S : s \in Free
  <2> HIDE DEF Free
  <2>1. Free \in SUBSET SUBSET S
    BY DEF Free
  <2>2. \A s \in SUBSET S : (\A x \in s : s \ {x} \in Free) => s \in Free
    BY <1>3
  <2> QED BY <2>1, <2>2, SmallestSet
<1>5. S \in SUBSET S /\ \A x \in S : S \ {x} \in SUBSET S
  OBVIOUS
<1>6. \A x \in S : g[S] = f[x] + g[S \ {x}]
  BY <1>4, <1>5
<1> QED BY <1>1, <1>2, <1>5, <1>6

\* The sum is the same when the elements are renamed one to one.
LEMMA SumRenamed ==
    ASSUME NEW S, IsFiniteSet(S), NEW T, IsFiniteSet(T), NEW f, NEW g, NEW h \in [S -> T],
           \A x \in S : f[x] \in Int /\ f[x] = g[h[x]],
           \A x, y \in S : h[x] = h[y] => x = y,
           \A z \in T : \E x \in S : h[x] = z
    PROVE  SumFunctionOnSet(f, S) = SumFunctionOnSet(g, T)
<1> DEFINE Img(s) == {h[x] : x \in s}
           Same == {s \in SUBSET S : SumFunctionOnSet(f, s) = SumFunctionOnSet(g, Img(s))}
<1>1. ASSUME NEW s \in SUBSET S, \A x \in s : s \ {x} \in Same
      PROVE  s \in Same
  <2>1. IsFiniteSet(s) /\ (\A x \in s : f[x] \in Int) /\ Img(s) \in SUBSET T
    BY SmallParts
  <2>2. IsFiniteSet(Img(s)) /\ \A z \in Img(s) : g[z] \in Int
    <3>1. IsFiniteSet(Img(s))
      BY <2>1, FS_Subset
    <3>2. \A z \in Img(s) : \E x \in S : z = h[x]
      OBVIOUS
    <3> QED BY <3>1, <3>2
  <2>3. CASE s = {}
    <3>1. Img(s) = {}
      BY <2>3
    <3>2. SumFunctionOnSet(f, s) = 0
      BY <2>1, <2>3, SumProperties
    <3>3. SumFunctionOnSet(g, Img(s)) = 0
      <4> HIDE DEF Img
      <4> QED BY <2>2, <3>1, SumProperties
    <3> QED BY <3>2, <3>3
  <2>4. CASE s # {}
    <3>1. PICK x \in s : TRUE
      BY <2>4
    <3>2. SumFunctionOnSet(f, s) = f[x] + SumFunctionOnSet(f, s \ {x})
      BY <2>1, SumProperties
    <3>3. h[x] \in Img(s) /\ Img(s) \ {h[x]} = Img(s \ {x})
      OBVIOUS
    <3>4. SumFunctionOnSet(g, Img(s)) = g[h[x]] + SumFunctionOnSet(g, Img(s) \ {h[x]})
      <4> HIDE DEF Img
      <4> QED BY <2>2, <3>3, SumProperties
    <3>5. SumFunctionOnSet(f, s \ {x}) = SumFunctionOnSet(g, Img(s \ {x}))
      BY <1>1
    <3> HIDE DEF Img
    <3>6. SumFunctionOnSet(f, s) = SumFunctionOnSet(g, Img(s))
      BY <3>2, <3>3, <3>4, <3>5
    <3> QED BY <3>6
  <2> QED BY <2>3, <2>4
<1>2. \A s \in SUBSET S : s \in Same
  <2> HIDE DEF Same
  <2>1. Same \in SUBSET SUBSET S
    BY DEF Same
  <2>2. \A s \in SUBSET S : (\A x \in s : s \ {x} \in Same) => s \in Same
    BY <1>1
  <2> QED BY <2>1, <2>2, SmallestSet
<1>3. Img(S) = T
  OBVIOUS
<1>4. SumFunctionOnSet(f, S) = SumFunctionOnSet(g, Img(S))
  BY <1>2
<1> HIDE DEF Img
<1> QED BY <1>3, <1>4

\* .. and when the functions are the same there.
LEMMA SumSame ==
    ASSUME NEW S, IsFiniteSet(S), NEW f, NEW g, \A x \in S : f[x] \in Int /\ f[x] = g[x]
    PROVE  SumFunctionOnSet(f, S) = SumFunctionOnSet(g, S)
<1> DEFINE h == [x \in S |-> x]
<1>1. h \in [S -> S] /\ \A x \in S : h[x] = x
  OBVIOUS
<1> HIDE DEF h
<1> QED BY <1>1, SumRenamed

\* The sum over one element is its value.
LEMMA SumOfOne ==
    ASSUME NEW x, NEW f, f[x] \in Int
    PROVE  SumFunctionOnSet(f, {x}) = f[x]
<1>1. IsFiniteSet({x}) /\ IsFiniteSet({}) /\ {x} \ {x} = {}
  BY FS_Singleton, FS_EmptySet
<1>2. SumFunctionOnSet(f, {x}) = f[x] + SumFunctionOnSet(f, {})
  BY <1>1, SumProperties
<1>3. SumFunctionOnSet(f, {}) = 0
  BY <1>1, SumProperties
<1> QED BY <1>2, <1>3

\* A function is summed over its domain.
LEMMA SumFunctionIs ==
    ASSUME NEW f PROVE SumFunction(f) = SumFunctionOnSet(f, DOMAIN f)
BY DEF SumFunction

-----------------------------------------------------------------------------
(* What the queries of Series ask                                          *)

\* The condition of Ask.
HasPid == [op |-> "Has", name |-> "pid"]
OfMetric(metric) == [op |-> "Eq", name |-> "metric", value |-> metric]
BothHold == [op |-> "And", left |-> 1, right |-> 2]

\* Equal truth values.
LEMMA BothTrue ==
    ASSUME NEW a \in BOOLEAN, NEW b \in BOOLEAN, a <=> b PROVE a = b
OBVIOUS

\* The condition of Ask matches the metrics of KeysOf.
LEMMA AskedMatches ==
    ASSUME NEW metric, NEW k
    PROVE  Matches(<<HasPid, OfMetric(metric), BothHold>>, k)
             <=> {"pid", "metric"} \subseteq DOMAIN k /\ k["metric"] = metric
<1> DEFINE cond == <<HasPid, OfMetric(metric), BothHold>>
           Rule(g, i) ==
              LET part == cond[i] IN
              \/ part.op = "Eq"        /\ part.value \in GetWith(k, part.name)
              \/ part.op = "NotEq"     /\ GetWith(k, part.name) \ {part.value} # {}
              \/ part.op = "RegexLike" /\ GetWith(k, part.name) \cap part.regex # {}
              \/ part.op = "And"       /\ g[part.left] /\ g[part.right]
              \/ part.op = "Or"        /\ (g[part.left] \/ g[part.right])
              \/ part.op = "Not"       /\ ~g[part.val]
              \/ part.op = "Has"       /\ GetWith(k, part.name) # {}
           Holds(g) == g = [i \in 1..Len(cond) |-> Rule(g, i)]
           pid == "pid" \in DOMAIN k
           named == "metric" \in DOMAIN k /\ k["metric"] = metric
           w == [i \in 1..3 |-> IF i = 1 THEN pid ELSE IF i = 2 THEN named ELSE pid /\ named]
           chosen == CHOOSE g : Holds(g)
<1>1. Len(cond) = 3 /\ cond[1] = HasPid /\ cond[2] = OfMetric(metric) /\ cond[3] = BothHold
  OBVIOUS
<1>2. Matches(cond, k) = chosen[Len(cond)]
  <2> HIDE DEF cond
  <2> QED BY DEF Matches
<1> HIDE DEF cond
<1>3. ASSUME NEW g
      PROVE  /\ Rule(g, 1) = pid
             /\ Rule(g, 2) = named
             /\ Rule(g, 3) = (g[1] /\ g[2])
  <2>1. Rule(g, 1) <=> pid
    BY <1>1 DEF HasPid, GetWith
  <2>2. Rule(g, 2) <=> named
    BY <1>1 DEF OfMetric, GetWith
  <2>3. Rule(g, 3) <=> g[1] /\ g[2]
    BY <1>1 DEF BothHold
  <2>4. \A i : Rule(g, i) \in BOOLEAN
    OBVIOUS
  <2>5. pid \in BOOLEAN /\ named \in BOOLEAN /\ (g[1] /\ g[2]) \in BOOLEAN
    OBVIOUS
  <2> HIDE DEF Rule, pid, named
  <2>6. Rule(g, 1) = pid
    BY ONLY <2>1, <2>4, <2>5, BothTrue
  <2>7. Rule(g, 2) = named
    BY ONLY <2>2, <2>4, <2>5, BothTrue
  <2>8. Rule(g, 3) = (g[1] /\ g[2])
    BY ONLY <2>3, <2>4, <2>5, BothTrue
  <2> QED BY <2>6, <2>7, <2>8
<1> HIDE DEF Rule, pid, named
<1>4. Holds(w)
  <2>1. \A i \in 1..3 : w[i] = Rule(w, i)
    <3>1. w[1] = pid /\ w[2] = named /\ w[3] = (pid /\ named)
      OBVIOUS
    <3>2. \A i \in 1..3 : i = 1 \/ i = 2 \/ i = 3
      OBVIOUS
    <3> HIDE DEF w
    <3> QED BY <1>3, <3>1, <3>2
  <2>2. w = [i \in 1..3 |-> w[i]]
    OBVIOUS
  <2> HIDE DEF w
  <2>3. w = [i \in 1..3 |-> Rule(w, i)]
    <3>1. [i \in 1..3 |-> w[i]] = [i \in 1..3 |-> Rule(w, i)]
      BY ONLY <2>1, Zenon
    <3> QED BY ONLY <2>2, <3>1, Zenon
  <2> QED BY <1>1, <2>3, Zenon
<1>5. Holds(chosen)
  <2> HIDE DEF Holds
  <2> QED BY <1>4
<1> HIDE DEF chosen
<1>6. chosen[1] = Rule(chosen, 1) /\ chosen[2] = Rule(chosen, 2) /\ chosen[3] = Rule(chosen, 3)
  BY <1>1, <1>5
<1>7. chosen[3] <=> pid /\ named
  BY <1>3, <1>6
<1> QED BY <1>1, <1>2, <1>7 DEF pid, named, cond

\* What Ask extracts before any function.
SeriesFor(k, n) ==
    [key |-> k, kind |-> Kind(k), vals |-> Take(History(fine.values[k], fine.age), n),
     timestamps |-> Take(fine.timestamps, n)]
SeriesSet(metric, n) == {SeriesFor(k, n) : k \in KeysOf(metric)}
AllSeries(metric, n) == [type |-> "MultiSeries", data |-> SeriesSet(metric, n)]

\* The metrics that have two samples among the last n + 1 places.
Differ(metric, n) == {k \in KeysOf(metric) : KnownIndexes(fine, fine.values[k], n) # {}}
TipFor(k, n) ==
    LET d == DiffToAtMost(fine, fine.values[k], n)
    IN  [key |-> k, kind |-> Kind(k), val |-> d.value, from |-> d.from, to |-> d.to]
AllTips(metric, n) ==
    [type |-> "MultiTip", data |-> {TipFor(k, n) : k \in Differ(metric, n)}]

\* The functions are run one after the other.
Ran(g, rule) ==
    g = [i \in 0..Len(rule.functions) |->
            IF i = 0 THEN Extracted(rule, fine, tip) ELSE Exec(g[i - 1], rule.functions[i])]

LEMMA QueryRuns ==
    ASSUME NEW rule
    PROVE  QueryHistory(rule, fine, tip) = (CHOOSE g : Ran(g, rule))[Len(rule.functions)]
BY DEF QueryHistory, Ran

\* A query with one function runs it on what it extracts ..
LEMMA OneFunction ==
    ASSUME NEW rule, NEW f, rule.functions = <<f>>
    PROVE  QueryHistory(rule, fine, tip) = Exec(Extracted(rule, fine, tip), f)
<1> DEFINE d == Extracted(rule, fine, tip)
           Rule(g, i) == IF i = 0 THEN d ELSE Exec(g[i - 1], rule.functions[i])
           w == [i \in 0..1 |-> IF i = 0 THEN d ELSE Exec(d, f)]
           g == CHOOSE h : Ran(h, rule)
<1>1. Len(rule.functions) = 1 /\ rule.functions[1] = f
  OBVIOUS
<1> HIDE DEF d
<1>2. Ran(w, rule)
  <2>1. \A i \in 0..1 : i = 0 \/ (i = 1 /\ i - 1 = 0)
    OBVIOUS
  <2>2. w[0] = d /\ w[1] = Exec(d, f)
    OBVIOUS
  <2>3. w = [i \in 0..1 |-> w[i]]
    OBVIOUS
  <2> HIDE DEF w
  <2>4. \A i \in 0..1 : w[i] = Rule(w, i)
    BY <1>1, <2>1, <2>2
  <2> HIDE DEF Rule
  <2>5. w = [i \in 0..1 |-> Rule(w, i)]
    BY <2>3, <2>4
  <2> QED BY <1>1, <2>5 DEF Ran, Rule, d
<1>3. Ran(g, rule)
  BY <1>2
<1> HIDE DEF g
<1>4. g = [i \in 0..1 |-> Rule(g, i)]
  BY <1>1, <1>3 DEF Ran, d
<1>5. g[0] = d /\ g[1] = Exec(g[0], f)
  BY <1>1, <1>4
<1> QED BY <1>1, <1>5, QueryRuns DEF g, d

\* .. and with two, the second on what comes out of the first.
LEMMA TwoFunctions ==
    ASSUME NEW rule, NEW f1, NEW f2, rule.functions = <<f1, f2>>
    PROVE  QueryHistory(rule, fine, tip) = Exec(Exec(Extracted(rule, fine, tip), f1), f2)
<1> DEFINE d == Extracted(rule, fine, tip)
           Rule(g, i) == IF i = 0 THEN d ELSE Exec(g[i - 1], rule.functions[i])
           w == [i \in 0..2 |-> IF i = 0 THEN d ELSE IF i = 1 THEN Exec(d, f1)
                                ELSE Exec(Exec(d, f1), f2)]
           g == CHOOSE h : Ran(h, rule)
<1>1. Len(rule.functions) = 2 /\ rule.functions[1] = f1 /\ rule.functions[2] = f2
  OBVIOUS
<1> HIDE DEF d
<1>2. Ran(w, rule)
  <2>1. \A i \in 0..2 : i = 0 \/ (i = 1 /\ i - 1 = 0) \/ (i = 2 /\ i - 1 = 1)
    OBVIOUS
  <2>2. w[0] = d /\ w[1] = Exec(d, f1) /\ w[2] = Exec(Exec(d, f1), f2)
    OBVIOUS
  <2>3. w = [i \in 0..2 |-> w[i]]
    OBVIOUS
  <2> HIDE DEF w
  <2>4. \A i \in 0..2 : w[i] = Rule(w, i)
    BY <1>1, <2>1, <2>2
  <2> HIDE DEF Rule
  <2>5. w = [i \in 0..2 |-> Rule(w, i)]
    BY <2>3, <2>4
  <2> QED BY <1>1, <2>5 DEF Ran, Rule, d
<1>3. Ran(g, rule)
  BY <1>2
<1> HIDE DEF g
<1>4. g = [i \in 0..2 |-> Rule(g, i)]
  BY <1>1, <1>3 DEF Ran, d
<1>5. g[0] = d /\ g[1] = Exec(g[0], f1) /\ g[2] = Exec(g[1], f2)
  BY <1>1, <1>4
<1> QED BY <1>1, <1>5, QueryRuns DEF g, d

\* The rule of Ask.
AskRule(metric, extract, functions) ==
    [source |-> "Fine", functions |-> functions, extract |-> extract,
     condition |-> <<[op |-> "Has", name |-> "pid"],
                     [op |-> "Eq", name |-> "metric", value |-> metric],
                     [op |-> "And", left |-> 1, right |-> 2]>>]

LEMMA AskIs ==
    ASSUME NEW metric, NEW extract, NEW functions
    PROVE  Ask(metric, extract, functions) =
             QueryHistory(AskRule(metric, extract, functions), fine, tip)
BY DEF Ask, AskRule

\* The keys that Ask selects.
LEMMA AskSelects ==
    ASSUME NEW metric, NEW extract, NEW functions
    PROVE  Selected(AskRule(metric, extract, functions).condition, fine.values) = KeysOf(metric)
<1>1. AskRule(metric, extract, functions).condition = <<HasPid, OfMetric(metric), BothHold>>
  BY DEF AskRule, HasPid, OfMetric, BothHold
<1> QED BY <1>1, AskedMatches DEF Selected, KeysOf

\* The series that Ask extracts.
LEMMA SeriesAsked ==
    ASSUME NEW metric, NEW n, NEW functions
    PROVE  Extracted(AskRule(metric, ByNum(n), functions), fine, tip) = AllSeries(metric, n)
<1> DEFINE rule == AskRule(metric, ByNum(n), functions)
<1>1. rule.source = "Fine" /\ rule.extract = ByNum(n)
  BY DEF AskRule
<1>2. Selected(rule.condition, fine.values) = KeysOf(metric)
  BY AskSelects
<1> HIDE DEF rule
<1>3. ~SingleValue(ByNum(n))
  BY DEF SingleValue, ByNum
<1>4. Extracted(rule, fine, tip) =
        [type |-> "MultiSeries", data |-> UNION {SeriesOf(fine, k, ByNum(n)) : k \in KeysOf(metric)}]
  BY <1>1, <1>2, <1>3 DEF Extracted
<1>5. ASSUME NEW k \in KeysOf(metric) PROVE SeriesOf(fine, k, ByNum(n)) = {SeriesFor(k, n)}
  BY DEF SeriesOf, ByNum, HistoryByNum, SeriesFor, Kind
<1>6. UNION {SeriesOf(fine, k, ByNum(n)) : k \in KeysOf(metric)} = {SeriesFor(k, n) : k \in KeysOf(metric)}
  BY <1>5
<1> QED BY <1>4, <1>6 DEF AllSeries, SeriesSet, rule

\* The differences that Ask extracts.
LEMMA TipsAsked ==
    ASSUME NEW metric, NEW n, NEW functions
    PROVE  Extracted(AskRule(metric, AtMost(n), functions), fine, tip) = AllTips(metric, n)
<1> DEFINE rule == AskRule(metric, AtMost(n), functions)
<1>1. rule.source = "Fine" /\ rule.extract = AtMost(n)
  BY DEF AskRule
<1>2. Selected(rule.condition, fine.values) = KeysOf(metric)
  BY AskSelects
<1> HIDE DEF rule
<1>3. SingleValue(AtMost(n))
  BY DEF SingleValue, AtMost
<1>4. Extracted(rule, fine, tip) =
        [type |-> "MultiTip", data |-> UNION {SingleOf(fine, k, AtMost(n)) : k \in KeysOf(metric)}]
  BY <1>1, <1>2, <1>3 DEF Extracted
<1>5. ASSUME NEW k \in KeysOf(metric)
      PROVE  SingleOf(fine, k, AtMost(n)) =
                 IF k \in Differ(metric, n) THEN {TipFor(k, n)} ELSE {}
  BY DEF SingleOf, AtMost, TipFor, Kind, Differ
<1>6. UNION {SingleOf(fine, k, AtMost(n)) : k \in KeysOf(metric)} = {TipFor(k, n) : k \in Differ(metric, n)}
  BY <1>5 DEF Differ
<1> QED BY <1>4, <1>6 DEF AllTips, rule

-----------------------------------------------------------------------------
(* Where the readers find the samples of a metric: place i of the history  *)
(* is about the scan with timestamps[i]                                    *)

\* What a metric shows, and how many places are before its newest sample.
Shown(k) == History(fine.values[k], fine.age)
Top(k)   == fine.age - fine.values[k].age

BufLen(k) == Len(fine.values[k].buf)

\* What the invariant says of the history in memory.
LEMMA NewestInMemory ==
    ASSUME TInv
    PROVE  /\ Good(fine) /\ Dated(scans, fine) /\ MetricsKept(scans, fine)
           /\ Len(fine.timestamps) \in Nat /\ Len(fine.timestamps) <= fine.age
           /\ fine.age \in Nat /\ fine.age <= Len(scans)
<1> DEFINE h == [fine |-> fine, tip |-> tip]
<1>1. h \in Histories /\ h.fine = fine
  BY DEF Histories
<1> HIDE DEF h
<1>2. Good(fine) /\ Dated(scans, fine) /\ fine.age \in Nat /\ fine.age <= Len(scans)
  BY <1>1, HistoriesGood DEF TInv
<1>3. MetricsKept(scans, fine)
  BY <1>1 DEF TInv, HistoriesTell
<1> QED BY <1>2, <1>3 DEF Good, BacklogRecord, WindowOK

\* What the scan at a place of the history saw of a metric.
LEMMA SeenType ==
    ASSUME TInv, NEW k \in Key, fine.values[k] # NoValue, NEW i \in 1..fine.age, NEW kind
    PROVE  /\ fine.age + 1 - i \in 1..fine.age
           /\ SeenAt(k, kind, i) \in Int \cup {NoValue}
           /\ kind \in FineKind /\ SeenAt(k, kind, i) # NoValue => SeenAs(k, i) = kind
           /\ SeenAs(k, i) = "nothing" /\ kind \in FineKind => SeenAt(k, kind, i) = NoValue
           /\ SeenAs(k, i) # "nothing" =>
                 /\ FinePart(scans[fine.age + 1 - i].sample)[k] # NoValue
                 /\ FinePart(scans[fine.age + 1 - i].sample)[k].kind = SeenAs(k, i)
           /\ SeenAs(k, i) = "nothing" <=> FinePart(scans[fine.age + 1 - i].sample)[k] = NoValue
<1> DEFINE a == fine.age + 1 - i
<1>1. /\ scans \in Seq(Scan) /\ Len(scans) \in Nat /\ fine.age \in Nat /\ fine.age <= Len(scans)
  BY MetricTold
<1>2. a \in 1..fine.age /\ a \in 1..Len(scans)
  BY <1>1
<1> HIDE DEF a
<1>3. SampleAt(scans, k, kind, a) \in Int \cup {NoValue}
  BY <1>1, <1>2, SampleAtType
<1>4. scans[a].sample \in Sample
  <2>1. scans[a] \in Scan
    <3> HIDE DEF Scan
    <3> QED BY <1>1, <1>2
  <2> QED BY <2>1 DEF Scan
<1>5. FinePart(scans[a].sample)[k] # NoValue =>
         FinePart(scans[a].sample)[k].kind \in FineKind
  BY <1>4, FinePartProperties
<1>6. "nothing" \notin FineKind
  BY DEF FineKind
<1>7. SeenAs(k, i) = IF FinePart(scans[a].sample)[k] = NoValue THEN "nothing"
                     ELSE FinePart(scans[a].sample)[k].kind
  BY DEF SeenAs, a
<1>8. SeenAt(k, kind, i) = SampleAt(scans, k, kind, a)
  BY DEF SeenAt, SampleOf, a
<1>9. kind \in FineKind /\ SampleAt(scans, k, kind, a) # NoValue =>
         FinePart(scans[a].sample)[k] # NoValue /\ FinePart(scans[a].sample)[k].kind = kind
  BY DEF SampleAt, FinePart, FineKind
<1> QED BY <1>2, <1>3, <1>5, <1>6, <1>7, <1>8, <1>9 DEF a

\* Where the samples of a metric are.
LEMMA Placed ==
    ASSUME TInv, NEW k \in Key, fine.values[k] # NoValue
    PROVE  /\ Kind(k) \in FineKind /\ fine.values[k].tip \in Int
           /\ Top(k) \in Nat /\ BufLen(k) \in Nat
           /\ Len(Shown(k)) = Top(k) + 1 + BufLen(k)
           /\ Len(Shown(k)) <= Len(fine.timestamps)
           /\ \A i \in 1..Top(k) : Shown(k)[i] = NoValue /\ SeenAs(k, i) = "nothing"
           /\ Shown(k)[Top(k) + 1] = fine.values[k].tip
           /\ SeenAt(k, Kind(k), Top(k) + 1) = fine.values[k].tip
           /\ \A n \in 1..BufLen(k) : Shown(k)[Top(k) + 1 + n] = BufItem(fine.values[k], n)
<1> DEFINE v == fine.values[k]
           age == fine.age
           top == Top(k)
           h == Shown(k)
<1>1. /\ Good(fine) /\ Fits(v, age) /\ age \in Nat /\ ValueTells(scans, k, v, age)
  BY MetricTold
<1>2. /\ v.kind \in FineKind /\ v.tip \in Int /\ v.age \in Nat /\ v.age <= age
      /\ Len(v.buf) \in Nat /\ v.age >= 1
  BY <1>1, FitsParts
<1>3. Len(h) <= Len(fine.timestamps)
  BY <1>1, HistoryFits DEF Shown
<1>4. /\ top \in Nat /\ Len(h) = top + 1 + Len(v.buf)
      /\ \A i \in 1..top : h[i] = NoValue
      /\ h[top + 1] = v.tip
      /\ \A n \in 1..Len(v.buf) : h[top + 1 + n] = BufItem(v, n)
  <2>1. h = History(v, age) /\ top = age - v.age
    BY DEF Shown, Top
  <2> HIDE DEF h, top, age, v
  <2> QED BY <1>1, <2>1, HistoryItems
<1>5. SampleAt(scans, k, v.kind, v.age) = v.tip
      /\ \A a \in v.age + 1 .. age : FinePart(scans[a].sample)[k] = NoValue
  BY <1>1 DEF ValueTells, NewestTold
<1> DEFINE va == v.age
<1>6. age \in Nat /\ va \in Nat /\ va <= age /\ top = age - va
  BY <1>1, <1>2 DEF Top
<1>7. ASSUME NEW i \in 1..top PROVE SeenAs(k, i) = "nothing"
  <2>1. age + 1 - i \in va + 1 .. age
    <3> HIDE DEF age, va, top
    <3> QED BY <1>6
  <2> QED BY <1>5, <2>1 DEF SeenAs
<1>8. SeenAt(k, Kind(k), top + 1) = v.tip
  <2>1. age + 1 - (top + 1) = va
    <3> HIDE DEF age, va, top
    <3> QED BY <1>6
  <2> QED BY <1>5, <2>1 DEF SeenAt, SampleOf, Kind
<1> QED BY <1>2, <1>3, <1>4, <1>7, <1>8 DEF Kind, BufLen

\* A float is at the place of the scan that saw it.
LEMMA FloatPlaced ==
    ASSUME TInv, NEW k \in Key, fine.values[k] # NoValue, Kind(k) = "float",
           NEW i \in 1..Len(Shown(k))
    PROVE  Shown(k)[i] = SeenAt(k, "float", i)
<1> DEFINE v == fine.values[k]
           age == fine.age
           top == Top(k)
           h == Shown(k)
<1>1. /\ top \in Nat /\ BufLen(k) \in Nat /\ Len(h) = top + 1 + BufLen(k)
      /\ Len(h) <= Len(fine.timestamps)
      /\ h[top + 1] = v.tip /\ SeenAt(k, "float", top + 1) = v.tip
      /\ \A j \in 1..top : h[j] = NoValue /\ SeenAs(k, j) = "nothing"
      /\ \A n \in 1..BufLen(k) : h[top + 1 + n] = BufItem(v, n)
  BY Placed
<1>2. Len(fine.timestamps) \in Nat /\ Len(fine.timestamps) <= age /\ age \in Nat
  BY NewestInMemory
<1>3. FloatsTold(scans, k, v) /\ Fits(v, age)
  BY MetricTold DEF ValueTells
<1>4. v.age \in Nat /\ top = age - v.age /\ \A n \in 1..Len(v.buf) : v.buf[n] \in Int \/ v.buf[n] = Gap
  BY <1>2, <1>3, FitsParts DEF Top
<1>5. i \in 1..age
  <2> DEFINE lh == Len(h)
             lt == Len(fine.timestamps)
  <2>1. lh \in Nat /\ lh <= lt /\ lt \in Nat /\ lt <= age /\ age \in Nat /\ i \in 1..lh
    BY <1>1, <1>2
  <2> HIDE DEF lh, lt, age
  <2> QED BY ONLY <2>1
<1> DEFINE va == v.age
<1> HIDE DEF age, top, h, va
<1>6. CASE i <= top
  <2>1. i \in 1..top
    BY <1>1, <1>6
  <2>2. SeenAt(k, "float", i) = NoValue
    BY <1>1, <1>5, <2>1, SeenType DEF FineKind, age
  <2> QED BY <1>1, <2>1, <2>2 DEF h
<1>7. CASE i = top + 1
  BY <1>1, <1>7 DEF h
<1>8. CASE i > top + 1
  <2> DEFINE n == i - (top + 1)
  <2> DEFINE lb == BufLen(k)
             lh == Len(h)
  <2>5. /\ lb \in Nat /\ lh = top + 1 + lb /\ top \in Nat /\ i \in 1..lh
        /\ age \in Nat /\ va \in Nat /\ top = age - va
    BY <1>1, <1>2, <1>4 DEF h, va
  <2> HIDE DEF lb, lh
  <2>4. n \in 1..lb /\ i = top + 1 + n /\ age + 1 - i = va - n
    BY ONLY <2>5, <1>8
  <2> HIDE DEF n
  <2>1. n \in 1..BufLen(k) /\ i = top + 1 + n /\ age + 1 - i = v.age - n
    BY <2>4 DEF lb, va
  <2>2. SampleAt(scans, k, "float", v.age - n) = IF v.buf[n] = Gap THEN NoValue ELSE v.buf[n]
    BY <1>3, <2>1 DEF FloatsTold, Kind, BufLen
  <2>3. BufItem(v, n) = IF v.buf[n] = Gap THEN NoValue ELSE v.buf[n]
    BY DEF BufItem, Kind
  <2> QED BY <1>1, <2>1, <2>2, <2>3 DEF SeenAt, SampleOf, age, h
<1> QED BY <1>1, <1>5, <1>6, <1>7, <1>8

\* A metric goes back to a scan that saw it, unless it was something else since.
LEMMA ReachesBack ==
    ASSUME TInv, NEW k \in Key, fine.values[k] # NoValue, NEW n \in Places,
           SeenAs(k, n) # "nothing",
           \A i \in 1..n : SeenAs(k, i) \in {Kind(k), "nothing"}
    PROVE  n <= Len(Shown(k))
<1> DEFINE v == fine.values[k]
           age == fine.age
           lt == Len(fine.timestamps)
           a == age + 1 - n
           Fine(b) == FinePart(scans[b].sample)[k]
<1>1. MetricsKept(scans, fine) /\ lt \in Nat /\ lt <= age /\ age \in Nat
  BY NewestInMemory
<1>2. n \in 1..lt /\ n \in 1..age /\ a \in age - lt + 1 .. age
  BY <1>1 DEF Places
<1>3. SeenKept(scans, k, v, age, a)
  BY <1>1, <1>2 DEF MetricsKept
<1>4. Fine(a) # NoValue
  BY <1>2, SeenType
<1>5. ASSUME NEW b \in a..age, Fine(b) # NoValue PROVE Fine(b).kind = v.kind
  <2> DEFINE i == age + 1 - b
  <2>1. i \in 1..n /\ i \in 1..age /\ age + 1 - i = b
    BY <1>1, <1>2
  <2> HIDE DEF i
  <2>2. SeenAs(k, i) # "nothing" /\ Fine(b).kind = SeenAs(k, i)
    BY <1>5, <2>1, SeenType
  <2> QED BY <2>1, <2>2 DEF Kind
<1>6. v.age - Len(v.buf) <= a
  BY <1>3, <1>4, <1>5 DEF SeenKept
<1>7. /\ Len(Shown(k)) = Top(k) + 1 + BufLen(k) /\ BufLen(k) \in Nat /\ BufLen(k) = Len(v.buf)
      /\ Top(k) = age - v.age
  BY Placed DEF BufLen, Top
<1>8. v.age \in Nat
  BY MetricTold, FitsParts
<1> DEFINE x == v.age
           y == Len(v.buf)
<1>9. x - y <= (age + 1) - n /\ x \in Nat /\ y \in Nat /\ age \in Nat /\ n \in Nat
  BY <1>1, <1>2, <1>6, <1>7, <1>8
<1> HIDE DEF x, y, age, a
<1>10. n <= (age - x) + 1 + y
  BY ONLY <1>9
<1> QED BY <1>7, <1>10 DEF x, y

\* .. and begins with a scan that saw it.
LEMMA BeginsSeen ==
    ASSUME TInv, NEW k \in Key, fine.values[k] # NoValue
    PROVE  \E i \in Len(Shown(k))..fine.age : SeenAt(k, Kind(k), i) # NoValue
<1> DEFINE v == fine.values[k]
           age == fine.age
<1>1. StartTold(scans, k, v) /\ v.age \in Nat /\ v.age <= age /\ age \in Nat
  BY MetricTold, FitsParts DEF ValueTells
<1>2. /\ Len(Shown(k)) = Top(k) + 1 + BufLen(k) /\ BufLen(k) \in Nat /\ BufLen(k) = Len(v.buf)
      /\ Top(k) = age - v.age
  BY Placed DEF BufLen, Top
<1>3. PICK a \in 1 .. v.age - Len(v.buf) : SampleAt(scans, k, v.kind, a) # NoValue
  BY <1>1 DEF StartTold
<1> DEFINE i == age + 1 - a
<1>4. i \in Len(Shown(k))..age /\ age + 1 - i = a
  <2> DEFINE x == v.age
             y == Len(v.buf)
             l == Len(Shown(k))
  <2>1. l = (age - x) + 1 + y /\ y \in Nat /\ x \in Nat /\ age \in Nat /\ a \in 1 .. x - y
    BY <1>1, <1>2
  <2> HIDE DEF x, y, l, age
  <2>2. i \in l..age /\ age + 1 - i = a
    BY ONLY <2>1
  <2> QED BY <2>2 DEF l
<1>5. SeenAt(k, Kind(k), i) # NoValue
  BY <1>3, <1>4 DEF SeenAt, SampleOf, Kind
<1> QED BY <1>4, <1>5

\* The places have the times of their scans.
LEMMA Timed ==
    ASSUME TInv
    PROVE  /\ \A i \in Places : At(i) = fine.timestamps[i] /\ At(i) \in Nat
           /\ \A i, j \in Places : i < j => At(j) < At(i)
<1>1. Good(fine) /\ Dated(scans, fine)
  BY NewestInMemory
<1>2. fine.timestamps \in Seq(Nat) /\ Descending(fine.timestamps)
  BY <1>1 DEF Good, BacklogRecord
<1>3. \A i \in Places : At(i) = fine.timestamps[i] /\ At(i) \in Nat
  BY <1>1, <1>2 DEF Places, At, Dated
<1> QED BY <1>2, <1>3 DEF Places, Descending

\* What the newest scan saw a metric as is what the metric is.
LEMMA NewestKind ==
    ASSUME TInv, NEW k \in Key, fine.values[k] # NoValue, 1 \in Places, NEW kind \in FineKind,
           SeenAt(k, kind, 1) # NoValue
    PROVE  Kind(k) = kind /\ Top(k) = 0
<1>1. 1 \in 1..fine.age
  BY NewestInMemory DEF Places
<1>2. SeenAs(k, 1) = kind
  BY <1>1, SeenType
<1>3. "nothing" \notin FineKind
  BY DEF FineKind
<1>4. Top(k) \in Nat /\ ~ (1 \in 1..Top(k))
  BY <1>2, <1>3, Placed
<1>5. Top(k) = 0
  BY <1>4
<1>6. SeenAt(k, Kind(k), 0 + 1) \in Int /\ Kind(k) \in FineKind
  BY <1>5, Placed
<1>7. SeenAs(k, 1) = Kind(k)
  BY <1>1, <1>6, SeenType, AbsentAssumption
<1> QED BY <1>2, <1>5, <1>7

\* A metric that the newest n scans saw: its history has them all, but for
\* those before a decrease.
LEMMA RunPlaced ==
    ASSUME TInv, NEW k \in Key, fine.values[k] # NoValue, Kind(k) # "float", NEW n \in Places,
           \A i \in 1..n : SeenAt(k, Kind(k), i) # NoValue
    PROVE  /\ Top(k) = 0 /\ n <= Len(Shown(k))
           /\ \A i \in 1..n :
                 /\ SeenAt(k, Kind(k), i) \in Int
                 /\ Shown(k)[i] = IF i > 1 /\ SeenAt(k, Kind(k), i) > SeenAt(k, Kind(k), i - 1)
                                  THEN NoValue ELSE SeenAt(k, Kind(k), i)
<1> DEFINE v == fine.values[k]
           age == fine.age
           S(i) == SeenAt(k, Kind(k), i)
           lh == Len(Shown(k))
           lb == BufLen(k)
<1>1. /\ age \in Nat /\ age <= Len(scans) /\ Fits(v, age) /\ ValueTells(scans, k, v, age)
      /\ scans \in Seq(Scan) /\ v.age \in Nat
  BY MetricTold, FitsParts
<1>2. n \in Nat /\ 1 <= n /\ n <= age /\ \A i \in 1..n : i \in 1..age /\ i \in Places
  BY NewestInMemory DEF Places
<1>3. /\ Kind(k) \in FineKind /\ v.tip \in Int /\ Top(k) \in Nat /\ lb \in Nat
      /\ lh = Top(k) + 1 + lb
      /\ Shown(k)[Top(k) + 1] = v.tip /\ S(Top(k) + 1) = v.tip
      /\ \A m \in 1..lb : Shown(k)[Top(k) + 1 + m] = BufItem(v, m)
  BY Placed
<1>4. \A i \in 1..n : S(i) \in Int /\ SeenAs(k, i) = Kind(k)
  BY <1>2, <1>3, SeenType
<1>5. Top(k) = 0
  BY <1>2, <1>3, NewestKind
<1>6. n <= lh
  <2>1. SeenAs(k, n) # "nothing" /\ \A i \in 1..n : SeenAs(k, i) \in {Kind(k), "nothing"}
    BY <1>2, <1>3, <1>4 DEF FineKind
  <2> QED BY <2>1, ReachesBack
<1>7. ASSUME NEW i \in 1..n, i > 1
      PROVE  Shown(k)[i] = IF S(i) > S(i - 1) THEN NoValue ELSE S(i)
  <2> DEFINE m == i - 1
  <2> HIDE DEF lh, lb
  <2>1. m \in 1..lb /\ i = 0 + 1 + m
    BY <1>2, <1>3, <1>5, <1>6, <1>7
  <2> DEFINE va == v.age
  <2>2. va = age /\ age \in Nat
    BY <1>1, <1>5 DEF Top
  <2>3. \A a \in va - m .. va : SampleAt(scans, k, v.kind, a) # NoValue
    <3> SUFFICES ASSUME NEW a \in va - m .. va
                 PROVE  SampleAt(scans, k, v.kind, a) # NoValue
      OBVIOUS
    <3> DEFINE j == age + 1 - a
    <3> HIDE DEF va, age, S
    <3>1. j \in 1..n /\ age + 1 - j = a
      BY <1>2, <2>1, <2>2
    <3> HIDE DEF j
    <3>2. SeenAt(k, Kind(k), j) # NoValue
      BY <3>1
    <3> QED BY <3>1, <3>2 DEF SeenAt, SampleOf, Kind, age
  <2>4. va - m = age + 1 - i /\ va - m + 1 = age + 1 - (i - 1)
    <3> HIDE DEF va, age
    <3> QED BY <1>2, <2>2
  <2> HIDE DEF m
  <2>5. BufItem(v, m) = IF SampleAt(scans, k, v.kind, va - m) > SampleAt(scans, k, v.kind, va - m + 1)
                        THEN NoValue ELSE SampleAt(scans, k, v.kind, va - m)
    <3>1. m \in 1..Len(v.buf) /\ v.kind # "float"
      BY <2>1 DEF lb, BufLen, Kind
    <3> QED BY <1>1, <2>3, <3>1, GaplessItems
  <2>6. Shown(k)[i] = BufItem(v, m)
    BY <1>3, <1>5, <2>1
  <2> QED BY <2>4, <2>5, <2>6 DEF SeenAt, SampleOf, Kind
<1>8. Shown(k)[1] = S(1)
  BY <1>3, <1>5
<1>9. ASSUME NEW i \in 1..n
      PROVE  Shown(k)[i] = IF i > 1 /\ S(i) > S(i - 1) THEN NoValue ELSE S(i)
  <2> HIDE DEF S
  <2>1. CASE i > 1
    BY <1>7, <2>1
  <2>2. CASE ~ (i > 1)
    <3>1. i = 1
      BY <1>2, <2>2
    <3> QED BY <1>8, <2>2, <3>1
  <2> QED BY <2>1, <2>2
<1> QED BY <1>4, <1>5, <1>6, <1>9

\* A counter that went up all the time.
LEMMA SteadyRun ==
    ASSUME TInv, NEW k \in Key, fine.values[k] # NoValue, NEW n \in Places, Steady(k, 1..n)
    PROVE  /\ Kind(k) = "counter" /\ Top(k) = 0 /\ n <= Len(Shown(k))
           /\ \A i \in 1..n : /\ SeenAt(k, "counter", i) \in Int
                              /\ Shown(k)[i] = SeenAt(k, "counter", i)
                              /\ SeenAt(k, "counter", i) <= SeenAt(k, "counter", 1)
<1> DEFINE S(i) == SeenAt(k, "counter", i)
<1>1. n \in Nat /\ 1 <= n /\ 1 \in 1..n /\ 1 \in Places
  BY NewestInMemory DEF Places
<1>2. /\ \A i \in 1..n : S(i) # NoValue
      /\ \A i \in 1..n : i + 1 \in 1..n => S(i) >= S(i + 1)
  BY DEF Steady
<1>3. Kind(k) = "counter"
  <2>1. "counter" \in FineKind
    BY DEF FineKind
  <2> QED BY <1>1, <1>2, <2>1, NewestKind
<1>4. /\ Top(k) = 0 /\ n <= Len(Shown(k))
      /\ \A i \in 1..n : /\ S(i) \in Int
                         /\ Shown(k)[i] = IF i > 1 /\ S(i) > S(i - 1) THEN NoValue ELSE S(i)
  BY <1>2, <1>3, RunPlaced
<1> HIDE DEF S
<1>5. \A i \in 1..n : i > 1 => i - 1 \in 1..n /\ S(i - 1) >= S(i)
  <2>1. \A i \in 1..n : i > 1 => i - 1 \in 1..n /\ (i - 1) + 1 = i
    BY <1>1
  <2> QED BY <1>2, <2>1
<1>6. ASSUME NEW i \in 1..n PROVE Shown(k)[i] = S(i)
  <2>1. CASE i > 1
    BY <1>4, <1>5, <2>1
  <2>2. CASE ~ (i > 1)
    BY <1>4, <2>2
  <2> QED BY <2>1, <2>2
<1>7. \A i \in 1..n : S(i) <= S(1)
  <2> DEFINE bad == {i \in 1..n : ~ (S(i) <= S(1))}
  <2> SUFFICES ASSUME bad # {} PROVE FALSE
    OBVIOUS
  <2>1. PICK i \in bad : \A j \in bad : i <= j
    <3> bad \in SUBSET Nat
      OBVIOUS
    <3> HIDE DEF bad
    <3> QED BY LeastExists
  <2>2. i > 1
    BY <1>1, <1>4, <2>1
  <2>3. i - 1 \in 1..n /\ S(i - 1) >= S(i) /\ i - 1 \notin bad
    BY <1>5, <2>1, <2>2
  <2> QED BY <1>1, <1>4, <2>1, <2>3
<1> QED BY <1>3, <1>4, <1>6, <1>7 DEF S

\* The readers' difference of such a counter is exact.
LEMMA SteadyDiff ==
    ASSUME TInv, NEW k \in Key, fine.values[k] # NoValue, NEW n \in Places, n > 1,
           Steady(k, 1..n)
    PROVE  /\ KnownIndexes(fine, fine.values[k], n - 1) # {}
           /\ DiffToAtMost(fine, fine.values[k], n - 1).value = Growth(k, 1, n)
           /\ DiffToAtMost(fine, fine.values[k], n - 1).from = At(1)
           /\ DiffToAtMost(fine, fine.values[k], n - 1).to = At(n)
           /\ Growth(k, 1, n) \in Nat
           /\ At(1) \in Nat /\ At(n) \in Nat /\ At(n) < At(1)
<1> DEFINE v == fine.values[k]
           h == Shown(k)
           lh == Len(h)
           S(i) == SeenAt(k, "counter", i)
           m == n - 1
           K == KnownIndexes(fine, v, m)
<1>1. /\ Kind(k) = "counter" /\ Top(k) = 0 /\ n <= lh
      /\ \A i \in 1..n : S(i) \in Int /\ h[i] = S(i) /\ S(i) <= S(1)
  BY SteadyRun
<1>2. n \in Nat /\ m \in Nat /\ m >= 1 /\ 1 \in Places /\ n \in Places
  BY NewestInMemory DEF Places
<1>3. lh \in Nat /\ h[Top(k) + 1] = v.tip
  BY Placed
<1> HIDE DEF lh
<1>4. K = {i \in 1..Smaller(m, lh - 1) : h[i + 1] # NoValue}
  BY DEF KnownIndexes, Shown, lh
<1>5. Smaller(m, lh - 1) = m
  BY <1>1, <1>2, <1>3 DEF Smaller
<1>6. K = 1..m
  <2>1. \A i \in 1..m : i + 1 \in 1..n
    BY <1>2
  <2> QED BY <1>1, <1>4, <1>5, <2>1, AbsentAssumption
<1>7. K # {} /\ LastKnown(fine, v, m) = m
  <2>1. m \in K /\ \A i \in K : i <= m /\ i \in Nat
    BY <1>2, <1>6
  <2> HIDE DEF K, m
  <2>2. \A i \in K : (\A j \in K : j <= i) => i = m
    BY <1>2, <2>1
  <2> QED BY <2>1, <2>2 DEF LastKnown, K
<1>8. /\ DiffToAtMost(fine, v, m).value = Difference(v, h[m + 1])
      /\ DiffToAtMost(fine, v, m).from = fine.timestamps[TipIndex(fine, v) + 1]
      /\ DiffToAtMost(fine, v, m).to = fine.timestamps[m + 1]
  <2> HIDE DEF m
  <2> QED BY <1>7 DEF DiffToAtMost, Shown
<1>9. m + 1 = n /\ TipIndex(fine, v) + 1 = 1
  BY <1>1, <1>2 DEF TipIndex, Top
<1>10. Difference(v, h[n]) = S(1) - S(n) /\ S(1) - S(n) \in Nat
  <2>1. v.tip = S(1) /\ n \in 1..n /\ 1 \in 1..n
    BY <1>1, <1>2, <1>3
  <2>2. S(n) \in Int /\ S(1) \in Int /\ S(n) <= S(1) /\ h[n] = S(n)
    BY <1>1, <2>1
  <2>3. Difference(v, h[n]) = Monus(S(1), S(n))
    BY <1>1, <2>1, <2>2 DEF Difference, Kind
  <2> HIDE DEF S
  <2> QED BY <2>2, <2>3 DEF Monus
<1>11. At(1) = fine.timestamps[1] /\ At(n) = fine.timestamps[n]
       /\ At(1) \in Nat /\ At(n) \in Nat /\ At(n) < At(1)
  BY <1>2, Timed
<1> QED BY <1>7, <1>8, <1>9, <1>10, <1>11 DEF Growth

-----------------------------------------------------------------------------
(* Sets of metrics, and their series                                       *)

\* The image of a finite set is finite.
LEMMA ImageFinite ==
    ASSUME NEW S, IsFiniteSet(S), NEW f, NEW T, T = {f[x] : x \in S}
    PROVE  IsFiniteSet(T)
<1> DEFINE g == [x \in S |-> f[x]]
<1>1. g \in Surjection(S, T)
  BY DEF Surjection
<1> HIDE DEF g
<1> QED BY <1>1, FS_Surjection

\* Sets of none, one and more elements.
LEMMA SizeOfSet ==
    ASSUME NEW S, IsFiniteSet(S)
    PROVE  /\ Cardinality(S) \in Nat
           /\ Cardinality(S) = 0 <=> S = {}
           /\ Cardinality(S) = 1 <=> \E x \in S : S = {x}
           /\ Cardinality(S) > 1 <=> \E x, y \in S : x # y
<1>1. Cardinality(S) \in Nat /\ (Cardinality(S) = 0 <=> S = {})
  BY FS_CardinalityType, FS_EmptySet
<1>2. Cardinality(S) = 1 <=> \E x : S = {x}
  BY FS_Singleton
<1>3. (\E x : S = {x}) <=> \E x \in S : S = {x}
  OBVIOUS
<1>4. (S # {} /\ ~ \E x : S = {x}) <=> \E x, y \in S : x # y
  <2>1. ASSUME S # {}, ~ \E x : S = {x} PROVE \E x, y \in S : x # y
    <3>1. PICK x \in S : TRUE
      BY <2>1
    <3>2. S # {x}
      BY <2>1
    <3> QED BY <3>1, <3>2
  <2> QED BY <2>1
<1>5. Cardinality(S) > 1 <=> Cardinality(S) # 0 /\ Cardinality(S) # 1
  BY <1>1
<1> QED BY <1>1, <1>2, <1>3, <1>4, <1>5

\* The kind of several series or tips.
LEMMA MergedKindIs ==
    ASSUME NEW items, NEW kinds, kinds = {s.kind : s \in items}, IsFiniteSet(kinds)
    PROVE  /\ Cardinality(kinds) > 1 => MergedKind(items) = "Conflict"
           /\ \A kind : kinds = {kind} => MergedKind(items) = kind
<1>1. MergedKind(items) = IF kinds = {} THEN "Empty"
                          ELSE IF Cardinality(kinds) = 1 THEN CHOOSE k \in kinds : TRUE
                          ELSE "Conflict"
  BY DEF MergedKind
<1>2. Cardinality(kinds) > 1 => kinds # {} /\ Cardinality(kinds) # 1
  BY SizeOfSet
<1>3. \A kind : kinds = {kind} => kinds # {} /\ Cardinality(kinds) = 1 /\ (CHOOSE k \in kinds : TRUE) = kind
  BY FS_Singleton
<1> QED BY <1>1, <1>2, <1>3

\* The metrics that are asked for.
LEMMA Asked ==
    ASSUME NEW metric
    PROVE  /\ KeysOf(metric) \subseteq Key /\ IsFiniteSet(KeysOf(metric))
           /\ \A k \in KeysOf(metric) : fine.values[k] # NoValue
<1>1. KeysOf(metric) \subseteq Key /\ \A k \in KeysOf(metric) : fine.values[k] # NoValue
  BY DEF KeysOf
<1> QED BY <1>1, SeriesAssumption, FS_Subset

\* The kinds they have.
Kinds(metric) == {Kind(k) : k \in KeysOf(metric)}

\* The series of a metric: the items of its history.
LEMMA SeriesItems ==
    ASSUME TInv, NEW n \in Places, NEW k \in Key, fine.values[k] # NoValue
    PROVE  /\ Len(SeriesFor(k, n).vals) = Smaller(n, Len(Shown(k)))
           /\ \A i \in 1..Smaller(n, Len(Shown(k))) : SeriesFor(k, n).vals[i] = Shown(k)[i]
<1> DEFINE h == Shown(k)
           S == {h[i] : i \in 1..Len(h)}
<1>0. n \in Nat
  BY NewestInMemory DEF Places
<1>1. Len(h) \in Nat
  BY Placed
<1>2. h \in Seq(S)
  <2> DEFINE m == Monus(fine.age, fine.values[k].age) + 1 + Len(fine.values[k].buf)
  <2>3. m \in Nat
    <3>1. Fits(fine.values[k], fine.age) /\ fine.age \in Nat
      BY MetricTold
    <3> QED BY <3>1, FitsParts DEF Monus
  <2>4. h = [i \in 1..m |-> h[i]]
    BY DEF Shown, History
  <2> HIDE DEF h, m
  <2>5. Len(h) = m
    BY <2>3, <2>4
  <2>1. h = [i \in 1..Len(h) |-> h[i]]
    BY <2>4, <2>5
  <2>2. \A i \in 1..Len(h) : h[i] \in S
    OBVIOUS
  <2> HIDE DEF S
  <2> QED BY <1>1, <2>1, <2>2
<1> HIDE DEF h, S
<1>3. Len(Take(h, n)) = Smaller(n, Len(h)) /\ \A i \in 1..Len(Take(h, n)) : Take(h, n)[i] = h[i]
  BY <1>0, <1>2, TakeProperties
<1>4. SeriesFor(k, n).vals = Take(h, n)
  BY DEF SeriesFor, h, Shown
<1> QED BY <1>3, <1>4 DEF h

\* Their series: one of each.
LEMMA SeriesOfKeys ==
    ASSUME TInv, NEW metric, NEW n \in Places
    PROVE  /\ IsFiniteSet(SeriesSet(metric, n))
           /\ {s.kind : s \in SeriesSet(metric, n)} = Kinds(metric)
           /\ IsFiniteSet(Kinds(metric)) /\ Kinds(metric) \subseteq FineKind
           /\ \A k \in KeysOf(metric) :
                 /\ Len(SeriesFor(k, n).vals) = Smaller(n, Len(Shown(k)))
                 /\ SeriesFor(k, n).timestamps = Take(fine.timestamps, n)
                 /\ SeriesFor(k, n).key = k /\ SeriesFor(k, n).kind = Kind(k)
           /\ Len(Take(fine.timestamps, n)) = n /\ n \in Nat
           /\ \A i \in 1..n : Take(fine.timestamps, n)[i] = At(i)
<1> DEFINE keys == KeysOf(metric)
           f == [k \in keys |-> SeriesFor(k, n)]
           g == [k \in keys |-> Kind(k)]
           kinds == {Kind(k) : k \in keys}
           data == {SeriesFor(k, n) : k \in keys}
<1>1. IsFiniteSet(keys) /\ keys \subseteq Key /\ \A k \in keys : fine.values[k] # NoValue
  BY Asked
<1>2. n \in Nat /\ n <= Len(fine.timestamps) /\ Len(fine.timestamps) \in Nat
  BY NewestInMemory DEF Places
<1>3. fine.timestamps \in Seq(Nat)
  BY NewestInMemory DEF Good, BacklogRecord
<1>4. Smaller(n, Len(fine.timestamps)) = n
  BY <1>2 DEF Smaller
<1>5. /\ Len(Take(fine.timestamps, n)) = n
      /\ \A i \in 1..n : Take(fine.timestamps, n)[i] = fine.timestamps[i]
  <2> DEFINE ts == fine.timestamps
  <2>1. n \in Nat /\ Smaller(n, Len(ts)) = n
    BY <1>2, <1>4
  <2>2. ts \in Seq(Nat)
    BY <1>3
  <2> HIDE DEF ts
  <2>3. Len(Take(ts, n)) = n /\ \A i \in 1..n : Take(ts, n)[i] = ts[i]
    BY ONLY <2>1, <2>2, TakeProperties
  <2> QED BY <2>3 DEF ts
<1>6. \A i \in 1..n : Take(fine.timestamps, n)[i] = At(i)
  BY <1>2, <1>5, Timed DEF Places
<1>7. ASSUME NEW k \in keys
      PROVE  /\ Len(SeriesFor(k, n).vals) = Smaller(n, Len(Shown(k)))
             /\ SeriesFor(k, n).timestamps = Take(fine.timestamps, n)
             /\ SeriesFor(k, n).key = k /\ SeriesFor(k, n).kind = Kind(k)
  <2>1. k \in Key /\ fine.values[k] # NoValue
    BY <1>1
  <2> QED BY <2>1, SeriesItems DEF SeriesFor
<1>8. IsFiniteSet(data) /\ IsFiniteSet(kinds)
  <2>1. data = {f[k] : k \in keys} /\ kinds = {g[k] : k \in keys}
    OBVIOUS
  <2> HIDE DEF f, g, keys, kinds
  <2>2. IsFiniteSet(keys)
    BY <1>1
  <2>3. IsFiniteSet(data)
    BY ONLY <2>1, <2>2, ImageFinite
  <2>4. IsFiniteSet(kinds)
    BY ONLY <2>1, <2>2, ImageFinite
  <2> QED BY <2>3, <2>4
<1>10. {s.kind : s \in data} = kinds
  <2>1. data = {SeriesFor(k, n) : k \in keys}
    OBVIOUS
  <2> HIDE DEF keys
  <2> QED BY <1>7, <2>1
<1>11. kinds \subseteq FineKind
  <2>1. ASSUME NEW k \in keys PROVE Kind(k) \in FineKind
    <3>1. k \in Key /\ fine.values[k] # NoValue
      BY <1>1
    <3> QED BY <3>1, Placed
  <2> HIDE DEF keys
  <2> QED BY <2>1
<1>12. SeriesSet(metric, n) = data /\ Kinds(metric) = kinds
  BY DEF SeriesSet, Kinds
<1> HIDE DEF data, kinds
<1> QED BY <1>2, <1>5, <1>6, <1>7, <1>8, <1>10, <1>11, <1>12

\* The sum of floats at a place is the sum of what the scan saw.
LEMMA FloatSum ==
    ASSUME TInv, NEW metric, NEW n \in Places,
           \A k \in KeysOf(metric) : Kind(k) = "float",
           NEW i \in 1..n, \A k \in KeysOf(metric) : i <= Len(Shown(k)),
           NEW there, there = {k \in KeysOf(metric) : SeenAt(k, "float", i) # NoValue}
    PROVE  PointSum(SeriesSet(metric, n), i) = IF there = {} THEN NoValue
                               ELSE SumFunction([k \in there |-> SeenAt(k, "float", i)])
<1> DEFINE data == SeriesSet(metric, n)
           known == {s \in data : s.vals[i] # NoValue}
           f == [k \in there |-> SeenAt(k, "float", i)]
           g == [s \in known |-> s.vals[i]]
           h == [k \in there |-> SeriesFor(k, n)]
<1>1. n \in Nat /\ i \in 1..fine.age
  BY NewestInMemory DEF Places
<1>2. ASSUME NEW k \in KeysOf(metric)
      PROVE  /\ SeriesFor(k, n).vals[i] = SeenAt(k, "float", i)
             /\ SeriesFor(k, n).key = k
             /\ SeenAt(k, "float", i) \in Int \cup {NoValue}
  <2>1. k \in Key /\ fine.values[k] # NoValue
    BY Asked
  <2>2. Len(Shown(k)) \in Nat /\ i <= Len(Shown(k)) /\ Kind(k) = "float"
    BY <2>1, Placed
  <2>3. i \in 1..Smaller(n, Len(Shown(k))) /\ i \in 1..Len(Shown(k))
    BY <1>1, <2>2 DEF Smaller
  <2>4. SeriesFor(k, n).vals[i] = Shown(k)[i] /\ SeriesFor(k, n).key = k
    BY <2>1, <2>3, SeriesItems DEF SeriesFor
  <2>5. Shown(k)[i] = SeenAt(k, "float", i)
    BY <2>1, <2>2, <2>3, FloatPlaced
  <2>6. SeenAt(k, "float", i) \in Int \cup {NoValue}
    BY <1>1, <2>1, SeenType
  <2> QED BY <2>4, <2>5, <2>6
<1>3. known = {SeriesFor(k, n) : k \in there}
  BY <1>2 DEF SeriesSet
<1>4. IsFiniteSet(there) /\ IsFiniteSet(known)
  <2>1. IsFiniteSet(KeysOf(metric)) /\ IsFiniteSet(data)
    BY Asked, SeriesOfKeys
  <2> QED BY <2>1, FS_Subset
<1>5. PointSum(data, i) = IF known = {} THEN NoValue ELSE SumFunction(g)
  BY DEF PointSum
<1>6. known = {} <=> there = {}
  BY <1>3
<1>7. SumFunction(f) = SumFunctionOnSet(f, there) /\ SumFunction(g) = SumFunctionOnSet(g, known)
  <2>1. DOMAIN f = there /\ DOMAIN g = known
    OBVIOUS
  <2> HIDE DEF f, g, known
  <2> QED BY <2>1, SumFunctionIs
<1>8. SumFunctionOnSet(f, there) = SumFunctionOnSet(g, known)
  <2>1. h \in [there -> known] /\ \A z \in known : \E x \in there : h[x] = z
    BY <1>3
  <2>2. \A x, y \in there : h[x] = h[y] => x = y
    BY <1>2
  <2>3. \A x \in there : f[x] \in Int /\ f[x] = g[h[x]]
    BY <1>2, <1>3
  <2> HIDE DEF f, g, h, known
  <2> QED BY <1>4, <2>1, <2>2, <2>3, SumRenamed
<1> HIDE DEF known
<1> QED BY <1>5, <1>6, <1>7, <1>8

\* What the query answers.
LEMMA SumAsked ==
    ASSUME NEW metric, NEW n
    PROVE  Ask(metric, ByNum(n), <<Total>>) = SumAll(AllSeries(metric, n))
<1> DEFINE rule == AskRule(metric, ByNum(n), <<Total>>)
<1>1. rule.functions = <<Total>>
  BY DEF AskRule
<1> HIDE DEF rule
<1>2. QueryHistory(rule, fine, tip) = Exec(Extracted(rule, fine, tip), Total)
  BY <1>1, OneFunction
<1>3. Ask(metric, ByNum(n), <<Total>>) = Exec(AllSeries(metric, n), Total)
  BY <1>2, AskIs, SeriesAsked DEF rule
<1>4. AllSeries(metric, n).type = "MultiSeries" /\ Total.op = "Sum"
  BY DEF AllSeries, Total
<1> QED BY <1>3, <1>4 DEF Exec

\* The answers with sums of float metrics, and which of them are refused or panic
\* (query_history, sum_series): SumsAreSamples is a fact about the history alone.
THEOREM SumsTrue == Spec => []SumsAreSamples
<1>1. TInv => SumsAreSamples
  <2> SUFFICES ASSUME TInv, NEW n \in Places, NEW metric
               PROVE  LET keys  == KeysOf(metric)
                          kinds == Kinds(metric)
                          d     == Ask(metric, ByNum(n), <<Total>>)
                          There(i) == {k \in keys : SeenAt(k, "float", i) # NoValue}
                      IN  /\ d.type = "Incompatible" <=> Cardinality(kinds) > 1
                          /\ d.type = "Panic" =>
                               \E k \in keys :
                                   \/ SeenAt(k, Kind(k), n) = NoValue
                                   \/ \E i \in 1..n : SeenAs(k, i) \notin {Kind(k), "nothing"}
                          /\ /\ Cardinality(kinds) = 1 /\ Cardinality(keys) > 1
                             /\ \E k \in keys : \A i \in n..fine.age : SeenAt(k, Kind(k), i) = NoValue
                             => d.type = "Panic"
                          /\ kinds = {"float"} /\ d.type = "SingleSeries" =>
                               \A s \in d.data : \A i \in 1..Len(s.vals) :
                                   s.vals[i] = IF There(i) = {} THEN NoValue
                                               ELSE SumFunction([k \in There(i) |-> SeenAt(k, "float", i)])
    BY DEF SumsAreSamples, Kinds
  <2> DEFINE keys  == KeysOf(metric)
             kinds == Kinds(metric)
             data  == SeriesSet(metric, n)
             d     == Ask(metric, ByNum(n), <<Total>>)
             ts    == Take(fine.timestamps, n)
             There(i) == {k \in keys : SeenAt(k, "float", i) # NoValue}
             Short(k) == Len(Shown(k)) < n
  <2>1. /\ IsFiniteSet(keys) /\ keys \subseteq Key /\ \A k \in keys : fine.values[k] # NoValue
    BY Asked
  <2>2. /\ IsFiniteSet(data) /\ {s.kind : s \in data} = kinds /\ IsFiniteSet(kinds)
        /\ kinds \subseteq FineKind /\ Len(ts) = n /\ n \in Nat
        /\ \A k \in keys :
              /\ Len(SeriesFor(k, n).vals) = Smaller(n, Len(Shown(k)))
              /\ SeriesFor(k, n).timestamps = ts
              /\ SeriesFor(k, n).key = k /\ SeriesFor(k, n).kind = Kind(k)
    BY SeriesOfKeys
  <2>3. d = IF data = {} THEN Empty
            ELSE IF Cardinality(data) = 1 THEN [type |-> "SingleSeries", data |-> data]
            ELSE SummedSeries(data)
    <3>1. d = SumAll(AllSeries(metric, n))
      BY SumAsked
    <3> HIDE DEF d
    <3> QED BY <3>1 DEF SumAll, AllSeries
  <2>4. \A s \in data : s.timestamps = ts
    BY <2>2 DEF SeriesSet
  <2>5. ASSUME NEW k \in keys PROVE Len(Shown(k)) \in Nat
    <3>1. k \in Key /\ fine.values[k] # NoValue
      BY <2>1
    <3> QED BY <3>1, Placed
  <2>6. (\E s \in data : Len(s.vals) < Len(ts)) <=> \E k \in keys : Short(k)
    <3>1. \A k \in keys : Len(SeriesFor(k, n).vals) < Len(ts) <=> Short(k)
      BY <2>2, <2>5 DEF Smaller
    <3> HIDE DEF Short, ts
    <3> QED BY <3>1 DEF SeriesSet
  <2>7. data # {} => SummedSeries(data) =
            IF MergedKind(data) = "state" THEN Incompatible("CantSumStates")
            ELSE IF MergedKind(data) = "Conflict" THEN Incompatible("Dissimilar")
            ELSE IF \E k \in keys : Short(k) THEN Panic
            ELSE [type |-> "SingleSeries",
                  data |-> {[key |-> EmptyKey, kind |-> MergedKind(data),
                             vals |-> [i \in 1..n |-> PointSum(data, i)],
                             timestamps |-> ts]}]
    <3> HIDE DEF data, Short, ts, keys
    <3> SUFFICES ASSUME data # {} PROVE SummedSeries(data) =
            IF MergedKind(data) = "state" THEN Incompatible("CantSumStates")
            ELSE IF MergedKind(data) = "Conflict" THEN Incompatible("Dissimilar")
            ELSE IF \E k \in keys : Short(k) THEN Panic
            ELSE [type |-> "SingleSeries",
                  data |-> {[key |-> EmptyKey, kind |-> MergedKind(data),
                             vals |-> [i \in 1..n |-> PointSum(data, i)],
                             timestamps |-> ts]}]
      OBVIOUS
    <3>1. (CHOOSE s \in data : TRUE).timestamps = ts
      BY <2>4
    <3>2. ~ \E s \in data : s.timestamps # ts
      BY <2>4
    <3> QED BY <2>2, <2>6, <3>1, <3>2 DEF SummedSeries
  <2>8. /\ Cardinality(kinds) > 1 => MergedKind(data) = "Conflict"
        /\ \A kind : kinds = {kind} => MergedKind(data) = kind
    <3> HIDE DEF data, kinds
    <3> QED BY <2>2, MergedKindIs
  <2>9. data = {} <=> keys = {}
    BY DEF SeriesSet
  <2>10. data = {} => kinds = {} /\ Cardinality(kinds) = 0
    BY <2>2, FS_EmptySet DEF SeriesSet, Kinds
  <2>11. Cardinality(data) = 1 <=> Cardinality(keys) = 1
    <3>1. (\E s \in data : data = {s}) <=> \E k \in keys : keys = {k}
      <4>1. ASSUME NEW s \in data, data = {s} PROVE \E k \in keys : keys = {k}
        <5>1. PICK k \in keys : s = SeriesFor(k, n)
          BY DEF SeriesSet
        <5>2. \A j \in keys : SeriesFor(j, n) = s
          BY <4>1 DEF SeriesSet
        <5>3. \A j \in keys : j = k
          BY <2>2, <5>1, <5>2
        <5> QED BY <5>1, <5>3
      <4>2. ASSUME NEW k \in keys, keys = {k} PROVE \E s \in data : data = {s}
        <5>1. data = {SeriesFor(k, n)}
          BY <4>2 DEF SeriesSet
        <5> HIDE DEF data
        <5> QED BY <5>1
      <4> QED BY <4>1, <4>2
    <3> HIDE DEF data, keys
    <3> QED BY <2>1, <2>2, <3>1, SizeOfSet
  <2>12. \A k \in keys : Kind(k) \in kinds
    BY DEF Kinds
  <2>13. Cardinality(keys) = 1 => Cardinality(kinds) = 1
    <3>1. ASSUME NEW k \in keys, keys = {k} PROVE kinds = {Kind(k)}
      BY <3>1 DEF Kinds
    <3> HIDE DEF keys, kinds
    <3>2. Cardinality(keys) = 1 => \E k \in keys : keys = {k}
      BY <2>1, SizeOfSet
    <3> QED BY <3>1, <3>2, FS_Singleton
  <2>14. Cardinality(kinds) # 0 /\ ~ (Cardinality(kinds) > 1) =>
            MergedKind(data) \in FineKind /\ Cardinality(kinds) = 1
    <3> HIDE DEF kinds, data
    <3>1. Cardinality(kinds) \in Nat
      BY <2>2, SizeOfSet
    <3>2. Cardinality(kinds) # 0 /\ ~ (Cardinality(kinds) > 1) => Cardinality(kinds) = 1
      BY <3>1
    <3>3. Cardinality(kinds) = 1 => \E kind \in kinds : kinds = {kind}
      BY <2>2, SizeOfSet
    <3> QED BY <2>2, <2>8, <3>2, <3>3
  <2>15. keys # {} => Cardinality(kinds) # 0
    <3>1. keys # {} => kinds # {}
      BY DEF Kinds
    <3> HIDE DEF kinds
    <3> QED BY <2>2, <3>1, SizeOfSet
  <2>16. "state" \notin FineKind /\ "Conflict" \notin FineKind
    BY DEF FineKind
  <2> HIDE DEF d, data, keys, kinds, ts, Short
  <2>17. Empty.type = "Empty" /\ Panic.type = "Panic"
         /\ \A r : Incompatible(r).type = "Incompatible"
    BY DEF Empty, Panic, Incompatible
  \* The answer, case by case.
  <2>18. \/ data = {} /\ d.type = "Empty" /\ Cardinality(kinds) = 0
         \/ data # {} /\ Cardinality(keys) = 1 /\ Cardinality(kinds) = 1
            /\ d.type = "SingleSeries" /\ d.data = data
         \/ data # {} /\ Cardinality(keys) # 1 /\ Cardinality(kinds) > 1 /\ d.type = "Incompatible"
         \/ /\ data # {} /\ Cardinality(keys) # 1 /\ Cardinality(kinds) = 1
            /\ \/ d.type = "Panic" /\ \E k \in keys : Short(k)
               \/ /\ d.type = "SingleSeries" /\ ~ \E k \in keys : Short(k)
                  /\ d.data = {[key |-> EmptyKey, kind |-> MergedKind(data),
                             vals |-> [i \in 1..n |-> PointSum(data, i)],
                             timestamps |-> ts]}
    <3>1. CASE data = {}
      BY <2>3, <2>10, <2>17, <3>1
    <3>2. CASE data # {} /\ Cardinality(data) = 1
      BY <2>3, <2>11, <2>13, <3>2
    <3>3. CASE data # {} /\ Cardinality(data) # 1 /\ Cardinality(kinds) > 1
      BY <2>3, <2>7, <2>8, <2>11, <2>17, <3>3
    <3>4. CASE data # {} /\ Cardinality(data) # 1 /\ ~ (Cardinality(kinds) > 1)
      <4>1. MergedKind(data) # "state" /\ MergedKind(data) # "Conflict" /\ Cardinality(kinds) = 1
        BY <2>9, <2>14, <2>15, <2>16, <3>4
      <4>2. d = IF \E k \in keys : Short(k) THEN Panic
                ELSE [type |-> "SingleSeries",
                      data |-> {[key |-> EmptyKey, kind |-> MergedKind(data),
                                 vals |-> [i \in 1..n |-> PointSum(data, i)],
                                 timestamps |-> ts]}]
        BY <2>3, <2>7, <3>4, <4>1
      <4> QED BY <2>11, <2>17, <3>4, <4>1, <4>2
    <3> QED BY <3>1, <3>2, <3>3, <3>4
  <2>19. d.type = "Incompatible" <=> Cardinality(kinds) > 1
    BY <2>18
  <2>20. ASSUME d.type = "Panic"
         PROVE  \E k \in keys : \/ SeenAt(k, Kind(k), n) = NoValue
                                \/ \E i \in 1..n : SeenAs(k, i) \notin {Kind(k), "nothing"}
    <3>1. PICK k \in keys : Short(k)
      BY <2>18, <2>20
    <3>2. k \in Key /\ fine.values[k] # NoValue /\ Kind(k) \in FineKind
      BY <2>1, Placed
    <3>3. ~ (n <= Len(Shown(k)))
      BY <2>2, <2>5, <3>1 DEF Short
    <3>4. SeenAs(k, n) = "nothing" \/ \E i \in 1..n : SeenAs(k, i) \notin {Kind(k), "nothing"}
      BY <3>2, <3>3, ReachesBack
    <3>5. n \in 1..fine.age
      BY NewestInMemory DEF Places
    <3> QED BY <3>2, <3>4, <3>5, SeenType
  <2>21. ASSUME Cardinality(kinds) = 1, Cardinality(keys) > 1,
                NEW k \in keys, \A i \in n..fine.age : SeenAt(k, Kind(k), i) = NoValue
         PROVE  d.type = "Panic"
    <3>1. k \in Key /\ fine.values[k] # NoValue
      BY <2>1
    <3>2. PICK i \in Len(Shown(k))..fine.age : SeenAt(k, Kind(k), i) # NoValue
      BY <3>1, BeginsSeen
    <3>3. fine.age \in Nat /\ Len(Shown(k)) \in Nat /\ n \in Nat
      BY <2>2, <2>5, NewestInMemory
    <3>4. ~ (i \in n..fine.age)
      BY <2>21, <3>2
    <3>5. Short(k)
      BY <3>2, <3>3, <3>4 DEF Short
    <3>6. Cardinality(keys) # 1
      BY <2>1, <2>21, SizeOfSet
    <3> QED BY <2>18, <2>21, <3>5, <3>6
  <2>22. ASSUME kinds = {"float"}, d.type = "SingleSeries", NEW s \in d.data, NEW i \in 1..Len(s.vals)
         PROVE  s.vals[i] = IF There(i) = {} THEN NoValue
                            ELSE SumFunction([k \in There(i) |-> SeenAt(k, "float", i)])
    <3>1. \A k \in keys : Kind(k) = "float"
      BY <2>12, <2>22
    <3>2. /\ i \in 1..n
          /\ \A k \in keys : i <= Len(Shown(k))
          /\ s.vals[i] = PointSum(data, i)
      <4>1. CASE Cardinality(keys) = 1 /\ d.data = data
        <5>1. PICK k \in keys : keys = {k}
          BY <2>1, <4>1, SizeOfSet
        <5>2. data = {s} /\ s = SeriesFor(k, n)
          BY <2>22, <4>1, <5>1 DEF data, SeriesSet, keys
        <5>3. Len(s.vals) = Smaller(n, Len(Shown(k))) /\ Len(Shown(k)) \in Nat /\ n \in Nat
          BY <2>2, <2>5, <5>2
        <5>4. i \in 1..n /\ i <= Len(Shown(k))
          BY <5>3 DEF Smaller
        <5>5. s.vals[i] \in Int \cup {NoValue}
          <6>1. k \in Key /\ fine.values[k] # NoValue /\ Kind(k) = "float"
            BY <2>1, <3>1
          <6>2. i \in 1..Len(Shown(k)) /\ i \in 1..Smaller(n, Len(Shown(k))) /\ i \in 1..fine.age
            BY <5>3, <5>4, NewestInMemory DEF Smaller, Places
          <6>3. Shown(k)[i] \in Int \cup {NoValue}
            BY <6>1, <6>2, FloatPlaced, SeenType
          <6>4. s.vals[i] = Shown(k)[i]
            BY <5>2, <6>1, <6>2, SeriesItems
          <6> QED BY <6>3, <6>4
        <5>6. PointSum(data, i) = s.vals[i]
          <6> DEFINE known == {t \in {s} : t.vals[i] # NoValue}
                     g == [t \in known |-> t.vals[i]]
          <6>1. PointSum(data, i) = IF known = {} THEN NoValue ELSE SumFunction(g)
            BY <5>2 DEF PointSum
          <6>2. CASE s.vals[i] = NoValue
            BY <6>1, <6>2
          <6>3. CASE s.vals[i] # NoValue
            <7>1. known = {s} /\ g[s] = s.vals[i] /\ DOMAIN g = {s}
              BY <6>3
            <7>2. s.vals[i] \in Int
              BY <5>5, <6>3
            <7> HIDE DEF g, known
            <7>3. SumFunction(g) = SumFunctionOnSet(g, {s})
              BY <7>1, SumFunctionIs
            <7>4. SumFunctionOnSet(g, {s}) = g[s]
              BY <7>1, <7>2, SumOfOne
            <7> QED BY <6>1, <7>1, <7>3, <7>4
          <6> QED BY <6>2, <6>3
        <5> QED BY <5>1, <5>4, <5>6
      <4>2. CASE /\ ~ \E k \in keys : Short(k)
                 /\ d.data = {[key |-> EmptyKey, kind |-> MergedKind(data),
                               vals |-> [j \in 1..n |-> PointSum(data, j)],
                               timestamps |-> ts]}
        <5>1. s.vals = [j \in 1..n |-> PointSum(data, j)]
          BY <2>22, <4>2
        <5>2. Len(s.vals) = n
          BY <2>2, <5>1
        <5>3. i \in 1..n /\ s.vals[i] = PointSum(data, i)
          BY <5>1, <5>2
        <5>4. \A k \in keys : n <= Len(Shown(k))
          BY <2>2, <2>5, <4>2 DEF Short
        <5>5. ASSUME NEW k \in keys PROVE i <= Len(Shown(k))
          BY <2>2, <2>5, <5>3, <5>4
        <5> QED BY <5>3, <5>5
      <4> QED BY <2>18, <2>22, <4>1, <4>2
    <3>3. There(i) = {k \in KeysOf(metric) : SeenAt(k, "float", i) # NoValue}
      BY DEF keys
    <3> HIDE DEF There
    <3>4. PointSum(data, i) = IF There(i) = {} THEN NoValue
                              ELSE SumFunction([k \in There(i) |-> SeenAt(k, "float", i)])
      BY <3>1, <3>2, <3>3, FloatSum DEF keys, data
    <3> QED BY <3>2, <3>4
  <2> QED BY <2>19, <2>20, <2>21, <2>22 DEF keys, kinds, d
<1> QED BY <1>1, TInvInvariant, PTL

-----------------------------------------------------------------------------
(* Rates                                                                   *)

\* What Ask answers when it asks for rates.
AllRates(metric, n) ==
    [type |-> "MultiSeries", data |-> {DerivedSeries(s) : s \in SeriesSet(metric, n)}]

\* The derivatives of the series.
LEMMA RatesOf ==
    ASSUME NEW metric, NEW n
    PROVE  Exec(AllSeries(metric, n), Derived) = AllRates(metric, n)
<1>1. AllSeries(metric, n).type = "MultiSeries" /\ Derived.op = "NonNegativeDerivative"
  BY DEF AllSeries, Derived
<1>2. Exec(AllSeries(metric, n), Derived) = Derivative(AllSeries(metric, n))
  BY <1>1 DEF Exec
<1>3. Derivative(AllSeries(metric, n)) =
          [AllSeries(metric, n) EXCEPT !.data = {DerivedSeries(s) : s \in AllSeries(metric, n).data}]
  BY <1>1 DEF Derivative
<1> QED BY <1>2, <1>3 DEF AllSeries, AllRates

\* What the query for rates answers ..
LEMMA RatesOnly ==
    ASSUME NEW metric, NEW n
    PROVE  Ask(metric, ByNum(n), <<Derived>>) = AllRates(metric, n)
<1> DEFINE rule == AskRule(metric, ByNum(n), <<Derived>>)
<1>1. rule.functions = <<Derived>>
  BY DEF AskRule
<1> HIDE DEF rule
<1>2. QueryHistory(rule, fine, tip) = Exec(Extracted(rule, fine, tip), Derived)
  BY <1>1, OneFunction
<1> QED BY <1>2, AskIs, RatesOf, SeriesAsked DEF rule

\* .. and what is summed when it asks for sums of them.
LEMMA RatesAsked ==
    ASSUME NEW metric, NEW n, NEW by
    PROVE  Ask(metric, ByNum(n), <<Derived, TotalBy(by)>>) = SumBy(by, TRUE, AllRates(metric, n))
<1> DEFINE rule == AskRule(metric, ByNum(n), <<Derived, TotalBy(by)>>)
<1>1. rule.functions = <<Derived, TotalBy(by)>>
  BY DEF AskRule
<1> HIDE DEF rule
<1>2. QueryHistory(rule, fine, tip) =
        Exec(Exec(Extracted(rule, fine, tip), Derived), TotalBy(by))
  BY <1>1, TwoFunctions
<1>3. Exec(AllRates(metric, n), TotalBy(by)) = SumBy(by, TRUE, AllRates(metric, n))
  <2>1. AllRates(metric, n).type = "MultiSeries"
    BY DEF AllRates
  <2>2. TotalBy(by).op = "SumBy" /\ TotalBy(by).by = by /\ TotalBy(by).total = TRUE
    BY DEF TotalBy
  <2> QED BY <2>1, <2>2 DEF Exec
<1> QED BY <1>2, <1>3, AskIs, RatesOf, SeriesAsked DEF rule

\* A series that has a value for each of its timestamps.
Full(s) ==
    \E key, kind, vals, timestamps :
        /\ s = [key |-> key, kind |-> kind, vals |-> vals, timestamps |-> timestamps]
        /\ Len(vals) = Len(timestamps) /\ Len(timestamps) \in Nat

\* An answer that is no panic, and has such a series if it has one.
FullAnswer(d) ==
    /\ d.type # "Panic"
    /\ d.type = "SingleSeries" => \E s : Full(s) /\ d.data = {s}

\* Summing such series never panics.
LEMMA SummedFull ==
    ASSUME NEW series, series # {}, \A s \in series : Full(s)
    PROVE  FullAnswer(SummedSeries(series))
<1> DEFINE one  == CHOOSE s \in series : TRUE
           ts   == one.timestamps
           kind == MergedKind(series)
           sum  == [key |-> EmptyKey, kind |-> kind,
                    vals |-> [i \in 1..Len(ts) |-> PointSum(series, i)], timestamps |-> ts]
<1>1. one \in series
  OBVIOUS
<1>2. \A s \in series : Len(s.vals) = Len(s.timestamps) /\ Len(s.timestamps) \in Nat
  BY DEF Full
<1>3. Len(ts) \in Nat
  BY <1>1, <1>2
<1>4. Full(sum)
  <2> DEFINE vals == [i \in 1..Len(ts) |-> PointSum(series, i)]
  <2>1. Len(vals) = Len(ts)
    <3> DEFINE len == Len(ts)
    <3> HIDE DEF len, ts
    <3>1. len \in Nat /\ Len(ts) = len
      BY <1>3 DEF len
    <3> QED BY <3>1
  <2> HIDE DEF vals, ts, kind
  <2> QED BY <1>3, <2>1 DEF Full, vals
<1>5. (\A s \in series : s.timestamps = ts) => ~ \E s \in series : Len(s.vals) < Len(ts)
  <2> HIDE DEF ts
  <2> QED BY <1>2, <1>3
<1> HIDE DEF sum, kind
<1>6. \A r : Incompatible(r).type = "Incompatible"
  BY DEF Incompatible
<1>7. \/ SummedSeries(series) = Incompatible("CantSumTimestamps")
      \/ SummedSeries(series) = Incompatible("CantSumStates")
      \/ SummedSeries(series) = Incompatible("Dissimilar")
      \/ SummedSeries(series) = [type |-> "SingleSeries", data |-> {sum}]
  BY <1>5 DEF SummedSeries, sum, kind
<1>8. [type |-> "SingleSeries", data |-> {sum}].type = "SingleSeries"
      /\ [type |-> "SingleSeries", data |-> {sum}].data = {sum}
  OBVIOUS
<1> QED BY <1>4, <1>6, <1>7, <1>8 DEF FullAnswer

\* .. nor does summing a part of them.
LEMMA GroupsFull ==
    ASSUME NEW series, IsFiniteSet(series), \A s \in series : Full(s), NEW by,
           NEW g \in GroupsBy(by, series)
    PROVE  FullAnswer(g.sum)
<1> DEFINE named == {s \in series : by \in DOMAIN s.key}
           Group(val) == {s \in named : s.key[by] = val}
           Of(val) == [val |-> val,
                       sum |-> IF Cardinality(Group(val)) > 1 THEN SummedSeries(Group(val))
                               ELSE [type |-> "SingleSeries", data |-> Group(val)]]
<1>1. GroupsBy(by, series) = {Of(val) : val \in {s.key[by] : s \in named}}
  BY DEF GroupsBy
<1>2. PICK val \in {s.key[by] : s \in named} : g = Of(val)
  BY <1>1
<1> DEFINE group == Group(val)
<1>3. group # {} /\ group \subseteq series
  OBVIOUS
<1>4. g.sum = IF Cardinality(group) > 1 THEN SummedSeries(group)
              ELSE [type |-> "SingleSeries", data |-> group]
  BY <1>2
<1> HIDE DEF group, named
<1>5. CASE Cardinality(group) > 1
  BY <1>3, <1>4, <1>5, SummedFull
<1>6. CASE ~ (Cardinality(group) > 1)
  <2>1. IsFiniteSet(group)
    BY <1>3, FS_Subset
  <2>2. Cardinality(group) = 1
    BY <1>3, <1>6, <2>1, SizeOfSet
  <2>3. PICK s \in group : group = {s}
    BY <2>1, <2>2, SizeOfSet
  <2>4. Full(s)
    BY <1>3, <2>3
  <2> QED BY <1>4, <1>6, <2>3, <2>4 DEF FullAnswer
<1> QED BY <1>5, <1>6

\* The name of a series does not matter.
LEMMA Renamed ==
    ASSUME NEW s, Full(s), NEW name
    PROVE  Full([s EXCEPT !.key = name])
<1>1. PICK key, kind, vals, timestamps :
         /\ s = [key |-> key, kind |-> kind, vals |-> vals, timestamps |-> timestamps]
         /\ Len(vals) = Len(timestamps) /\ Len(timestamps) \in Nat
  BY DEF Full
<1>2. [s EXCEPT !.key = name] = [key |-> name, kind |-> kind, vals |-> vals, timestamps |-> timestamps]
  <2>1. [[key |-> key, kind |-> kind, vals |-> vals, timestamps |-> timestamps] EXCEPT !.key = name] =
          [key |-> name, kind |-> kind, vals |-> vals, timestamps |-> timestamps]
    OBVIOUS
  <2> QED BY ONLY <1>1, <2>1
<1>3. \E ke, ki, va, ti :
        /\ [s EXCEPT !.key = name] = [key |-> ke, kind |-> ki, vals |-> va, timestamps |-> ti]
        /\ Len(va) = Len(ti) /\ Len(ti) \in Nat
  BY ONLY <1>1, <1>2, Zenon
<1> QED BY <1>3 DEF Full

\* Such series can be summed by any pair of the key.
LEMMA SumByNeverPanics ==
    ASSUME NEW series, IsFiniteSet(series), \A s \in series : Full(s), NEW by, NEW d,
           d.type = "MultiSeries", d.data = series
    PROVE  SumBy(by, TRUE, d).type # "Panic"
<1> DEFINE groups == GroupsBy(by, series)
           failed == {g \in groups : g.sum.type # "SingleSeries"}
           Keyed(g) == [(CHOOSE s \in g.sum.data : TRUE) EXCEPT !.key = FromPair(by, g.val)]
           sums == {Keyed(g) : g \in groups}
           all == SummedSeries(sums)
<1>1. \A g \in groups : FullAnswer(g.sum)
  BY GroupsFull
<1>2. SumBy(by, TRUE, d) =
         IF failed # {} THEN (CHOOSE g \in failed : TRUE).sum
         ELSE IF Cardinality(sums) <= 1 THEN [type |-> "MultiSeries", data |-> sums]
         ELSE IF all.type # "SingleSeries" THEN all
         ELSE [type |-> "MultiSeries", data |-> sums \cup all.data]
  BY DEF SumBy
<1> HIDE DEF groups
<1>3. CASE failed # {}
  <2>1. (CHOOSE g \in failed : TRUE) \in groups
    BY <1>3
  <2> HIDE DEF failed
  <2> QED BY <1>1, <1>2, <1>3, <2>1 DEF FullAnswer
<1>4. CASE failed = {}
  <2>1. ASSUME NEW g \in groups PROVE Full(Keyed(g))
    <3>1. PICK s : Full(s) /\ g.sum.data = {s}
      BY <1>1, <1>4 DEF FullAnswer
    <3>2. Keyed(g) = [s EXCEPT !.key = FromPair(by, g.val)]
      BY <3>1
    <3> HIDE DEF Keyed
    <3> QED BY <3>1, <3>2, Renamed
  <2>2. \A s \in sums : Full(s)
    <3> HIDE DEF Keyed
    <3> QED BY <2>1
  <2> HIDE DEF failed, sums, Keyed
  <2>3. sums = {} => Cardinality(sums) <= 1
    BY FS_EmptySet
  <2>4. sums # {} => FullAnswer(all)
    BY <2>2, SummedFull
  <2> DEFINE some == [type |-> "MultiSeries", data |-> sums]
             more == [type |-> "MultiSeries", data |-> sums \cup all.data]
  <2>5. some.type = "MultiSeries" /\ more.type = "MultiSeries" /\ "MultiSeries" # "Panic"
    OBVIOUS
  <2>6. sums # {} => all.type # "Panic"
    BY <2>4 DEF FullAnswer
  <2>7. SumBy(by, TRUE, d) = IF Cardinality(sums) <= 1 THEN some
                             ELSE IF all.type # "SingleSeries" THEN all ELSE more
    BY <1>2, <1>4
  <2> HIDE DEF some, more, all
  <2> QED BY <2>3, <2>5, <2>6, <2>7
<1> QED BY <1>3, <1>4

\* The running value is a number.
LEMMA RewoundType ==
    ASSUME NEW v, NEW n \in Nat, Len(v.buf) = n, v.tip \in Int,
           \A i \in 1..n : v.buf[i] \in Int \/ v.buf[i] = Gap,
           NEW m \in 0..n
    PROVE  Rewound(v)[m] \in Int
<1> DEFINE r == Rewound(v)
           bad == {i \in 0..n : r[i] \notin Int}
<1>1. r[0] = v.tip /\ \A i \in 1..n : r[i] = IF v.buf[i] = Gap THEN r[i - 1] ELSE r[i - 1] - v.buf[i]
  BY RewoundDefined
<1> HIDE DEF r
<1>2. bad = {}
  <2> SUFFICES ASSUME bad # {} PROVE FALSE
    OBVIOUS
  <2>1. PICK i \in bad : \A j \in bad : i <= j
    <3> bad \in SUBSET Nat
      OBVIOUS
    <3> HIDE DEF bad
    <3> QED BY LeastExists
  <2>2. i # 0
    BY <1>1, <2>1
  <2>3. i \in 1..n /\ i - 1 \in 0..n /\ ~ (i <= i - 1)
    BY <2>1, <2>2
  <2>4. r[i - 1] \in Int
    BY <2>1, <2>3
  <2>5. r[i] = IF v.buf[i] = Gap THEN r[i - 1] ELSE r[i - 1] - v.buf[i]
    BY <1>1, <2>3
  <2>6. v.buf[i] \in Int \/ v.buf[i] = Gap
    BY <2>3
  <2>7. r[i] \in Int
    BY ONLY <2>4, <2>5, <2>6
  <2> QED BY <2>1, <2>7
<1> QED BY <1>2 DEF r

\* Neighbours that are both shown are in order: a decrease hides one of them.
LEMMA NeighboursFall ==
    ASSUME TInv, NEW k \in Key, fine.values[k] # NoValue, Kind(k) # "float",
           NEW i \in Nat, i >= 1, i + 1 <= Len(Shown(k)),
           Shown(k)[i] # NoValue, Shown(k)[i + 1] # NoValue
    PROVE  Shown(k)[i] \in Int /\ Shown(k)[i + 1] \in Int /\ Shown(k)[i] - Shown(k)[i + 1] \in Nat
<1> DEFINE v == fine.values[k]
           h == Shown(k)
           top == Top(k)
           lb == BufLen(k)
           r == Rewound(v)
           j == i - (top + 1)
<1>1. /\ v.tip \in Int /\ top \in Nat /\ lb \in Nat /\ Len(h) = top + 1 + lb
      /\ \A x \in 1..top : h[x] = NoValue
      /\ h[top + 1] = v.tip
      /\ \A m \in 1..lb : h[top + 1 + m] = BufItem(v, m)
  BY Placed
<1>2. \A m \in 1..lb : v.buf[m] \in Int \/ v.buf[m] = Gap
  BY MetricTold, FitsParts DEF BufLen
<1>3. /\ r[0] = v.tip
      /\ \A m \in 1..lb : r[m] = IF v.buf[m] = Gap THEN r[m - 1] ELSE r[m - 1] - v.buf[m]
      /\ \A m \in 0..lb : r[m] \in Int
  <2>1. Len(v.buf) = lb
    BY DEF BufLen
  <2> HIDE DEF lb
  <2> QED BY <1>1, <1>2, <2>1, RewoundDefined, RewoundType
<1> HIDE DEF h, top, lb, r
<1>4. ~ (i \in 1..top)
  BY <1>1 DEF h
<1>5. i + 1 <= top + 1 + lb
  BY <1>1 DEF h
<1>6. j \in 0 .. lb - 1 /\ i = top + 1 + j /\ i + 1 = top + 1 + (j + 1) /\ j + 1 \in 1..lb
      /\ (j + 1) - 1 = j /\ j \in 0..lb
  BY <1>1, <1>4, <1>5
<1> HIDE DEF j
<1>7. ASSUME NEW m \in 1..lb, BufItem(v, m) # NoValue
      PROVE  v.buf[m] # Gap /\ v.buf[m] \in Nat /\ BufItem(v, m) = r[m]
  BY <1>2, <1>7 DEF BufItem, Kind, r
<1>8. h[i + 1] = r[j + 1] /\ v.buf[j + 1] \in Nat /\ r[j + 1] = r[j] - v.buf[j + 1]
  <2>1. h[i + 1] = BufItem(v, j + 1)
    BY <1>1, <1>6
  <2>2. v.buf[j + 1] # Gap /\ v.buf[j + 1] \in Nat /\ BufItem(v, j + 1) = r[j + 1]
    BY <1>6, <1>7, <2>1 DEF h
  <2> QED BY <1>3, <1>6, <2>1, <2>2
<1>9. h[i] = r[j]
  <2>1. CASE j = 0
    BY <1>1, <1>3, <1>6, <2>1
  <2>2. CASE j # 0
    <3>1. j \in 1..lb
      BY <1>6, <2>2
    <3>2. h[i] = BufItem(v, j)
      BY <1>1, <1>6, <3>1
    <3> QED BY <1>7, <3>1, <3>2 DEF h
  <2> QED BY <2>1, <2>2
<1>10. h[i] \in Int /\ h[i + 1] \in Int /\ h[i] - h[i + 1] \in Nat
  <2>1. r[j] \in Int /\ r[j + 1] \in Int
    BY <1>3, <1>6
  <2> QED BY <1>8, <1>9, <2>1
<1> QED BY <1>10 DEF h

\* Quotients and products of numbers are numbers, and keep their sign.
LEMMA Divided ==
    ASSUME NEW a \in Int, NEW b \in Nat, b > 0
    PROVE  a \div b \in Int /\ (a >= 0 => a \div b >= 0)
OBVIOUS

LEMMA Scaled ==
    ASSUME NEW a \in Int, NEW b \in Nat
    PROVE  a * b \in Int /\ (a >= 0 => a * b >= 0)
OBVIOUS

\* The rate between two places of what is shown of a metric.
ShownRate(k, i) ==
    IF Shown(k)[i] = NoValue \/ Shown(k)[i + 1] = NoValue THEN NoValue
    ELSE ((Shown(k)[i] - Shown(k)[i + 1]) * PerSecond) \div (At(i) - At(i + 1))

\* A derivative: a rate for each two neighbours that are shown.
LEMMA DerivedItems ==
    ASSUME TInv, NEW k \in Key, fine.values[k] # NoValue, NEW n \in Places
    PROVE  /\ Full(DerivedSeries(SeriesFor(k, n)))
           /\ DerivedSeries(SeriesFor(k, n)).key = k
           /\ \E m \in Nat :
                 /\ m + 1 <= n /\ m + 1 <= Len(Shown(k))
                 /\ Len(DerivedSeries(SeriesFor(k, n)).vals) = m
                 /\ \A i \in 1..m : DerivedSeries(SeriesFor(k, n)).vals[i] = ShownRate(k, i)
<1> DEFINE s == SeriesFor(k, n)
           ts == Take(fine.timestamps, n)
           both == Smaller(Len(s.vals), Len(s.timestamps))
           m == Monus(both, 1)
           Rate(i) == IF s.vals[i] = NoValue \/ s.vals[i + 1] = NoValue THEN NoValue
                      ELSE ((s.vals[i] - s.vals[i + 1]) * PerSecond)
                               \div (s.timestamps[i] - s.timestamps[i + 1])
           vals == [i \in 1..m |-> Rate(i)]
           late == Take(s.timestamps, m)
<1>1. DerivedSeries(s) = [key |-> s.key, kind |-> "float", vals |-> vals, timestamps |-> late]
  BY DEF DerivedSeries
<1>2. s.key = k /\ s.timestamps = ts
  BY DEF SeriesFor
<1>3. n \in Nat /\ n >= 1 /\ n <= Len(fine.timestamps) /\ fine.timestamps \in Seq(Nat)
  BY NewestInMemory DEF Places, Good, BacklogRecord
<1>4. Len(ts) = n /\ ts \in Seq(Nat) /\ \A i \in 1..n : ts[i] = At(i)
  <2>1. ts = SubSeq(fine.timestamps, 1, n)
    BY <1>3 DEF Take, Smaller
  <2>2. \A i \in 1..n : i \in Places
    BY <1>3 DEF Places
  <2> HIDE DEF ts
  <2>3. Len(ts) = n /\ ts \in Seq(Nat) /\ \A i \in 1..n : ts[i] = fine.timestamps[i]
    BY <1>3, <2>1
  <2> QED BY <2>2, <2>3, Timed
<1>5. Len(Shown(k)) \in Nat /\ Len(Shown(k)) >= 1
  BY Placed
<1>6. /\ Len(s.vals) = Smaller(n, Len(Shown(k)))
      /\ \A i \in 1..Smaller(n, Len(Shown(k))) : s.vals[i] = Shown(k)[i]
  BY SeriesItems
<1> HIDE DEF s, ts
<1>7. both = Smaller(n, Len(Shown(k))) /\ m \in Nat /\ m + 1 = both /\ m + 1 <= n
      /\ m + 1 <= Len(Shown(k))
  BY <1>2, <1>3, <1>4, <1>5, <1>6 DEF Smaller, Monus
<1> HIDE DEF both, m
<1>8. Len(late) = m
  <2>1. late = SubSeq(ts, 1, m)
    BY <1>2, <1>3, <1>4, <1>7 DEF Take, Smaller
  <2> HIDE DEF late
  <2> QED BY <1>3, <1>4, <1>7, <2>1
<1>9. Len(vals) = m
  BY <1>7
<1>10. ASSUME NEW i \in 1..m PROVE Rate(i) = ShownRate(k, i)
  <2>1. i \in 1..Smaller(n, Len(Shown(k))) /\ i + 1 \in 1..Smaller(n, Len(Shown(k)))
        /\ i \in 1..n /\ i + 1 \in 1..n
    BY <1>3, <1>7
  <2>2. s.vals[i] = Shown(k)[i] /\ s.vals[i + 1] = Shown(k)[i + 1]
        /\ s.timestamps[i] = At(i) /\ s.timestamps[i + 1] = At(i + 1)
    BY <1>2, <1>4, <1>6, <2>1
  <2> QED BY <2>2 DEF ShownRate
<1> HIDE DEF late, Rate
<1>11. /\ DerivedSeries(s).vals = vals /\ DerivedSeries(s).key = k
       /\ DerivedSeries(s) = [key |-> s.key, kind |-> "float", vals |-> vals, timestamps |-> late]
  BY <1>1, <1>2
<1>12. \A i \in 1..m : vals[i] = Rate(i)
  OBVIOUS
<1> HIDE DEF vals
<1>13. Full(DerivedSeries(s))
  <2>1. Len(vals) = Len(late) /\ Len(late) \in Nat
    BY <1>7, <1>8, <1>9
  <2> QED BY <1>11, <2>1 DEF Full
<1>14. \A i \in 1..m : DerivedSeries(s).vals[i] = ShownRate(k, i)
  BY <1>10, <1>11, <1>12
<1>15. Len(DerivedSeries(s).vals) = m
  BY <1>9, <1>11
<1> QED BY <1>7, <1>11, <1>13, <1>14, <1>15 DEF s

\* The sums of the rates never panic.
LEMMA RatesSummed ==
    ASSUME TInv, NEW metric, NEW n \in Places, NEW by
    PROVE  Ask(metric, ByNum(n), <<Derived, TotalBy(by)>>).type # "Panic"
<1> DEFINE series == {DerivedSeries(s) : s \in SeriesSet(metric, n)}
<1>1. IsFiniteSet(series)
  <2>1. IsFiniteSet(SeriesSet(metric, n))
    BY SeriesOfKeys
  <2> DEFINE f == [s \in SeriesSet(metric, n) |-> DerivedSeries(s)]
  <2>2. series = {f[x] : x \in SeriesSet(metric, n)}
    OBVIOUS
  <2> HIDE DEF f, series
  <2> QED BY <2>1, <2>2, ImageFinite
<1>2. \A s \in series : Full(s)
  <2> SUFFICES ASSUME NEW k \in KeysOf(metric) PROVE Full(DerivedSeries(SeriesFor(k, n)))
    BY DEF SeriesSet
  <2>1. k \in Key /\ fine.values[k] # NoValue
    BY Asked
  <2> QED BY <2>1, DerivedItems
<1> DEFINE d == AllRates(metric, n)
<1>3. d.type = "MultiSeries" /\ d.data = series
  BY DEF AllRates
<1> HIDE DEF series, d
<1>4. SumBy(by, TRUE, d).type # "Panic"
  BY <1>1, <1>2, <1>3, SumByNeverPanics
<1> QED BY <1>4, RatesAsked DEF d

\* A rate is a difference of two samples, divided by the time between them.
LEMMA RateOf ==
    ASSUME TInv, NEW i \in Nat, i >= 1, i + 1 \in Places, NEW a \in Int
    PROVE  /\ At(i) - At(i + 1) \in Nat /\ At(i) - At(i + 1) > 0
           /\ (a * PerSecond) \div (At(i) - At(i + 1)) \in Int
           /\ a >= 0 => (a * PerSecond) \div (At(i) - At(i + 1)) >= 0
<1>1. PerSecond \in Nat
  BY SeriesAssumption
<1>2. i \in Places /\ i < i + 1
  BY NewestInMemory DEF Places
<1>3. At(i) \in Nat /\ At(i + 1) \in Nat /\ At(i + 1) < At(i)
  BY <1>2, Timed
<1> DEFINE b == At(i) - At(i + 1)
           c == a * PerSecond
<1>4. b \in Nat /\ b > 0
  BY <1>3
<1>5. c \in Int /\ (a >= 0 => c >= 0)
  BY <1>1, Scaled
<1> HIDE DEF b, c
<1>6. c \div b \in Int /\ (c >= 0 => c \div b >= 0)
  BY <1>4, <1>5, Divided
<1> QED BY <1>4, <1>5, <1>6 DEF b, c

\* A rate of a counter is not negative, and exact if every scan saw the counter.
LEMMA RatesExact ==
    ASSUME TInv, NEW k \in Key, fine.values[k] # NoValue, Kind(k) = "counter",
           NEW n \in Places, NEW m \in Nat, m + 1 <= n, m + 1 <= Len(Shown(k)), NEW i \in 1..m
    PROVE  /\ ShownRate(k, i) # NoValue => ShownRate(k, i) >= 0
           /\ (\A j \in 1 .. m + 1 : SeenAt(k, "counter", j) # NoValue) =>
                 ShownRate(k, i) =
                    IF \/ i > 1 /\ SeenAt(k, "counter", i) > SeenAt(k, "counter", i - 1)
                       \/ i + 1 > 1 /\ SeenAt(k, "counter", i + 1) > SeenAt(k, "counter", i)
                    THEN NoValue ELSE Speed(k, i, i + 1)
<1>1. n \in Nat /\ n <= Len(fine.timestamps) /\ Len(fine.timestamps) \in Nat
  BY NewestInMemory DEF Places
<1>2. i \in Nat /\ i >= 1 /\ i + 1 \in Places /\ m + 1 \in Places /\ (i + 1) - 1 = i /\ i + 1 > 1
      /\ i \in 1..m + 1 /\ i + 1 \in 1..m + 1
  BY <1>1 DEF Places
<1>3. Len(Shown(k)) \in Nat
  BY Placed
<1>4. i + 1 <= Len(Shown(k))
  BY <1>2, <1>3
<1>5. ASSUME ShownRate(k, i) # NoValue PROVE ShownRate(k, i) >= 0
  <2>1. Shown(k)[i] # NoValue /\ Shown(k)[i + 1] # NoValue
    BY <1>5 DEF ShownRate
  <2> DEFINE a == Shown(k)[i] - Shown(k)[i + 1]
  <2>2. a \in Nat
    BY <1>2, <1>4, <2>1, NeighboursFall
  <2>3. ShownRate(k, i) = (a * PerSecond) \div (At(i) - At(i + 1))
    BY <2>1 DEF ShownRate
  <2> HIDE DEF a
  <2>4. a \in Int /\ a >= 0
    BY <2>2
  <2> QED BY <1>2, <2>3, <2>4, RateOf
<1>6. ASSUME \A j \in 1 .. m + 1 : SeenAt(k, "counter", j) # NoValue
      PROVE  ShownRate(k, i) =
                    IF \/ i > 1 /\ SeenAt(k, "counter", i) > SeenAt(k, "counter", i - 1)
                       \/ i + 1 > 1 /\ SeenAt(k, "counter", i + 1) > SeenAt(k, "counter", i)
                    THEN NoValue ELSE Speed(k, i, i + 1)
  <2>1. \A j \in 1 .. m + 1 :
            /\ SeenAt(k, "counter", j) \in Int
            /\ Shown(k)[j] = IF j > 1 /\ SeenAt(k, "counter", j) > SeenAt(k, "counter", j - 1)
                             THEN NoValue ELSE SeenAt(k, "counter", j)
    BY <1>2, <1>6, RunPlaced
  <2>2. NoValue \notin Int
    BY AbsentAssumption
  <2> DEFINE si == SeenAt(k, "counter", i)
             sj == SeenAt(k, "counter", i + 1)
             sh == SeenAt(k, "counter", i - 1)
  <2>3. /\ si \in Int /\ sj \in Int
        /\ Shown(k)[i] = IF i > 1 /\ si > sh THEN NoValue ELSE si
        /\ Shown(k)[i + 1] = IF i + 1 > 1 /\ sj > si THEN NoValue ELSE sj
    BY <1>2, <2>1
  <2>4. Speed(k, i, i + 1) = ((si - sj) * PerSecond) \div (At(i) - At(i + 1))
    BY DEF Speed, Growth
  <2> HIDE DEF si, sj, sh
  <2> DEFINE hi == i > 1 /\ si > sh
             hj == i + 1 > 1 /\ sj > si
  <2>5. /\ Shown(k)[i] = IF hi THEN NoValue ELSE si
        /\ Shown(k)[i + 1] = IF hj THEN NoValue ELSE sj
    BY <2>3
  <2>6. ShownRate(k, i) = IF hi \/ hj THEN NoValue ELSE Speed(k, i, i + 1)
    <3> HIDE DEF hi, hj
    <3>1. si # NoValue /\ sj # NoValue
      BY <2>2, <2>3
    <3> QED BY <2>4, <2>5, <3>1 DEF ShownRate
  <2> QED BY <2>6 DEF si, sj, sh
<1> QED BY <1>5, <1>6

\* What the query for the sum of the differences answers.
LEMMA TipSumAsked ==
    ASSUME NEW metric, NEW n
    PROVE  Ask(metric, AtMost(n), <<Total>>) = SummedTip({TipFor(k, n) : k \in Differ(metric, n)})
<1> DEFINE rule == AskRule(metric, AtMost(n), <<Total>>)
<1>1. rule.functions = <<Total>>
  BY DEF AskRule
<1> HIDE DEF rule
<1>2. QueryHistory(rule, fine, tip) = Exec(Extracted(rule, fine, tip), Total)
  BY <1>1, OneFunction
<1>3. Ask(metric, AtMost(n), <<Total>>) = Exec(AllTips(metric, n), Total)
  BY <1>2, AskIs, TipsAsked DEF rule
<1>4. AllTips(metric, n).type = "MultiTip" /\ Total.op = "Sum"
      /\ AllTips(metric, n).data = {TipFor(k, n) : k \in Differ(metric, n)}
  BY DEF AllTips, Total
<1>5. Exec(AllTips(metric, n), Total) = SumAll(AllTips(metric, n))
  BY <1>4 DEF Exec
<1>6. SumAll(AllTips(metric, n)) = SummedTip(AllTips(metric, n).data)
  BY <1>4 DEF SumAll
<1> QED BY <1>3, <1>4, <1>5, <1>6

\* Differences of counters over the same time: of f[k] for each key.
Together(keys, f, from, to, data, tips) ==
    /\ IsFiniteSet(keys) /\ keys # {} /\ \A k \in keys : f[k] \in Int
    /\ \A k \in keys : data[k] = [key |-> k, kind |-> "counter", val |-> f[k],
                                  from |-> from, to |-> to]
    /\ tips = {data[k] : k \in keys}

\* They add up.
LEMMA TipsAdded ==
    ASSUME NEW keys, NEW f, NEW from, NEW to, NEW data, NEW tips,
           Together(keys, f, from, to, data, tips)
    PROVE  /\ SummedTip(tips).type = "SingleTip"
           /\ \A t \in SummedTip(tips).data :
                 t.val = SumFunctionOnSet(f, keys) /\ t.from = from /\ t.to = to
<1> USE DEF Together
<1> DEFINE one == CHOOSE t \in tips : TRUE
           g == [t \in tips |-> t.val]
           h == [k \in keys |-> data[k]]
<1>1. tips # {} /\ one \in tips
  OBVIOUS
<1>2. \A k \in keys : /\ data[k].key = k /\ data[k].kind = "counter" /\ data[k].val = f[k]
                      /\ data[k].from = from /\ data[k].to = to
  <2> SUFFICES ASSUME NEW k \in keys
               PROVE  /\ data[k].key = k /\ data[k].kind = "counter" /\ data[k].val = f[k]
                      /\ data[k].from = from /\ data[k].to = to
    OBVIOUS
  <2> DEFINE r == [key |-> k, kind |-> "counter", val |-> f[k], from |-> from, to |-> to]
  <2>1. /\ r.key = k /\ r.kind = "counter" /\ r.val = f[k] /\ r.from = from /\ r.to = to
    OBVIOUS
  <2>2. data[k] = r
    OBVIOUS
  <2> QED BY ONLY <2>1, <2>2
<1>3. \A t \in tips : t.from = from /\ t.to = to /\ t.kind = "counter"
  BY <1>2
<1>4. {t.kind : t \in tips} = {"counter"}
  BY <1>1, <1>3
<1>5. IsFiniteSet(tips)
  BY ImageFinite
<1>6. MergedKind(tips) = "counter"
  <2> DEFINE kinds == {t.kind : t \in tips}
  <2>1. IsFiniteSet({"counter"})
    BY FS_Singleton
  <2>2. kinds = {"counter"}
    BY <1>4
  <2> HIDE DEF kinds
  <2>3. IsFiniteSet(kinds)
    BY <2>1, <2>2
  <2>4. \A kind : kinds = {kind} => MergedKind(tips) = kind
    BY <2>3, MergedKindIs DEF kinds
  <2> QED BY <2>2, <2>4
<1>7. SumFunction(g) = SumFunctionOnSet(f, keys)
  <2>1. DOMAIN g = tips
    OBVIOUS
  <2>2. h \in [keys -> tips] /\ \A z \in tips : \E x \in keys : h[x] = z
    OBVIOUS
  <2>3. \A x, y \in keys : h[x] = h[y] => x = y
    BY <1>2
  <2>4. \A x \in keys : f[x] \in Int /\ f[x] = g[h[x]]
    BY <1>2, <2>2
  <2> HIDE DEF g, h
  <2>5. SumFunction(g) = SumFunctionOnSet(g, tips)
    BY <2>1, SumFunctionIs
  <2>6. SumFunctionOnSet(f, keys) = SumFunctionOnSet(g, tips)
    <3>1. IsFiniteSet(keys)
      OBVIOUS
    <3> QED BY ONLY <1>5, <2>2, <2>3, <2>4, <3>1, SumRenamed
  <2> QED BY <2>5, <2>6
<1>8. CASE Cardinality(tips) = 1
  <2>1. SummedTip(tips) = [type |-> "SingleTip", data |-> tips]
    BY <1>1, <1>8 DEF SummedTip
  <2>2. PICK k \in keys : tips = {data[k]}
    <3>1. PICK t \in tips : tips = {t}
      BY <1>5, <1>8, SizeOfSet
    <3> QED BY <3>1
  <2>3. \A j \in keys : j = k
    BY <1>2, <2>2
  <2>4. keys = {k}
    BY <2>3
  <2>5. SumFunctionOnSet(f, keys) = f[k]
    BY <2>4, SumOfOne
  <2>6. SummedTip(tips).type = "SingleTip" /\ SummedTip(tips).data = {data[k]}
    <3> DEFINE r == [type |-> "SingleTip", data |-> tips]
    <3>1. r.type = "SingleTip" /\ r.data = tips
      OBVIOUS
    <3>2. SummedTip(tips) = r
      BY <2>1
    <3> QED BY ONLY <2>2, <3>1, <3>2
  <2> QED BY <1>2, <2>5, <2>6
<1>9. CASE Cardinality(tips) # 1
  <2>1. one.from = from /\ one.to = to
    BY <1>1, <1>3
  <2>2. ~ \E t \in tips : <<t.from, t.to>> # <<one.from, one.to>>
    BY <1>3, <2>1
  <2> DEFINE sum == [key |-> EmptyKey, kind |-> "counter", val |-> SumFunction(g),
                     from |-> one.from, to |-> one.to]
  <2>3. SummedTip(tips) = [type |-> "SingleTip", data |-> {sum}]
    <3> HIDE DEF one, g
    <3> QED BY <1>1, <1>6, <1>9, <2>2 DEF SummedTip, one, g
  <2>4. sum.val = SumFunctionOnSet(f, keys) /\ sum.from = from /\ sum.to = to
    BY <1>7, <2>1
  <2> HIDE DEF sum
  <2> QED BY <2>3, <2>4
<1> QED BY <1>8, <1>9

\* The sum of the differences of counters that went up all the time.
LEMMA GrowthSummed ==
    ASSUME TInv, NEW metric, NEW n \in Places, n > 1, KeysOf(metric) # {},
           \A k \in KeysOf(metric) : Steady(k, 1..n)
    PROVE  /\ Ask(metric, AtMost(n - 1), <<Total>>).type = "SingleTip"
           /\ \A t \in Ask(metric, AtMost(n - 1), <<Total>>).data :
                 /\ t.val = SumFunction([k \in KeysOf(metric) |-> Growth(k, 1, n)])
                 /\ t.from = At(1) /\ t.to = At(n)
<1> DEFINE keys == KeysOf(metric)
           f == [k \in keys |-> Growth(k, 1, n)]
           data == [k \in keys |-> TipFor(k, n - 1)]
           tips == {data[k] : k \in keys}
<1>1. IsFiniteSet(keys) /\ \A k \in keys : k \in Key /\ fine.values[k] # NoValue
  BY Asked
<1>2. ASSUME NEW k \in keys
      PROVE  /\ k \in Differ(metric, n - 1) /\ f[k] \in Int
             /\ TipFor(k, n - 1) = [key |-> k, kind |-> "counter", val |-> f[k],
                                    from |-> At(1), to |-> At(n)]
  <2>1. k \in Key /\ fine.values[k] # NoValue /\ Steady(k, 1..n)
    BY <1>1
  <2>2. /\ KnownIndexes(fine, fine.values[k], n - 1) # {}
        /\ DiffToAtMost(fine, fine.values[k], n - 1).value = Growth(k, 1, n)
        /\ DiffToAtMost(fine, fine.values[k], n - 1).from = At(1)
        /\ DiffToAtMost(fine, fine.values[k], n - 1).to = At(n)
        /\ Growth(k, 1, n) \in Nat
    BY <2>1, SteadyDiff
  <2>3. Kind(k) = "counter"
    BY <2>1, SteadyRun
  <2>4. f[k] = Growth(k, 1, n) /\ f[k] \in Int
    BY <2>2
  <2> HIDE DEF f
  <2> QED BY <2>2, <2>3, <2>4 DEF Differ, TipFor
<1>3. Differ(metric, n - 1) = keys
  BY <1>2 DEF Differ
<1>4. {TipFor(k, n - 1) : k \in Differ(metric, n - 1)} = tips
  BY <1>3
<1>5. Ask(metric, AtMost(n - 1), <<Total>>) = SummedTip(tips)
  BY <1>4, TipSumAsked
<1>6. \A k \in keys : f[k] \in Int
  BY <1>2
<1>7. \A k \in keys : data[k] = [key |-> k, kind |-> "counter", val |-> f[k],
                                 from |-> At(1), to |-> At(n)]
  BY <1>2
<1>8. SumFunction(f) = SumFunctionOnSet(f, keys)
  <2>1. DOMAIN f = keys
    OBVIOUS
  <2> HIDE DEF f
  <2> QED BY <2>1, SumFunctionIs
<1>9. tips = {data[k] : k \in keys}
  OBVIOUS
<1>10. IsFiniteSet(keys) /\ keys # {}
  BY <1>1
<1> DEFINE from == At(1)
           to   == At(n)
<1>11. \A k \in keys : data[k] = [key |-> k, kind |-> "counter", val |-> f[k],
                                 from |-> from, to |-> to]
  BY <1>7
<1> HIDE DEF f, data, tips, keys, from, to
<1>12. /\ SummedTip(tips).type = "SingleTip"
       /\ \A t \in SummedTip(tips).data :
             t.val = SumFunctionOnSet(f, keys) /\ t.from = from /\ t.to = to
  <2>1. Together(keys, f, from, to, data, tips)
    BY ONLY <1>6, <1>9, <1>10, <1>11 DEF Together
  <2> QED BY ONLY <2>1, TipsAdded
<1> QED BY <1>5, <1>8, <1>12 DEF f, keys, from, to

\* The answers with rates of counters, their sums by a pair of the key, and the
\* sums of differences (derive_vec, sum_series_by, sum_tip).
THEOREM RatesTrue == Spec => []RatesAreSamples
<1>1. TInv => RatesAreSamples
  <2> SUFFICES ASSUME TInv, NEW n \in Places, NEW metric
               PROVE  LET d == Ask(metric, ByNum(n), <<Derived>>)
                          keys == KeysOf(metric)
                          sum == Ask(metric, AtMost(n - 1), <<Total>>)
                          Hidden(k, i) == i > 1 /\ SeenAt(k, "counter", i) > SeenAt(k, "counter", i - 1)
                      IN  /\ \A by \in {"metric", "cgroup"} :
                                Ask(metric, ByNum(n), <<Derived, TotalBy(by)>>).type # "Panic"
                          /\ \A s \in d.data : Kind(s.key) = "counter" => \A i \in 1..Len(s.vals) :
                                /\ s.vals[i] # NoValue => s.vals[i] >= 0
                                /\ (\A j \in 1 .. Len(s.vals) + 1 : SeenAt(s.key, "counter", j) # NoValue) =>
                                     s.vals[i] = IF Hidden(s.key, i) \/ Hidden(s.key, i + 1) THEN NoValue
                                                 ELSE Speed(s.key, i, i + 1)
                          /\ n > 1 /\ keys # {} /\ (\A k \in keys : Steady(k, 1..n)) =>
                               /\ sum.type = "SingleTip"
                               /\ \A t \in sum.data :
                                    /\ t.val = SumFunction([k \in keys |-> Growth(k, 1, n)])
                                    /\ t.from = At(1) /\ t.to = At(n)
    BY DEF RatesAreSamples
  <2> DEFINE d == Ask(metric, ByNum(n), <<Derived>>)
             Hidden(k, i) == i > 1 /\ SeenAt(k, "counter", i) > SeenAt(k, "counter", i - 1)
  <2>1. \A by \in {"metric", "cgroup"} :
            Ask(metric, ByNum(n), <<Derived, TotalBy(by)>>).type # "Panic"
    BY RatesSummed
  <2>2. d.data = {DerivedSeries(s) : s \in SeriesSet(metric, n)}
    <3>1. AllRates(metric, n).data = {DerivedSeries(s) : s \in SeriesSet(metric, n)}
      BY DEF AllRates
    <3>2. d = AllRates(metric, n)
      BY RatesOnly
    <3> QED BY ONLY <3>1, <3>2
  <2>3. ASSUME NEW s \in d.data, Kind(s.key) = "counter", NEW i \in 1..Len(s.vals)
        PROVE  /\ s.vals[i] # NoValue => s.vals[i] >= 0
               /\ (\A j \in 1 .. Len(s.vals) + 1 : SeenAt(s.key, "counter", j) # NoValue) =>
                    s.vals[i] = IF Hidden(s.key, i) \/ Hidden(s.key, i + 1) THEN NoValue
                                ELSE Speed(s.key, i, i + 1)
    <3>1. PICK k \in KeysOf(metric) : s = DerivedSeries(SeriesFor(k, n))
      BY <2>2 DEF SeriesSet
    <3>2. k \in Key /\ fine.values[k] # NoValue
      BY Asked
    <3>3. s.key = k /\ Kind(k) = "counter"
      BY <2>3, <3>1, <3>2, DerivedItems
    <3>4. PICK m \in Nat : /\ m + 1 <= n /\ m + 1 <= Len(Shown(k))
                           /\ Len(s.vals) = m
                           /\ \A j \in 1..m : s.vals[j] = ShownRate(k, j)
      BY <3>1, <3>2, DerivedItems
    <3>5. i \in 1..m /\ s.vals[i] = ShownRate(k, i)
      BY <3>4
    <3>6. /\ ShownRate(k, i) # NoValue => ShownRate(k, i) >= 0
          /\ (\A j \in 1 .. m + 1 : SeenAt(k, "counter", j) # NoValue) =>
                 ShownRate(k, i) =
                    IF \/ i > 1 /\ SeenAt(k, "counter", i) > SeenAt(k, "counter", i - 1)
                       \/ i + 1 > 1 /\ SeenAt(k, "counter", i + 1) > SeenAt(k, "counter", i)
                    THEN NoValue ELSE Speed(k, i, i + 1)
      BY <3>2, <3>3, <3>4, <3>5, RatesExact
    <3>7. (i + 1) - 1 = i
      BY <3>5
    <3>8. (Hidden(k, i) \/ Hidden(k, i + 1)) <=>
             \/ i > 1 /\ SeenAt(k, "counter", i) > SeenAt(k, "counter", i - 1)
             \/ i + 1 > 1 /\ SeenAt(k, "counter", i + 1) > SeenAt(k, "counter", i)
      BY ONLY <3>7 DEF Hidden
    <3> HIDE DEF Hidden
    <3> QED BY ONLY <3>3, <3>4, <3>5, <3>6, <3>8
  <2>4. ASSUME n > 1, KeysOf(metric) # {}, \A k \in KeysOf(metric) : Steady(k, 1..n)
        PROVE  /\ Ask(metric, AtMost(n - 1), <<Total>>).type = "SingleTip"
               /\ \A t \in Ask(metric, AtMost(n - 1), <<Total>>).data :
                     /\ t.val = SumFunction([k \in KeysOf(metric) |-> Growth(k, 1, n)])
                     /\ t.from = At(1) /\ t.to = At(n)
    BY <2>4, GrowthSummed
  <2> QED BY <2>1, <2>3, <2>4
<1> QED BY <1>1, TInvInvariant, PTL

-----------------------------------------------------------------------------
(* What is sent to carbon                                                  *)

\* Where the window begins.
LEMMA WindowPlace ==
    ASSUME TInv, Len(fine.timestamps) > 1
    PROVE  /\ Window(fine, Interval) \in Nat
           /\ Window(fine, Interval) + 1 \in Places
           /\ Window(fine, Interval) < fine.age
<1> DEFINE ts == fine.timestamps
           len == Len(ts)
           old == {i \in 1..len : ts[i] <= ts[1] - Interval}
<1>1. len \in Nat /\ len <= fine.age /\ fine.age \in Nat /\ len > 1
  BY NewestInMemory
<1>2. Window(fine, Interval) = IF old = {} THEN len - 1
                               ELSE (CHOOSE i \in old : \A j \in old : i <= j) - 1
  BY DEF Window
<1>3. old \subseteq 1..len /\ Places = 1..len
  BY DEF Places
<1> HIDE DEF old, len
<1>4. CASE old = {}
  BY <1>1, <1>2, <1>3, <1>4
<1>5. CASE old # {}
  <2>1. old \in SUBSET Nat
    BY <1>1, <1>3
  <2>2. \E i \in old : \A j \in old : i <= j
    BY <1>5, <2>1, LeastExists
  <2>3. PICK i \in old : Window(fine, Interval) = i - 1
    BY <1>2, <1>5, <2>2
  <2>4. i \in 1..len
    BY <1>3, <2>3
  <2> QED BY <1>1, <1>3, <2>3, <2>4
<1> QED BY <1>4, <1>5

\* When a metric was seen last among the newest scans.
LEMMA LastSeen ==
    ASSUME TInv, NEW k \in Key, fine.values[k] # NoValue, NEW num \in Nat, num + 1 \in Places
    PROVE  /\ Recent(k, num + 1) # {} <=> Top(k) <= num
           /\ Top(k) <= num =>
                /\ LastAt(k, num + 1) = Top(k) + 1
                /\ SeenAt(k, Kind(k), LastAt(k, num + 1)) = fine.values[k].tip
           /\ fine.values[k].tip \in Int /\ fine.values[k].tip # NoValue
           /\ Top(k) \in Nat
<1> DEFINE n == num + 1
           R == Recent(k, n)
           top == Top(k)
           tipped == fine.values[k].tip
<1>1. /\ Kind(k) \in FineKind /\ tipped \in Int /\ top \in Nat
      /\ \A i \in 1..top : SeenAs(k, i) = "nothing"
      /\ SeenAt(k, Kind(k), top + 1) = tipped
  BY Placed
<1>2. n \in Nat /\ n <= fine.age /\ fine.age \in Nat
  BY NewestInMemory DEF Places
<1>3. tipped # NoValue
  BY <1>1, AbsentAssumption
<1>4. R = {i \in 1..n : SeenAt(k, Kind(k), i) # NoValue}
  BY DEF Recent
<1>5. ASSUME NEW i \in R PROVE i \in Nat /\ top + 1 <= i
  <2>1. i \in 1..n /\ SeenAt(k, Kind(k), i) # NoValue
    BY <1>4
  <2>2. i \in 1..fine.age
    BY <1>2, <2>1
  <2>3. SeenAs(k, i) # "nothing"
    BY <1>1, <2>1, <2>2, SeenType
  <2> HIDE DEF top, n, R
  <2>4. ~ (i \in 1..top)
    BY <1>1, <2>3
  <2> QED BY <1>1, <2>1, <2>4
<1> HIDE DEF R, top, tipped
<1>6. top <= num => top + 1 \in R
  <2>1. top <= num => top + 1 \in 1..n
    BY <1>1, <1>2
  <2> QED BY <1>1, <1>3, <1>4, <2>1
<1>7. R # {} => top <= num
  <2>1. SUFFICES ASSUME NEW i \in R PROVE top <= num
    OBVIOUS
  <2>2. i \in 1..n
    BY <1>4
  <2> QED BY <1>1, <1>2, <1>5, <2>2
<1>8. ASSUME top <= num PROVE LastAt(k, n) = top + 1
  <2>1. top + 1 \in R /\ \A j \in R : top + 1 <= j /\ j \in Nat
    BY <1>5, <1>6, <1>8
  <2>2. \A i \in R : (\A j \in R : i <= j) => i = top + 1
    BY <1>1, <2>1
  <2>3. LastAt(k, n) = CHOOSE i \in R : \A j \in R : i <= j
    BY DEF LastAt, R
  <2> QED BY <2>1, <2>2, <2>3
<1> QED BY <1>1, <1>3, <1>6, <1>7, <1>8 DEF R, top, tipped

\* What is shown of a counter are numbers.
LEMMA ShownType ==
    ASSUME TInv, NEW k \in Key, fine.values[k] # NoValue, Kind(k) # "float",
           NEW i \in 1..Len(Shown(k)), Shown(k)[i] # NoValue
    PROVE  Shown(k)[i] \in Int
<1> DEFINE v == fine.values[k]
           h == Shown(k)
           top == Top(k)
           lb == BufLen(k)
           r == Rewound(v)
           j == i - (top + 1)
<1>1. /\ v.tip \in Int /\ top \in Nat /\ lb \in Nat /\ Len(h) = top + 1 + lb
      /\ \A x \in 1..top : h[x] = NoValue
      /\ h[top + 1] = v.tip
      /\ \A m \in 1..lb : h[top + 1 + m] = BufItem(v, m)
  BY Placed
<1>2. \A m \in 1..lb : v.buf[m] \in Int \/ v.buf[m] = Gap
  BY MetricTold, FitsParts DEF BufLen
<1>3. \A m \in 0..lb : r[m] \in Int
  <2>1. Len(v.buf) = lb
    BY DEF BufLen
  <2> HIDE DEF lb
  <2> QED BY <1>1, <1>2, <2>1, RewoundType
<1> HIDE DEF h, top, lb, r
<1>4. ~ (i \in 1..top)
  BY <1>1 DEF h
<1>5. i \in 1 .. top + 1 + lb
  BY <1>1 DEF h
<1>6. j \in 0..lb /\ i = top + 1 + j
  BY <1>1, <1>4, <1>5
<1> HIDE DEF j
<1>7. CASE j = 0
  <2>1. i = top + 1
    BY <1>1, <1>6, <1>7
  <2> QED BY <1>1, <2>1 DEF h
<1>8. CASE j # 0
  <2>1. j \in 1..lb
    BY <1>1, <1>6, <1>8
  <2>2. h[i] = BufItem(v, j)
    BY <1>1, <1>6, <2>1
  <2>3. BufItem(v, j) # NoValue => BufItem(v, j) = r[j]
    BY <1>2, <2>1 DEF BufItem, Kind, r
  <2> QED BY <1>3, <1>6, <2>2, <2>3 DEF h
<1> QED BY <1>7, <1>8

\* The rate that carbon gets of a counter.
LEMMA CounterRateIs ==
    ASSUME TInv, NEW k \in Key, fine.values[k] # NoValue, Kind(k) = "counter",
           NEW num \in Nat, num + 1 \in Places
    PROVE  /\ CounterRate(fine, fine.values[k], num) \in Int \cup {NaN, NoValue}
           /\ Top(k) > num => CounterRate(fine, fine.values[k], num) = NoValue
           /\ num = 0 => CounterRate(fine, fine.values[k], num) = NoValue
           /\ num > 0 /\ Top(k) = num => CounterRate(fine, fine.values[k], num) = NaN
           /\ CounterRate(fine, fine.values[k], num) = NaN => Top(k) > 0
<1> DEFINE v == fine.values[k]
           h == Shown(k)
           top == Top(k)
           lh == Len(h)
           K == KnownIndexes(fine, v, num)
           d == DiffToAtMost(fine, v, num)
           rate == CounterRate(fine, v, num)
           idx == LastKnown(fine, v, num)
           ts == fine.timestamps
<1>1. /\ v.tip \in Int /\ top \in Nat /\ lh \in Nat /\ top + 1 <= lh /\ lh <= Len(ts)
      /\ \A i \in 1..top : h[i] = NoValue
      /\ h[top + 1] = v.tip
  <2>1. /\ v.tip \in Int /\ top \in Nat /\ BufLen(k) \in Nat /\ lh = top + 1 + BufLen(k) /\ lh <= Len(ts)
        /\ \A i \in 1..top : h[i] = NoValue
        /\ h[top + 1] = v.tip
    BY Placed
  <2> HIDE DEF h, lh, top
  <2> QED BY <2>1
<1>2. Good(fine) /\ Len(ts) \in Nat /\ fine.age \in Nat
  BY NewestInMemory
<1>3. K = {i \in 1..Smaller(num, lh - 1) : h[i + 1] # NoValue}
  BY DEF KnownIndexes, Shown
<1>4. rate = IF K = {} THEN NoValue ELSE IF d.from = d.to THEN NaN
             ELSE (d.value * PerSecond) \div (d.from - d.to)
  BY DEF CounterRate
<1>5. NaN \notin Int /\ NaN # NoValue /\ PerSecond \in Nat
  BY SeriesAssumption
<1>6. v.tip # NoValue
  BY <1>1, AbsentAssumption
<1>7. TipIndex(fine, v) = top
  BY DEF TipIndex, Top
<1>8. ASSUME K # {}
      PROVE  /\ idx \in K /\ \A i \in K : i <= idx
             /\ d.value = Difference(v, h[idx + 1])
             /\ d.from = ts[top + 1] /\ d.to = ts[idx + 1]
             /\ idx \in top .. Len(ts) - 1
  <2>1. /\ idx \in top .. Len(ts) - 1
    BY <1>2, <1>7, <1>8, LastKnownProperties
  <2>2. /\ d.from = ts[top + 1] /\ d.to = ts[idx + 1] /\ d.value = Difference(v, h[idx + 1])
    BY <1>7, <1>8 DEF DiffToAtMost, Shown
  <2>3. \E i \in K : \A j \in K : j <= i
    <3> DEFINE m == lh - 1
    <3>1. m \in Nat /\ Smaller(num, lh - 1) \in Nat /\ Smaller(num, lh - 1) <= m
      BY <1>1 DEF Smaller
    <3> HIDE DEF m, K, lh
    <3>2. K \in SUBSET (0..m)
      BY <1>3, <3>1
    <3> QED BY <1>8, <3>1, <3>2, GreatestExists
  <2>4. idx \in K /\ \A i \in K : i <= idx
    <3>1. idx = CHOOSE i \in K : \A j \in K : j <= i
      BY DEF LastKnown
    <3> HIDE DEF idx, K
    <3> QED BY <2>3, <3>1
  <2> QED BY <2>1, <2>2, <2>4
<1> HIDE DEF h, top, lh, K, d, rate, idx, ts
<1>9. \A i \in K : i \in Nat /\ 1 <= i /\ i <= num /\ i + 1 \in 1..lh /\ h[i + 1] # NoValue
  <2>1. Smaller(num, lh - 1) <= num /\ Smaller(num, lh - 1) <= lh - 1 /\ Smaller(num, lh - 1) \in Int
    BY <1>1 DEF Smaller
  <2> QED BY <1>1, <1>3, <2>1
\* after the last timestamp of the newest sample
<1>10. \A i \in K : top <= i
  <2>1. \A i \in K : ~ (i + 1 \in 1..top)
    BY <1>1, <1>9
  <2> QED BY <1>1, <1>9, <2>1
<1>11. top > num => K = {}
  BY <1>1, <1>9, <1>10
<1>12. num = 0 => K = {}
  BY <1>9
<1>13. num > 0 /\ top = num => num \in K
  <2>1. num > 0 /\ top = num => num \in 1..Smaller(num, lh - 1) /\ h[num + 1] # NoValue
    BY <1>1, <1>6 DEF Smaller
  <2> QED BY <1>3, <2>1
<1>14. num > 0 /\ top = num => rate = NaN
  <2> SUFFICES ASSUME num > 0, top = num PROVE rate = NaN
    OBVIOUS
  <2>1. num \in K
    BY <1>13
  <2>2. idx = num /\ d.from = ts[top + 1] /\ d.to = ts[idx + 1]
    <3>1. K # {}
      BY <2>1
    <3>2. num <= idx /\ idx <= num /\ idx \in Nat
      BY <1>8, <1>9, <2>1, <3>1
    <3>3. idx = num
      BY <3>2
    <3> QED BY <1>8, <3>1, <3>3
  <2> QED BY <1>4, <2>1, <2>2
<1>15. ASSUME K # {}, d.from # d.to PROVE rate \in Int
  <2>1. /\ idx \in K /\ d.value = Difference(v, h[idx + 1])
        /\ d.from = ts[top + 1] /\ d.to = ts[idx + 1]
        /\ idx \in top .. Len(ts) - 1
    BY <1>8, <1>15
  <2>2. h[idx + 1] \in Int
    BY <1>9, <2>1, ShownType DEF h, lh
  <2>3. d.value \in Int
    <3>1. d.value = Monus(v.tip, h[idx + 1])
      BY <2>1 DEF Difference, Kind
    <3> QED BY <1>1, <2>2, <3>1 DEF Monus
  <2>4. d.from - d.to \in Nat /\ d.from - d.to > 0
    <3>1. top + 1 \in Places /\ idx + 1 \in Places /\ top <= idx
      <4>1. Places = 1..Len(ts)
        BY DEF Places, ts
      <4> QED BY <1>1, <1>2, <2>1, <4>1
    <3>2. idx # top
      BY <1>15, <2>1
    <3>3. top + 1 < idx + 1
      BY <1>1, <1>9, <2>1, <3>1, <3>2
    <3>4. At(idx + 1) < At(top + 1) /\ At(idx + 1) = d.to /\ At(top + 1) = d.from
          /\ At(idx + 1) \in Nat /\ At(top + 1) \in Nat
      BY <2>1, <3>1, <3>3, Timed DEF ts
    <3> QED BY <3>4
  <2> DEFINE a == d.value * PerSecond
             b == d.from - d.to
  <2>5. a \in Int
    BY <1>5, <2>3, Scaled
  <2>6. b \in Nat /\ b > 0
    BY <2>4
  <2>7. rate = a \div b
    BY <1>4, <1>15
  <2> HIDE DEF a, b
  <2> QED BY <2>5, <2>6, <2>7, Divided
<1>16. rate = NaN => top > 0
  <2> SUFFICES ASSUME rate = NaN PROVE top > 0
    OBVIOUS
  <2>1. K # {}
    BY <1>4, <1>5
  <2>2. d.from = d.to
    BY <1>5, <1>15, <2>1
  <2>3. idx \in K /\ d.from = ts[top + 1] /\ d.to = ts[idx + 1] /\ idx \in top .. Len(ts) - 1
    BY <1>8, <2>1
  <2>4. CASE idx = top
    BY <1>9, <2>3, <2>4
  <2>5. CASE idx # top
    <3>1. top + 1 \in Places /\ idx + 1 \in Places /\ top <= idx
      <4>1. Places = 1..Len(ts)
        BY DEF Places, ts
      <4> QED BY <1>1, <1>2, <2>3, <4>1
    <3>2. top + 1 < idx + 1
      BY <1>1, <1>9, <2>3, <2>5, <3>1
    <3>3. At(idx + 1) < At(top + 1) /\ At(idx + 1) = d.to /\ At(top + 1) = d.from
          /\ At(idx + 1) \in Nat /\ At(top + 1) \in Nat
      BY <2>3, <3>1, <3>2, Timed DEF ts
    <3> QED BY <2>2, <3>3
  <2> QED BY <2>4, <2>5
<1>17. rate \in Int \cup {NaN, NoValue}
  BY <1>4, <1>15
<1> QED BY <1>4, <1>11, <1>12, <1>14, <1>16, <1>17 DEF top, rate

\* .. and of one that is there all the time.
LEMMA SteadyRate ==
    ASSUME TInv, NEW k \in Key, fine.values[k] # NoValue,
           NEW num \in Nat, num > 0, num + 1 \in Places, Steady(k, 1 .. num + 1)
    PROVE  /\ CounterRate(fine, fine.values[k], num) = Speed(k, 1, num + 1)
           /\ Speed(k, 1, num + 1) \in Int
<1> DEFINE n == num + 1
           v == fine.values[k]
           d == DiffToAtMost(fine, v, num)
<1>1. n \in Places /\ n > 1 /\ n - 1 = num
  OBVIOUS
<1> HIDE DEF n
<1>2. /\ KnownIndexes(fine, v, num) # {}
      /\ d.value = Growth(k, 1, n) /\ d.from = At(1) /\ d.to = At(n)
      /\ Growth(k, 1, n) \in Nat /\ At(1) \in Nat /\ At(n) \in Nat /\ At(n) < At(1)
  <2>1. Steady(k, 1..n)
    BY DEF n
  <2> QED BY <1>1, <2>1, SteadyDiff
<1>3. d.from # d.to
  BY <1>2
<1>4. CounterRate(fine, v, num) = (d.value * PerSecond) \div (d.from - d.to)
  BY <1>2, <1>3 DEF CounterRate
<1>5. CounterRate(fine, v, num) = Speed(k, 1, n)
  <2> HIDE DEF d
  <2> QED BY <1>2, <1>4 DEF Speed
<1>6. Speed(k, 1, n) \in Int
  <2> DEFINE a == Growth(k, 1, n) * PerSecond
             b == At(1) - At(n)
  <2>1. a \in Int
    <3>1. PerSecond \in Nat /\ Growth(k, 1, n) \in Int
      BY <1>2, SeriesAssumption
    <3> QED BY <3>1, Scaled
  <2>2. b \in Nat /\ b > 0
    BY <1>2
  <2>3. Speed(k, 1, n) = a \div b
    BY DEF Speed
  <2> HIDE DEF a, b
  <2> QED BY <2>1, <2>2, <2>3, Divided
<1> QED BY <1>5, <1>6 DEF n

\* The sum of what is known.
LEMMA SumKnownIs ==
    ASSUME NEW f, NEW g, DOMAIN g = {k \in DOMAIN f : f[k] # NoValue}, IsFiniteSet(DOMAIN g),
           \A k \in DOMAIN g : f[k] \in Int /\ f[k] = g[k]
    PROVE  SumKnown(f) = SumFunction(g)
<1> DEFINE known == {k \in DOMAIN f : f[k] # NoValue}
<1>1. known = DOMAIN g
  OBVIOUS
<1>2. SumKnown(f) = IF \E k \in known : f[k] = NaN THEN NaN ELSE SumFunctionOnSet(f, known)
  BY DEF SumKnown
<1> HIDE DEF known
<1>3. ~ \E k \in known : f[k] = NaN
  BY <1>1, SeriesAssumption
<1>4. SumFunctionOnSet(f, DOMAIN g) = SumFunctionOnSet(g, DOMAIN g)
  <2> DEFINE S == DOMAIN g
  <2>1. IsFiniteSet(S) /\ \A x \in S : f[x] \in Int /\ f[x] = g[x]
    OBVIOUS
  <2> HIDE DEF S
  <2>2. SumFunctionOnSet(f, S) = SumFunctionOnSet(g, S)
    BY ONLY <2>1, SumSame
  <2> QED BY <2>2 DEF S
<1>5. SumFunction(g) = SumFunctionOnSet(g, DOMAIN g)
  BY SumFunctionIs
<1> QED BY <1>1, <1>2, <1>3, <1>4, <1>5

\* It is spoilt by what is not a number, and by nothing else.
LEMMA SumKnownNaN ==
    ASSUME NEW f, IsFiniteSet(DOMAIN f), \A k \in DOMAIN f : f[k] \in Int \cup {NaN, NoValue}
    PROVE  SumKnown(f) = NaN <=> \E k \in DOMAIN f : f[k] = NaN
<1> DEFINE known == {k \in DOMAIN f : f[k] # NoValue}
<1>1. SumKnown(f) = IF \E k \in known : f[k] = NaN THEN NaN ELSE SumFunctionOnSet(f, known)
  BY DEF SumKnown
<1>2. (\E k \in known : f[k] = NaN) <=> \E k \in DOMAIN f : f[k] = NaN
  BY SeriesAssumption
<1>3. IsFiniteSet(known)
  BY FS_Subset
<1>4. (~ \E k \in known : f[k] = NaN) => \A k \in known : f[k] \in Int
  OBVIOUS
<1> HIDE DEF known
<1>5. (~ \E k \in known : f[k] = NaN) => SumFunctionOnSet(f, known) \in Int
  BY <1>3, <1>4, SumProperties
<1> QED BY <1>1, <1>2, <1>5, SeriesAssumption

\* The metrics of a group that were seen in the window.
SeenOf(g, metric, kind, num) ==
    {k \in InGroup(fine, g) : k["metric"] = metric /\ Kind(k) = kind /\ Recent(k, num + 1) # {}}

\* .. and those that are there at all.
OfGroup(g, metric) == {k \in InGroup(fine, g) : k["metric"] = metric}

\* The metrics of a group that have this name.
LEMMA OfGroupKeys ==
    ASSUME NEW g, NEW metric
    PROVE  /\ IsFiniteSet(OfGroup(g, metric))
           /\ \A k \in OfGroup(g, metric) : k \in Key /\ fine.values[k] # NoValue
           /\ \A kind, num : SeenOf(g, metric, kind, num) =
                 {k \in OfGroup(g, metric) : Kind(k) = kind /\ Recent(k, num + 1) # {}}
<1>1. OfGroup(g, metric) \subseteq Key
  BY DEF OfGroup, InGroup, KeysWith
<1>2. IsFiniteSet(OfGroup(g, metric))
  BY <1>1, SeriesAssumption, FS_Subset
<1> QED BY <1>2 DEF OfGroup, InGroup, KeysWith, SeenOf

\* The tip is sent if some scan of the window saw it.
LEMMA TipSent ==
    ASSUME TInv, NEW k \in Key, fine.values[k] # NoValue, NEW num \in Nat, num + 1 \in Places,
           num < fine.age
    PROVE  /\ TipOrNone(fine.values[k], Monus(fine.age, num)) # NoValue <=>
                 Kind(k) = "integer" /\ Recent(k, num + 1) # {}
           /\ TipOrNone(fine.values[k], Monus(fine.age, num)) # NoValue =>
                 /\ TipOrNone(fine.values[k], Monus(fine.age, num)) \in Int
                 /\ TipOrNone(fine.values[k], Monus(fine.age, num)) =
                       SeenAt(k, Kind(k), LastAt(k, num + 1))
           /\ GraphiteInteger(fine, fine.values[k], num) =
                 IF Recent(k, num + 1) # {} THEN fine.values[k].tip ELSE NoValue
<1> DEFINE v == fine.values[k]
           va == v.age
           age == fine.age
           seen == Recent(k, num + 1) # {}
<1>1. /\ seen <=> Top(k) <= num
      /\ seen => SeenAt(k, Kind(k), LastAt(k, num + 1)) = v.tip
      /\ v.tip \in Int /\ v.tip # NoValue
  BY LastSeen
<1>2. age \in Nat /\ va \in Nat /\ Top(k) = age - va
  BY MetricTold, FitsParts DEF Top
<1>3. num < age
  OBVIOUS
<1>4. TipOrNone(v, Monus(age, num)) =
         IF Kind(k) = "integer" /\ va >= Monus(age, num) THEN v.tip ELSE NoValue
  BY DEF TipOrNone, Kind
<1>5. GraphiteInteger(fine, v, num) = IF va >= age - Smaller(num, age) THEN v.tip ELSE NoValue
  BY DEF GraphiteInteger
<1> HIDE DEF seen, va, age
<1>6. (va >= Monus(age, num)) <=> seen
  BY <1>1, <1>2, <1>3 DEF Monus
<1>7. (va >= age - Smaller(num, age)) <=> seen
  BY <1>1, <1>2, <1>3 DEF Smaller
<1> HIDE DEF v
<1> QED BY <1>1, <1>4, <1>5, <1>6, <1>7 DEF v, seen, age

\* What the sum of the sizes of a group is made of.
LEMMA GroupTips ==
    ASSUME TInv, NEW g, NEW metric, NEW num \in Nat, num + 1 \in Places, num < fine.age,
           NEW f, f = [k \in OfGroup(g, metric) |-> TipOrNone(fine.values[k], Monus(fine.age, num))]
    PROVE  /\ {k \in OfGroup(g, metric) : f[k] # NoValue} = SeenOf(g, metric, "integer", num)
           /\ SumKnown(f) = SumFunction([k \in SeenOf(g, metric, "integer", num) |->
                                            SeenAt(k, "integer", LastAt(k, num + 1))])
<1> DEFINE seen == SeenOf(g, metric, "integer", num)
           all == OfGroup(g, metric)
           s == [k \in seen |-> SeenAt(k, "integer", LastAt(k, num + 1))]
<1>1. /\ IsFiniteSet(all) /\ \A k \in all : k \in Key /\ fine.values[k] # NoValue
      /\ seen = {k \in all : Kind(k) = "integer" /\ Recent(k, num + 1) # {}}
  BY OfGroupKeys
<1>2. ASSUME NEW k \in all
      PROVE  /\ f[k] # NoValue <=> Kind(k) = "integer" /\ Recent(k, num + 1) # {}
             /\ f[k] # NoValue => f[k] \in Int /\ f[k] = SeenAt(k, "integer", LastAt(k, num + 1))
  <2>1. k \in Key /\ fine.values[k] # NoValue
    BY <1>1
  <2>2. f[k] = TipOrNone(fine.values[k], Monus(fine.age, num))
    OBVIOUS
  <2> QED BY <2>1, <2>2, TipSent
<1>3. DOMAIN f = all
  OBVIOUS
<1> HIDE DEF all
<1>4. {k \in all : f[k] # NoValue} = seen
  BY <1>1, <1>2
<1>5. DOMAIN s = seen /\ \A k \in seen : s[k] = SeenAt(k, "integer", LastAt(k, num + 1))
  OBVIOUS
<1>6. seen \subseteq all
  BY <1>1
<1> HIDE DEF seen
<1>7. IsFiniteSet(seen)
  BY <1>1, <1>6, FS_Subset
<1>8. \A k \in seen : f[k] \in Int /\ f[k] = s[k]
  BY <1>2, <1>4, <1>5
<1> HIDE DEF s
<1>9. SumKnown(f) = SumFunction(s)
  BY <1>3, <1>4, <1>5, <1>7, <1>8, SumKnownIs
<1> QED BY <1>4, <1>9 DEF s, seen, all

\* What the rate of a group is made of.
LEMMA GroupRates ==
    ASSUME TInv, NEW g, NEW metric, NEW num \in Nat, num > 0, num + 1 \in Places,
           NEW f, f = [k \in OfGroup(g, metric) |->
                          IF fine.values[k].kind = "counter"
                          THEN CounterRate(fine, fine.values[k], num) ELSE NoValue]
    PROVE  /\ SumKnown(f) = NaN =>
                 \E k \in SeenOf(g, metric, "counter", num) : LastAt(k, num + 1) > 1
           /\ (\E k \in SeenOf(g, metric, "counter", num) : LastAt(k, num + 1) = num + 1) =>
                 SumKnown(f) = NaN
           /\ (\A k \in SeenOf(g, metric, "counter", num) : Steady(k, 1 .. num + 1)) =>
                 SumKnown(f) = SumFunction([k \in SeenOf(g, metric, "counter", num) |->
                                               Speed(k, 1, num + 1)])
<1> DEFINE timed == SeenOf(g, metric, "counter", num)
           all == OfGroup(g, metric)
<1>1. /\ IsFiniteSet(all) /\ \A k \in all : k \in Key /\ fine.values[k] # NoValue
      /\ timed = {k \in all : Kind(k) = "counter" /\ Recent(k, num + 1) # {}}
  BY OfGroupKeys
<1>2. ASSUME NEW k \in all, Kind(k) = "counter"
      PROVE  /\ f[k] \in Int \cup {NaN, NoValue}
             /\ f[k] # NoValue => k \in timed
             /\ f[k] = NaN => LastAt(k, num + 1) > 1
             /\ k \in timed /\ LastAt(k, num + 1) = num + 1 => f[k] = NaN
             /\ Steady(k, 1 .. num + 1) => f[k] = Speed(k, 1, num + 1) /\ f[k] \in Int
  <2>1. k \in Key /\ fine.values[k] # NoValue
    BY <1>1
  <2> DEFINE rate == CounterRate(fine, fine.values[k], num)
             top == Top(k)
  <2>2. f[k] = rate
    BY <1>2 DEF Kind
  <2>3. /\ rate \in Int \cup {NaN, NoValue}
        /\ top > num => rate = NoValue
        /\ top = num => rate = NaN
        /\ rate = NaN => top > 0
    BY <1>2, <2>1, CounterRateIs
  <2>4. /\ Recent(k, num + 1) # {} <=> top <= num
        /\ top <= num => LastAt(k, num + 1) = top + 1
        /\ top \in Nat
    BY <2>1, LastSeen
  <2>5. Steady(k, 1 .. num + 1) => rate = Speed(k, 1, num + 1) /\ Speed(k, 1, num + 1) \in Int
    BY <2>1, SteadyRate
  <2>6. NaN # NoValue
    BY SeriesAssumption
  <2> HIDE DEF rate, top
  <2>7. rate # NoValue => top <= num
    BY <2>3, <2>4
  <2>8. rate = NaN => LastAt(k, num + 1) > 1
    BY <2>3, <2>4, <2>6, <2>7
  <2>9. top <= num /\ LastAt(k, num + 1) = num + 1 => rate = NaN
    BY <2>3, <2>4
  <2>10. k \in timed <=> top <= num
    BY <1>1, <1>2, <2>4
  <2> QED BY <2>2, <2>3, <2>5, <2>7, <2>8, <2>9, <2>10
<1>3. ASSUME NEW k \in all, Kind(k) # "counter" PROVE f[k] = NoValue
  BY <1>3 DEF Kind
<1>4. DOMAIN f = all
  OBVIOUS
<1> HIDE DEF timed, all
<1>5. SumKnown(f) = NaN <=> \E k \in all : f[k] = NaN
  <2>1. \A k \in all : f[k] \in Int \cup {NaN, NoValue}
    BY <1>2, <1>3
  <2> QED BY <1>1, <1>4, <2>1, SumKnownNaN
<1>6. NaN # NoValue /\ NoValue \notin Int
  BY SeriesAssumption, AbsentAssumption
<1>7. SumKnown(f) = NaN => \E k \in timed : LastAt(k, num + 1) > 1
  BY <1>2, <1>3, <1>5, <1>6
<1>8. (\E k \in timed : LastAt(k, num + 1) = num + 1) => SumKnown(f) = NaN
  BY <1>1, <1>2, <1>5
<1>9. ASSUME \A k \in timed : Steady(k, 1 .. num + 1)
      PROVE  SumKnown(f) = SumFunction([k \in timed |-> Speed(k, 1, num + 1)])
  <2> DEFINE s == [k \in timed |-> Speed(k, 1, num + 1)]
  <2>1. DOMAIN s = timed /\ \A k \in timed : s[k] = Speed(k, 1, num + 1)
    OBVIOUS
  <2>2. \A k \in timed : f[k] \in Int /\ f[k] = Speed(k, 1, num + 1)
    BY <1>1, <1>2, <1>9
  <2>3. timed = {k \in DOMAIN f : f[k] # NoValue}
    <3>1. \A k \in all : f[k] # NoValue => k \in timed
      BY <1>2, <1>3
    <3>2. \A k \in timed : k \in all /\ f[k] # NoValue
      BY <1>1, <1>6, <2>2
    <3> QED BY <1>4, <3>1, <3>2
  <2>4. IsFiniteSet(timed)
    <3>1. timed \subseteq all
      BY <1>1
    <3> QED BY <1>1, <3>1, FS_Subset
  <2> HIDE DEF s
  <2>5. SumKnown(f) = SumFunction(s)
    <3>1. DOMAIN s = {k \in DOMAIN f : f[k] # NoValue} /\ IsFiniteSet(DOMAIN s)
      BY ONLY <2>1, <2>3, <2>4
    <3>2. \A k \in DOMAIN s : f[k] \in Int /\ f[k] = s[k]
      BY ONLY <2>1, <2>2
    <3> QED BY ONLY <3>1, <3>2, SumKnownIs
  <2> QED BY <2>5 DEF s
<1> QED BY <1>7, <1>8, <1>9 DEF timed

\* The sizes, numbers of processes and rates of groups that are sent to carbon
\* (cgroups::scan).
THEOREM CarbonSumsTrue == Spec => []CarbonSums
<1>1. TInv => CarbonSums
  <2> DEFINE num == Window(fine, Interval)
             sent == CGroups(fine, Interval)
  <2> SUFFICES ASSUME TInv, Len(fine.timestamps) > 1, NEW g \in DOMAIN sent
               PROVE  /\ \A m \in Sizes :
                           sent[g].sizes[m] = SumFunction([k \in SeenOf(g, m, "integer", num) |->
                                                SeenAt(k, "integer", LastAt(k, num + 1))])
                      /\ sent[g].num_processes =
                            Cardinality(SeenOf(g, "num_threads", "integer", num))
                      /\ \A m \in Rates : num > 0 =>
                           /\ sent[g].rates[m] = NaN =>
                                \E k \in SeenOf(g, m, "counter", num) : LastAt(k, num + 1) > 1
                           /\ (\E k \in SeenOf(g, m, "counter", num) :
                                  LastAt(k, num + 1) = num + 1) => sent[g].rates[m] = NaN
                           /\ (\A k \in SeenOf(g, m, "counter", num) : Steady(k, 1 .. num + 1)) =>
                                sent[g].rates[m] =
                                   SumFunction([k \in SeenOf(g, m, "counter", num) |->
                                                   Speed(k, 1, num + 1)])
    BY DEF CarbonSums, SeenOf
  <2>1. num \in Nat /\ num + 1 \in Places /\ num < fine.age
    BY WindowPlace
  <2>2. sent[g] = CGroup(fine, g, num)
    <3>1. ~ (Len(fine.timestamps) < 2)
      BY NewestInMemory
    <3> HIDE DEF num
    <3> QED BY <3>1 DEF CGroups, num
  <2> DEFINE Tips(m) == [k \in OfGroup(g, m) |-> TipOrNone(fine.values[k], Monus(fine.age, num))]
             Times(m) == [k \in OfGroup(g, m) |->
                             IF fine.values[k].kind = "counter"
                             THEN CounterRate(fine, fine.values[k], num) ELSE NoValue]
             count == Cardinality({k \in OfGroup(g, "num_threads") : Tips("num_threads")[k] # NoValue})
  <2> HIDE DEF num, sent
  <2>3. /\ \A m \in Sizes : CGroup(fine, g, num).sizes[m] = SumKnown(Tips(m))
        /\ CGroup(fine, g, num).num_processes = count
        /\ \A m \in Rates : CGroup(fine, g, num).rates[m] = SumKnown(Times(m))
    BY DEF CGroup, OfGroup
  <2> HIDE DEF Tips, Times
  <2>4. ASSUME NEW m \in Sizes
        PROVE  sent[g].sizes[m] = SumFunction([k \in SeenOf(g, m, "integer", num) |->
                                                 SeenAt(k, "integer", LastAt(k, num + 1))])
    <3> DEFINE f == Tips(m)
    <3>1. f = [k \in OfGroup(g, m) |-> TipOrNone(fine.values[k], Monus(fine.age, num))]
      BY DEF Tips
    <3> HIDE DEF f
    <3>2. SumKnown(f) = SumFunction([k \in SeenOf(g, m, "integer", num) |->
                                                 SeenAt(k, "integer", LastAt(k, num + 1))])
      BY <2>1, <3>1, GroupTips
    <3> QED BY <2>2, <2>3, <3>2 DEF f
  <2>5. count = Cardinality(SeenOf(g, "num_threads", "integer", num))
    <3> DEFINE f == Tips("num_threads")
    <3>1. f = [k \in OfGroup(g, "num_threads") |-> TipOrNone(fine.values[k], Monus(fine.age, num))]
      BY DEF Tips
    <3> HIDE DEF f
    <3>2. /\ {k \in OfGroup(g, "num_threads") : f[k] # NoValue} =
               SeenOf(g, "num_threads", "integer", num)
          /\ SumKnown(f) = SumFunction([k \in SeenOf(g, "num_threads", "integer", num) |->
                                            SeenAt(k, "integer", LastAt(k, num + 1))])
      BY <2>1, <3>1, GroupTips
    <3> QED BY <3>2 DEF f
  <2>6. ASSUME NEW m \in Rates, num > 0
        PROVE  /\ sent[g].rates[m] = NaN =>
                    \E k \in SeenOf(g, m, "counter", num) : LastAt(k, num + 1) > 1
               /\ (\E k \in SeenOf(g, m, "counter", num) :
                      LastAt(k, num + 1) = num + 1) => sent[g].rates[m] = NaN
               /\ (\A k \in SeenOf(g, m, "counter", num) : Steady(k, 1 .. num + 1)) =>
                    sent[g].rates[m] = SumFunction([k \in SeenOf(g, m, "counter", num) |->
                                                       Speed(k, 1, num + 1)])
    <3> DEFINE f == Times(m)
    <3>1. f = [k \in OfGroup(g, m) |->
                             IF fine.values[k].kind = "counter"
                             THEN CounterRate(fine, fine.values[k], num) ELSE NoValue]
      BY DEF Times
    <3> HIDE DEF f
    <3>2. sent[g].rates[m] = SumKnown(f)
      BY <2>2, <2>3 DEF f
    <3> QED BY <2>1, <2>6, <3>1, <3>2, GroupRates
  <2> QED BY <2>2, <2>3, <2>4, <2>5, <2>6
<1> QED BY <1>1, TInvInvariant, PTL

\* What carbon gets of a metric of an application.
LEMMA GraphiteSent ==
    ASSUME TInv, NEW k \in Key, fine.values[k] # NoValue, NEW num \in Nat, num + 1 \in Places,
           num < fine.age
    PROVE  /\ Kind(k) = "integer" /\ Recent(k, num + 1) # {} =>
                 /\ GraphiteData(fine, fine.values[k], num) = SeenAt(k, "integer", LastAt(k, num + 1))
                 /\ GraphiteData(fine, fine.values[k], num) # NoValue
           /\ Kind(k) = "counter" /\ num > 0 /\ Steady(k, 1 .. num + 1) =>
                 /\ GraphiteData(fine, fine.values[k], num) = Speed(k, 1, num + 1)
                 /\ GraphiteData(fine, fine.values[k], num) # NoValue
           /\ GraphiteData(fine, fine.values[k], num) # NoValue =>
                 Kind(k) \in {"integer", "counter"} /\ Recent(k, num + 1) # {}
<1> DEFINE v == fine.values[k]
           data == GraphiteData(fine, v, num)
           seen == Recent(k, num + 1) # {}
<1>1. /\ seen <=> Top(k) <= num
      /\ seen => SeenAt(k, Kind(k), LastAt(k, num + 1)) = v.tip
      /\ v.tip # NoValue /\ Top(k) \in Nat
  BY LastSeen
<1>2. Kind(k) \in FineKind
  BY Placed
<1>3. GraphiteInteger(fine, v, num) = IF seen THEN v.tip ELSE NoValue
  BY TipSent
<1>4. /\ Kind(k) = "integer" => data = GraphiteInteger(fine, v, num)
      /\ Kind(k) = "counter" => data = CounterRate(fine, v, num)
      /\ Kind(k) = "float" => data = NoValue
  BY DEF GraphiteData, Kind
<1>5. Kind(k) = "counter" /\ Top(k) > num => CounterRate(fine, v, num) = NoValue
  BY CounterRateIs
<1>6. num > 0 /\ Steady(k, 1 .. num + 1) =>
         CounterRate(fine, v, num) = Speed(k, 1, num + 1) /\ Speed(k, 1, num + 1) # NoValue
  BY SteadyRate, AbsentAssumption
<1>7. Kind(k) = "counter" /\ data # NoValue => seen
  <2>1. ~ (Top(k) > num) => Top(k) <= num
    BY <1>1
  <2> QED BY <1>1, <1>4, <1>5, <2>1
<1> HIDE DEF data, seen, v
<1> QED BY <1>1, <1>2, <1>3, <1>4, <1>6, <1>7 DEF data, seen, v, FineKind

\* .. and the metrics of applications (appmetrics::scan).
THEOREM CarbonAppsTrue == Spec => []CarbonApps
<1>1. TInv => CarbonApps
  <2> DEFINE num == Window(fine, Interval)
             keys == KeysWith(fine, {"appname", "metric"})
             names == Named(keys)
             Of(kind) == {s \in names : Kind(s[1]) = kind /\ Recent(s[1], num + 1) # {}}
             Sent(s, val) == <<s[1]["appname"], UserName(s), val>>
             Last(k) == SeenAt(k, "integer", LastAt(k, num + 1))
             Data(s) == GraphiteData(fine, fine.values[s[1]], num)
             sent == AppMetrics(fine, Interval)
  <2> SUFFICES ASSUME TInv, Len(fine.timestamps) > 1
               PROVE  /\ \A s \in Of("integer") : Sent(s, Last(s[1])) \in sent
                      /\ \A s \in Of("counter") :
                           num > 0 /\ Steady(s[1], 1 .. num + 1) =>
                              Sent(s, Speed(s[1], 1, num + 1)) \in sent
                      /\ \A x \in sent : \/ \E s \in Of("integer") : x = Sent(s, Last(s[1]))
                                         \/ \E s \in Of("counter") : x = Sent(s, x[3])
    BY DEF CarbonApps
  <2>1. num \in Nat /\ num + 1 \in Places /\ num < fine.age
    BY WindowPlace
  <2>2. sent = {Sent(s, Data(s)) : s \in {t \in names : Data(t) # NoValue}}
    <3>1. ~ (Len(fine.timestamps) < 2)
      BY NewestInMemory
    <3> HIDE DEF num
    <3> QED BY <3>1 DEF AppMetrics, num
  <2>3. \A s \in names : s[1] \in Key /\ fine.values[s[1]] # NoValue
    BY DEF Named, KeysWith
  <2> HIDE DEF num, names, sent
  <2>4. ASSUME NEW s \in names
        PROVE  /\ Kind(s[1]) = "integer" /\ Recent(s[1], num + 1) # {} =>
                    Data(s) = Last(s[1]) /\ Data(s) # NoValue
               /\ Kind(s[1]) = "counter" /\ num > 0 /\ Steady(s[1], 1 .. num + 1) =>
                    Data(s) = Speed(s[1], 1, num + 1) /\ Data(s) # NoValue
               /\ Data(s) # NoValue =>
                    Kind(s[1]) \in {"integer", "counter"} /\ Recent(s[1], num + 1) # {}
    <3> DEFINE k == s[1]
    <3>1. k \in Key /\ fine.values[k] # NoValue
      BY <2>3
    <3> HIDE DEF k
    <3>2. /\ Kind(k) = "integer" /\ Recent(k, num + 1) # {} =>
                 /\ GraphiteData(fine, fine.values[k], num) = SeenAt(k, "integer", LastAt(k, num + 1))
                 /\ GraphiteData(fine, fine.values[k], num) # NoValue
          /\ Kind(k) = "counter" /\ num > 0 /\ Steady(k, 1 .. num + 1) =>
                 /\ GraphiteData(fine, fine.values[k], num) = Speed(k, 1, num + 1)
                 /\ GraphiteData(fine, fine.values[k], num) # NoValue
          /\ GraphiteData(fine, fine.values[k], num) # NoValue =>
                 Kind(k) \in {"integer", "counter"} /\ Recent(k, num + 1) # {}
      BY <2>1, <3>1, GraphiteSent
    <3> QED BY <3>2 DEF k
  <2> HIDE DEF Data
  <2>5. \A s \in names : Data(s) # NoValue => Sent(s, Data(s)) \in sent
    BY <2>2
  <2>6. ASSUME NEW s \in Of("integer") PROVE Sent(s, Last(s[1])) \in sent
    <3>1. s \in names /\ Data(s) = Last(s[1]) /\ Data(s) # NoValue
      BY <2>4
    <3> HIDE DEF Last, Sent
    <3> QED BY <2>5, <3>1
  <2>7. ASSUME NEW s \in Of("counter"), num > 0, Steady(s[1], 1 .. num + 1)
        PROVE  Sent(s, Speed(s[1], 1, num + 1)) \in sent
    <3>1. s \in names /\ Data(s) = Speed(s[1], 1, num + 1) /\ Data(s) # NoValue
      BY <2>4, <2>7
    <3> HIDE DEF Last, Sent
    <3> QED BY <2>5, <3>1
  <2>8. ASSUME NEW x \in sent
        PROVE  \/ \E s \in Of("integer") : x = Sent(s, Last(s[1]))
               \/ \E s \in Of("counter") : x = Sent(s, x[3])
    <3>1. PICK s \in names : Data(s) # NoValue /\ x = Sent(s, Data(s))
      BY <2>2
    <3>2. Kind(s[1]) \in {"integer", "counter"} /\ Recent(s[1], num + 1) # {}
      BY <2>4, <3>1
    <3>3. CASE Kind(s[1]) = "integer"
      <4>1. s \in Of("integer") /\ Data(s) = Last(s[1])
        BY <2>4, <3>2, <3>3
      <4> HIDE DEF Of, Last, Sent
      <4> QED BY <3>1, <4>1
    <3>4. CASE Kind(s[1]) = "counter"
      <4>1. s \in Of("counter")
        BY <3>2, <3>4
      <4>2. x[3] = Data(s)
        BY <3>1
      <4> HIDE DEF Of, Last, Sent
      <4> QED BY <3>1, <4>1, <4>2
    <3> QED BY <3>2, <3>3, <3>4
  <2> QED BY <2>6, <2>7, <2>8
<1> QED BY <1>1, TInvInvariant, PTL

=============================================================================

-------------------------- MODULE DeltaBytesProofs --------------------------
(***************************************************************************)
(* Proofs about DeltaBytes: whatever is pushed and wherever it is cut, the *)
(* bytes of a delta buffer read back as the items of module Metric, for    *)
(* any width of the numbers and of the counts in a byte, any number of     *)
(* scans and any numbers they read.                                        *)
(*                                                                         *)
(* The functions over the bytes are recursive on 0..n.  That there are     *)
(* such functions, and what they are of bytes put together, is shown by    *)
(* the least place at which it would fail.                                 *)
(***************************************************************************)
EXTENDS DeltaBytes, TLAPS, SequenceTheorems, WellFoundedInduction

-----------------------------------------------------------------------------
(* Recursion over the bytes                                                *)

\* A set of natural numbers that is not empty has a least element.
LEMMA LeastExists ==
    ASSUME NEW T \in SUBSET Nat, T # {}
    PROVE  \E x \in T : \A y \in T : x <= y
<1> DEFINE R == {ss \in Nat \X Nat : ss[1] < ss[2]}
<1>1. IsWellFoundedOn(R, Nat)
  BY NatLessThanWellFounded DEF OpToRel
<1>2. \A x, y \in Nat : <<y, x>> \notin R => x <= y
  OBVIOUS
<1> HIDE DEF R
<1>3. \E x \in T : \A y \in T : ~ (<<y, x>> \in R)
  BY <1>1, WFMin
<1> QED BY <1>2, <1>3

\* Induction up to n.
LEMMA Upto ==
    ASSUME NEW n \in Nat, NEW T, 0 \in T, \A i \in 0 .. n - 1 : i \in T => i + 1 \in T
    PROVE  \A i \in 0..n : i \in T
<1> DEFINE U == {i \in Nat : i <= n /\ i \notin T}
<1>1. U = {}
  <2> SUFFICES ASSUME U # {} PROVE FALSE
    OBVIOUS
  <2>1. U \in SUBSET Nat
    OBVIOUS
  <2> HIDE DEF U
  <2>2. PICK x \in U : \A y \in U : x <= y
    BY <2>1, LeastExists
  <2>3. x \in Nat /\ x <= n /\ x \notin T
    BY DEF U
  <2>4. x # 0 /\ x - 1 \in 0 .. n - 1 /\ (x - 1) + 1 = x
    BY <2>3
  <2>5. x - 1 \notin T
    BY <2>3, <2>4
  <2> DEFINE p == x - 1
  <2>6. p \in U /\ ~ (x <= p)
    BY <2>3, <2>4, <2>5 DEF U
  <2> QED BY <2>2, <2>6
<1> QED BY <1>1

\* A function on 0..n that begins with init, each value made by F of the one
\* before and its place.
CanRecur(A, init, n, F) == init \in A /\ n \in Nat /\ F \in [A \X (1..n) -> A]
Recurs(g, A, init, n, F) ==
    /\ g \in [0..n -> A] /\ g[0] = init
    /\ \A i \in 1..n : g[i] = F[<<g[i - 1], i>>]

\* There is a function that starts as `init' says and goes on as F does, up to n.
LEMMA RecursionExists ==
    ASSUME NEW A, NEW init, NEW n, NEW F, CanRecur(A, init, n, F)
    PROVE  \E g : Recurs(g, A, init, n, F)
<1> USE DEF CanRecur
<1> DEFINE Good(g, m) == /\ g \in [0..m -> A] /\ g[0] = init
                         /\ \A i \in 1..m : g[i] = F[<<g[i - 1], i>>]
           T == {m \in Nat : \E g : Good(g, m)}
<1>1. 0 \in T
  <2>1. Good([i \in 0..0 |-> init], 0)
    OBVIOUS
  <2> QED BY <2>1
<1>2. ASSUME NEW m \in 0 .. n - 1, m \in T
      PROVE  m + 1 \in T
  <2>1. PICK f : Good(f, m)
    BY <1>2
  <2> DEFINE p == m + 1
             g == [i \in 0..p |-> IF i = p THEN F[<<f[m], p>>] ELSE f[i]]
  <2>2. p \in 1..n /\ p \in Nat /\ p - 1 = m /\ m \in 0..m
    OBVIOUS
  <2>3. f[m] \in A /\ F[<<f[m], p>>] \in A
    BY <2>1, <2>2
  <2>4. \A i \in 0..m : g[i] = f[i]
    OBVIOUS
  <2>5. g[p] = F[<<f[m], p>>] /\ g \in [0..p -> A]
    BY <2>1, <2>3
  <2>6. \A i \in 1..p : i = p \/ (i \in 1..m /\ i - 1 \in 0..m /\ i \in 0..m)
    OBVIOUS
  <2> HIDE DEF g, p
  <2>7. \A i \in 1..p : g[i] = F[<<g[i - 1], i>>]
    BY <2>1, <2>2, <2>4, <2>5, <2>6
  <2>8. g[0] = init
    BY <2>1, <2>2, <2>4
  <2>9. Good(g, p)
    BY <2>5, <2>7, <2>8
  <2> QED BY <2>2, <2>9 DEF p
<1>3. n \in T
  <2>1. n \in 0..n
    OBVIOUS
  <2> HIDE DEF T
  <2> QED BY <1>1, <1>2, <2>1, Upto
<1>4. PICK g : Good(g, n)
  BY <1>3
<1> QED BY <1>4 DEF Recurs

\* What the assumptions say of the powers of two.
LEMMA Constants ==
    /\ SIGN_BIT \in Nat /\ SIGN_BIT >= 2 /\ SPECIAL_BIT = 2 * SIGN_BIT
    /\ CONTINUATION_BIT = 4 * SIGN_BIT /\ CONTINUATION_BIT \in Nat /\ CONTINUATION_BIT >= 8
    /\ SPECIAL_MASK = SIGN_BIT - 1 /\ SPECIAL_MASK \in Nat /\ SPECIAL_MASK >= 1
    /\ SKIP_BITS = 3 * SIGN_BIT /\ ZERO_BITS = 2 * SIGN_BIT
    /\ Byte = 0 .. 8 * SIGN_BIT - 1 /\ Byte \subseteq Nat
    /\ Half \in Nat /\ Half >= 1
BY BytesAssumption DEF SPECIAL_BIT, CONTINUATION_BIT, SPECIAL_MASK, SKIP_BITS, ZERO_BITS, Byte

\* Division with a remainder.
LEMMA DivMod ==
    ASSUME NEW x \in Int, NEW c \in Nat, c >= 1
    PROVE  x = c * (x \div c) + (x % c) /\ x % c \in 0 .. c - 1 /\ x \div c \in Int
OBVIOUS

Item == Int \cup {Gap}

LEMMA WrappedType == \A n \in Int : Wrapped(n) \in Int
BY Constants DEF Wrapped

LEMMA LowType ==
    ASSUME NEW byte \in Int
    PROVE  /\ Low(byte) \in 0 .. SIGN_BIT - 1 /\ Low(byte) \in Nat
           /\ Payload(byte) \in 0 .. CONTINUATION_BIT - 1 /\ Payload(byte) \in Nat
<1>1. SIGN_BIT \in Nat /\ SIGN_BIT >= 1 /\ CONTINUATION_BIT \in Nat /\ CONTINUATION_BIT >= 1
  BY Constants
<1>2. byte % SIGN_BIT \in 0 .. SIGN_BIT - 1 /\ byte % CONTINUATION_BIT \in 0 .. CONTINUATION_BIT - 1
  BY <1>1
<1> QED BY <1>1, <1>2 DEF Low, Payload

LEMMA RepeatType ==
    ASSUME NEW item \in Item, NEW n \in Nat
    PROVE  /\ Repeat(item, n) \in Seq(Item) /\ Len(Repeat(item, n)) = n
           /\ \A i \in 1..n : Repeat(item, n)[i] = item
BY DEF Repeat

\* A byte stands for a sequence of items.
LEMMA ItemsFromType ==
    ASSUME NEW byte \in Nat, NEW delta \in Int
    PROVE  ItemsFrom(byte, delta) \in Seq(Item)
<1>1. Low(byte) \in Nat
  BY LowType
<1>2. CASE Special(byte)
  <2>1. (IF High(byte) = SKIP_BITS THEN Gap ELSE 0) \in Item
    BY DEF Item
  <2> QED BY <1>1, <1>2, <2>1, RepeatType DEF ItemsFrom
<1>3. CASE ~Special(byte)
  <2>1. delta * SIGN_BIT + Low(byte) \in Int
    BY <1>1, Constants
  <2> DEFINE by == Wrapped(delta * SIGN_BIT + Low(byte))
  <2>2. by \in Int
    BY <2>1, WrappedType
  <2> HIDE DEF by
  <2>3. (IF High(byte) = SIGN_BIT THEN -by ELSE by) \in Item
    BY <2>2 DEF Item
  <2>4. ItemsFrom(byte, delta) = <<IF High(byte) = SIGN_BIT THEN -by ELSE by>>
    BY <1>3 DEF ItemsFrom, by
  <2> QED BY <2>3, <2>4
<1> QED BY <1>2, <1>3

\* The recursive functions are what their recursions say.
LEMMA CarriedDefined ==
    ASSUME NEW bytes \in Seq(Nat)
    PROVE  /\ Carried(bytes) \in [0 .. Len(bytes) -> Int]
           /\ Carried(bytes)[0] = 0
           /\ \A i \in 1 .. Len(bytes) :
                 Carried(bytes)[i] = IF Continues(bytes[i])
                                     THEN Wrapped(Carried(bytes)[i - 1] * CONTINUATION_BIT
                                                  + Payload(bytes[i]))
                                     ELSE 0
<1> DEFINE n == Len(bytes)
           Then(c, i) == IF Continues(bytes[i])
                         THEN Wrapped(c * CONTINUATION_BIT + Payload(bytes[i])) ELSE 0
           Step(f, i) == IF i = 0 \/ ~Continues(bytes[i]) THEN 0
                         ELSE Wrapped(f[i - 1] * CONTINUATION_BIT + Payload(bytes[i]))
           Defines(f) == f = [i \in 0..n |-> Step(f, i)]
           F == [x \in Int \X (1..n) |-> Then(x[1], x[2])]
           r == Carried(bytes)
<1>1. n \in Nat
  OBVIOUS
<1>2. \A i \in 1..n : bytes[i] \in Nat /\ i # 0 /\ i \in 0..n /\ i - 1 \in 0..n
  OBVIOUS
<1>3. ASSUME NEW c \in Int, NEW i \in 1..n PROVE Then(c, i) \in Int
  <2>1. bytes[i] \in Int
    BY <1>2
  <2>2. Payload(bytes[i]) \in Nat
    BY ONLY <2>1, LowType
  <2>3. c * CONTINUATION_BIT + Payload(bytes[i]) \in Int
    BY <2>2, Constants
  <2> QED BY <2>3, WrappedType
<1>4. F \in [Int \X (1..n) -> Int]
  <2>1. ASSUME NEW x \in Int \X (1..n) PROVE Then(x[1], x[2]) \in Int
    <3>1. x[1] \in Int /\ x[2] \in 1..n
      OBVIOUS
    <3> QED BY <1>3, <3>1
  <2> HIDE DEF Then
  <2> QED BY <2>1
<1>5. \A c \in Int, i \in 1..n : F[<<c, i>>] = Then(c, i)
  <2> HIDE DEF Then
  <2> QED OBVIOUS
<1>6. PICK g : g \in [0..n -> Int] /\ g[0] = 0 /\ \A i \in 1..n : g[i] = F[<<g[i - 1], i>>]
  <2> HIDE DEF F, n
  <2>1. CanRecur(Int, 0, n, F)
    BY <1>1, <1>4 DEF CanRecur
  <2>2. \E g : Recurs(g, Int, 0, n, F)
    BY ONLY <2>1, RecursionExists
  <2> QED BY <2>2 DEF Recurs
<1>7. Defines(g)
  <2>1. ASSUME NEW i \in 0..n PROVE g[i] = Step(g, i)
    <3>1. i = 0 \/ i \in 1..n
      BY <1>1
    <3>2. i \in 1..n => g[i] = Then(g[i - 1], i)
      BY <1>2, <1>5, <1>6
    <3> QED BY <1>2, <1>6, <3>1, <3>2
  <2> HIDE DEF Step
  <2> QED BY <1>6, <2>1
<1>8. Defines(r)
  <2>1. r = CHOOSE f : Defines(f)
    BY DEF Carried
  <2> HIDE DEF Defines
  <2> QED BY <1>7, <2>1
<1> HIDE DEF r, F
<1>9. r[0] = 0 /\ \A i \in 1..n : r[i] = Then(r[i - 1], i)
  <2>1. \A i \in 0..n : r[i] = Step(r, i)
    <3> HIDE DEF Step
    <3> QED BY <1>8
  <2> QED BY <1>1, <1>2, <2>1
<1>10. \A i \in 0..n : r[i] \in Int
  <2> DEFINE T == {i \in 0..n : r[i] \in Int}
  <2>1. 0 \in T
    BY <1>1, <1>9
  <2>2. \A i \in 0 .. n - 1 : i \in T => i + 1 \in T
    <3> TAKE i \in 0 .. n - 1
    <3>1. i + 1 \in 1..n /\ i + 1 \in 0..n /\ (i + 1) - 1 = i
      BY <1>1
    <3>2. r[i + 1] = Then(r[i], i + 1)
      BY <1>9, <3>1
    <3> HIDE DEF Then
    <3> QED BY <1>3, <3>1, <3>2
  <2> HIDE DEF T, n
  <2>3. \A i \in 0..n : i \in T
    BY ONLY <1>1, <2>1, <2>2, Upto
  <2> QED BY <2>3 DEF T
<1> QED
  <2>1. r \in [0..n -> Int]
    <3> HIDE DEF Step
    <3> QED BY <1>8, <1>10
  <2> QED BY <1>9, <2>1 DEF r

\* One step of ItemsTo.
Then(bytes, items, i) ==
    IF Continues(bytes[i]) THEN items
    ELSE items \o ItemsFrom(bytes[i], Carried(bytes)[i - 1])

\* .. and so for the items of the first bytes,
LEMMA ItemsToDefined ==
    ASSUME NEW bytes \in Seq(Nat)
    PROVE  /\ ItemsTo(bytes) \in [0 .. Len(bytes) -> Seq(Item)]
           /\ ItemsTo(bytes)[0] = << >>
           /\ \A i \in 1 .. Len(bytes) :
                 ItemsTo(bytes)[i] = Then(bytes, ItemsTo(bytes)[i - 1], i)
<1> DEFINE n == Len(bytes)
           Step(f, i) == IF i = 0 THEN << >> ELSE Then(bytes, f[i - 1], i)
           Defines(f) == f = [i \in 0..n |-> Step(f, i)]
           F == [x \in Seq(Item) \X (1..n) |-> Then(bytes, x[1], x[2])]
           r == ItemsTo(bytes)
<1>1. n \in Nat
  OBVIOUS
<1>2. \A i \in 1..n : bytes[i] \in Nat /\ i # 0 /\ i \in 0..n /\ i - 1 \in 0..n
  OBVIOUS
<1>3. ASSUME NEW c \in Seq(Item), NEW i \in 1..n PROVE Then(bytes, c, i) \in Seq(Item)
  <2>1. bytes[i] \in Nat /\ Carried(bytes)[i - 1] \in Int
    BY <1>2, CarriedDefined
  <2>2. ItemsFrom(bytes[i], Carried(bytes)[i - 1]) \in Seq(Item)
    BY ONLY <2>1, ItemsFromType
  <2>3. c \o ItemsFrom(bytes[i], Carried(bytes)[i - 1]) \in Seq(Item)
    BY ONLY <1>3, <2>2
  <2> QED BY ONLY <1>3, <2>3 DEF Then
<1>4. F \in [Seq(Item) \X (1..n) -> Seq(Item)]
  <2>1. ASSUME NEW x \in Seq(Item) \X (1..n) PROVE Then(bytes, x[1], x[2]) \in Seq(Item)
    <3>1. x[1] \in Seq(Item) /\ x[2] \in 1..n
      OBVIOUS
    <3> QED BY <1>3, <3>1
  <2> QED BY <2>1
<1>5. \A c \in Seq(Item), i \in 1..n : F[<<c, i>>] = Then(bytes, c, i)
  OBVIOUS
<1>6. PICK g : /\ g \in [0..n -> Seq(Item)] /\ g[0] = << >>
               /\ \A i \in 1..n : g[i] = F[<<g[i - 1], i>>]
  <2> HIDE DEF F, n
  <2>1. CanRecur(Seq(Item), << >>, n, F)
    BY <1>1, <1>4 DEF CanRecur
  <2>2. \E g : Recurs(g, Seq(Item), << >>, n, F)
    BY ONLY <2>1, RecursionExists
  <2> QED BY <2>2 DEF Recurs
<1>7. Defines(g)
  <2>1. ASSUME NEW i \in 0..n PROVE g[i] = Step(g, i)
    <3>1. i = 0 \/ i \in 1..n
      BY <1>1
    <3>2. i \in 1..n => g[i] = Then(bytes, g[i - 1], i)
      BY <1>2, <1>5, <1>6
    <3> QED BY <1>2, <1>6, <3>1, <3>2
  <2> HIDE DEF Step
  <2> QED BY <1>6, <2>1
<1>8. Defines(r)
  <2>1. r = CHOOSE f : Defines(f)
    BY DEF ItemsTo, Then
  <2> HIDE DEF Defines
  <2> QED BY <1>7, <2>1
<1> HIDE DEF r, F
<1>9. r[0] = << >> /\ \A i \in 1..n : r[i] = Then(bytes, r[i - 1], i)
  <2>1. \A i \in 0..n : r[i] = Step(r, i)
    <3> HIDE DEF Step
    <3> QED BY <1>8
  <2> QED BY <1>1, <1>2, <2>1
<1>10. \A i \in 0..n : r[i] \in Seq(Item)
  <2> DEFINE T == {i \in 0..n : r[i] \in Seq(Item)}
  <2>1. 0 \in T
    <3>1. << >> \in Seq(Item) /\ 0 \in 0..n
      BY <1>1
    <3> QED BY <1>9, <3>1
  <2>2. \A i \in 0 .. n - 1 : i \in T => i + 1 \in T
    <3> TAKE i \in 0 .. n - 1
    <3>1. i + 1 \in 1..n /\ i + 1 \in 0..n /\ (i + 1) - 1 = i
      BY <1>1
    <3>2. r[i + 1] = Then(bytes, r[i], i + 1)
      BY <1>9, <3>1
    <3> QED BY <1>3, <3>1, <3>2
  <2> HIDE DEF T, n
  <2>3. \A i \in 0..n : i \in T
    BY ONLY <1>1, <2>1, <2>2, Upto
  <2> QED BY <2>3 DEF T
<1> QED
  <2>1. r \in [0..n -> Seq(Item)]
    <3> HIDE DEF Step
    <3> QED BY <1>8, <1>10
  <2> QED BY <1>9, <2>1 DEF r

\* .. for how many they are,
LEMMA CountOfDefined ==
    ASSUME NEW bytes \in Seq(Nat)
    PROVE  /\ CountOf(bytes) \in [0 .. Len(bytes) -> Nat]
           /\ CountOf(bytes)[0] = 0
           /\ \A i \in 1 .. Len(bytes) :
                 CountOf(bytes)[i] = CountOf(bytes)[i - 1] + ItemsOf(bytes[i])
<1> DEFINE n == Len(bytes)
           Step(f, i) == IF i = 0 THEN 0 ELSE f[i - 1] + ItemsOf(bytes[i])
           Defines(f) == f = [i \in 0..n |-> Step(f, i)]
           F == [x \in Nat \X (1..n) |-> x[1] + ItemsOf(bytes[x[2]])]
           r == CountOf(bytes)
<1>1. n \in Nat
  OBVIOUS
<1>2. \A i \in 1..n : bytes[i] \in Nat /\ i # 0 /\ i \in 0..n /\ i - 1 \in 0..n
  OBVIOUS
<1>3. \A i \in 1..n : ItemsOf(bytes[i]) \in Nat
  <2> TAKE i \in 1..n
  <2>1. bytes[i] \in Int
    BY <1>2
  <2>2. Low(bytes[i]) \in Nat
    BY ONLY <2>1, LowType
  <2> QED BY <2>2 DEF ItemsOf
<1>4. F \in [Nat \X (1..n) -> Nat]
  <2>1. ASSUME NEW x \in Nat \X (1..n) PROVE x[1] + ItemsOf(bytes[x[2]]) \in Nat
    <3>1. x[1] \in Nat /\ x[2] \in 1..n
      OBVIOUS
    <3>2. ItemsOf(bytes[x[2]]) \in Nat
      BY <1>3, <3>1
    <3> QED BY <3>1, <3>2
  <2> QED BY <2>1
<1>5. \A c \in Nat, i \in 1..n : F[<<c, i>>] = c + ItemsOf(bytes[i])
  OBVIOUS
<1>6. PICK g : g \in [0..n -> Nat] /\ g[0] = 0 /\ \A i \in 1..n : g[i] = F[<<g[i - 1], i>>]
  <2> HIDE DEF F, n
  <2>1. CanRecur(Nat, 0, n, F)
    BY <1>1, <1>4 DEF CanRecur
  <2>2. \E g : Recurs(g, Nat, 0, n, F)
    BY ONLY <2>1, RecursionExists
  <2> QED BY <2>2 DEF Recurs
<1>7. Defines(g)
  <2>1. ASSUME NEW i \in 0..n PROVE g[i] = Step(g, i)
    <3>1. i = 0 \/ i \in 1..n
      BY <1>1
    <3>2. i \in 1..n => g[i] = g[i - 1] + ItemsOf(bytes[i])
      BY <1>2, <1>5, <1>6
    <3> QED BY <1>2, <1>6, <3>1, <3>2
  <2> HIDE DEF Step
  <2> QED BY <1>6, <2>1
<1>8. Defines(r)
  <2>1. r = CHOOSE f : Defines(f)
    BY DEF CountOf
  <2> HIDE DEF Defines
  <2> QED BY <1>7, <2>1
<1> HIDE DEF r, F
<1>9. r[0] = 0 /\ \A i \in 1..n : r[i] = r[i - 1] + ItemsOf(bytes[i])
  <2>1. \A i \in 0..n : r[i] = Step(r, i)
    <3> HIDE DEF Step
    <3> QED BY <1>8
  <2> QED BY <1>1, <1>2, <2>1
<1>10. \A i \in 0..n : r[i] \in Nat
  <2> DEFINE T == {i \in 0..n : r[i] \in Nat}
  <2>1. 0 \in T
    BY <1>1, <1>9
  <2>2. \A i \in 0 .. n - 1 : i \in T => i + 1 \in T
    <3> TAKE i \in 0 .. n - 1
    <3>1. i + 1 \in 1..n /\ i + 1 \in 0..n /\ (i + 1) - 1 = i
      BY <1>1
    <3>2. r[i + 1] = r[i] + ItemsOf(bytes[i + 1])
      BY <1>9, <3>1
    <3> QED BY <1>3, <3>1, <3>2
  <2> HIDE DEF T, n
  <2>3. \A i \in 0..n : i \in T
    BY ONLY <1>1, <2>1, <2>2, Upto
  <2> QED BY <2>3 DEF T
<1> QED
  <2>1. r \in [0..n -> Nat]
    <3> HIDE DEF Step
    <3> QED BY <1>8, <1>10
  <2> QED BY <1>9, <2>1 DEF r

\* .. and for what is left of a number.
LEMMA RestDefined ==
    ASSUME NEW n \in Nat
    PROVE  /\ Rest(n) \in [0..n -> Nat]
           /\ Rest(n)[0] = n
           /\ \A i \in 1..n : Rest(n)[i] = Rest(n)[i - 1] \div CONTINUATION_BIT
<1> DEFINE Step(f, i) == IF i = 0 THEN n ELSE f[i - 1] \div CONTINUATION_BIT
           Defines(f) == f = [i \in 0..n |-> Step(f, i)]
           F == [x \in Nat \X (1..n) |-> x[1] \div CONTINUATION_BIT]
           r == Rest(n)
<1>1. CONTINUATION_BIT \in Nat /\ CONTINUATION_BIT >= 1
  BY Constants
<1>2. \A i \in 1..n : i # 0 /\ i \in 0..n /\ i - 1 \in 0..n
  OBVIOUS
<1>3. \A c \in Nat : c \div CONTINUATION_BIT \in Nat
  BY <1>1
<1>4. F \in [Nat \X (1..n) -> Nat]
  BY <1>3
<1>5. \A c \in Nat, i \in 1..n : F[<<c, i>>] = c \div CONTINUATION_BIT
  OBVIOUS
<1>6. PICK g : g \in [0..n -> Nat] /\ g[0] = n /\ \A i \in 1..n : g[i] = F[<<g[i - 1], i>>]
  <2> HIDE DEF F
  <2>1. CanRecur(Nat, n, n, F)
    BY <1>4 DEF CanRecur
  <2>2. \E g : Recurs(g, Nat, n, n, F)
    BY ONLY <2>1, RecursionExists
  <2> QED BY <2>2 DEF Recurs
<1>7. Defines(g)
  <2>1. ASSUME NEW i \in 0..n PROVE g[i] = Step(g, i)
    <3>1. i = 0 \/ i \in 1..n
      OBVIOUS
    <3>2. i \in 1..n => g[i] = g[i - 1] \div CONTINUATION_BIT
      BY <1>2, <1>5, <1>6
    <3> QED BY <1>2, <1>6, <3>1, <3>2
  <2> HIDE DEF Step
  <2> QED BY <1>6, <2>1
<1>8. Defines(r)
  <2>1. r = CHOOSE f : Defines(f)
    BY DEF Rest
  <2> HIDE DEF Defines
  <2> QED BY <1>7, <2>1
<1> HIDE DEF r, F
<1>9. r[0] = n /\ \A i \in 1..n : r[i] = r[i - 1] \div CONTINUATION_BIT
  <2>1. \A i \in 0..n : r[i] = Step(r, i)
    <3> HIDE DEF Step
    <3> QED BY <1>8
  <2> QED BY <1>2, <2>1
<1>10. \A i \in 0..n : r[i] \in Nat
  <2> DEFINE T == {i \in 0..n : r[i] \in Nat}
  <2>1. 0 \in T
    BY <1>9
  <2>2. \A i \in 0 .. n - 1 : i \in T => i + 1 \in T
    <3> TAKE i \in 0 .. n - 1
    <3>1. i + 1 \in 1..n /\ i + 1 \in 0..n /\ (i + 1) - 1 = i
      OBVIOUS
    <3>2. r[i + 1] = r[i] \div CONTINUATION_BIT
      BY <1>9, <3>1
    <3> QED BY <1>3, <3>1, <3>2
  <2> HIDE DEF T
  <2>3. \A i \in 0..n : i \in T
    BY ONLY <2>1, <2>2, Upto
  <2> QED BY <2>3 DEF T
<1> QED
  <2>1. r \in [0..n -> Nat]
    <3> HIDE DEF Step
    <3> QED BY <1>8, <1>10
  <2> QED BY <1>9, <2>1 DEF r

-----------------------------------------------------------------------------
(* What a byte is                                                          *)

\* The first byte of a difference is told from the others.
LEMMA PlainByte ==
    ASSUME NEW c \in 0 .. SIGN_BIT - 1
    PROVE  /\ c \in Nat /\ ~Continues(c) /\ ~Special(c) /\ Low(c) = c /\ High(c) = 0
           /\ SIGN_BIT + c \in Nat /\ ~Continues(SIGN_BIT + c) /\ ~Special(SIGN_BIT + c)
           /\ Low(SIGN_BIT + c) = c /\ High(SIGN_BIT + c) = SIGN_BIT
<1>1. SIGN_BIT \in Nat /\ SIGN_BIT >= 1
  BY Constants
<1>2. c % SIGN_BIT = c /\ (SIGN_BIT + c) % SIGN_BIT = c
  BY <1>1
<1>3. c \div (2 * SIGN_BIT) = 0 /\ (SIGN_BIT + c) \div (2 * SIGN_BIT) = 0
  BY <1>1
<1>4. 0 % 2 = 0
  OBVIOUS
<1> QED
  BY <1>1, <1>2, <1>3, <1>4, Constants DEF Continues, Special, Low, High

\* So is a byte that counts gaps or zeros ..
LEMMA SpecialByte ==
    ASSUME NEW c \in 0 .. SIGN_BIT - 1
    PROVE  /\ ZERO_BITS + c \in Byte /\ ~Continues(ZERO_BITS + c) /\ Special(ZERO_BITS + c)
           /\ Low(ZERO_BITS + c) = c /\ High(ZERO_BITS + c) = ZERO_BITS
           /\ SKIP_BITS + c \in Byte /\ ~Continues(SKIP_BITS + c) /\ Special(SKIP_BITS + c)
           /\ Low(SKIP_BITS + c) = c /\ High(SKIP_BITS + c) = SKIP_BITS
<1>1. SIGN_BIT \in Nat /\ SIGN_BIT >= 1
  BY Constants
<1>2. (2 * SIGN_BIT + c) % SIGN_BIT = c /\ (3 * SIGN_BIT + c) % SIGN_BIT = c
  BY <1>1
<1>3. (2 * SIGN_BIT + c) \div (2 * SIGN_BIT) = 1 /\ (3 * SIGN_BIT + c) \div (2 * SIGN_BIT) = 1
  BY <1>1
<1>4. 1 % 2 = 1
  OBVIOUS
<1> QED
  BY <1>1, <1>2, <1>3, <1>4, Constants DEF Continues, Special, Low, High

\* .. and one in the middle of a difference.
LEMMA ContinuationByte ==
    ASSUME NEW c \in 0 .. CONTINUATION_BIT - 1
    PROVE  /\ CONTINUATION_BIT + c \in Byte /\ Continues(CONTINUATION_BIT + c)
           /\ Payload(CONTINUATION_BIT + c) = c
<1>1. CONTINUATION_BIT \in Nat /\ CONTINUATION_BIT >= 1
  BY Constants
<1>2. (CONTINUATION_BIT + c) % CONTINUATION_BIT = c
  BY <1>1
<1> QED
  BY <1>1, <1>2, Constants DEF Continues, Payload

\* A byte is a run of gaps or of zeros, a difference, or a part of one.
LEMMA ByteKinds ==
    ASSUME NEW byte \in Byte, ~Continues(byte)
    PROVE  /\ byte = High(byte) + Low(byte)
           /\ High(byte) \in {0, SIGN_BIT, ZERO_BITS, SKIP_BITS}
           /\ Special(byte) <=> High(byte) \in {ZERO_BITS, SKIP_BITS}
<1>1. SIGN_BIT \in Nat /\ SIGN_BIT >= 1 /\ byte \in Nat /\ byte < 4 * SIGN_BIT
  BY Constants DEF Continues
<1> DEFINE l == byte % SIGN_BIT
           q == byte \div SIGN_BIT
<1>2. byte = SIGN_BIT * q + l /\ l \in 0 .. SIGN_BIT - 1 /\ q \in Int
  BY <1>1, DivMod
<1>3. Low(byte) = l /\ High(byte) = byte - l
  BY DEF Low, High
<1> HIDE DEF l, q
<1>4. q >= 0 /\ q <= 3
  BY <1>1, <1>2
<1>5. byte = l \/ byte = SIGN_BIT + l \/ byte = ZERO_BITS + l \/ byte = SKIP_BITS + l
  <2>1. q = 0 \/ q = 1 \/ q = 2 \/ q = 3
    BY <1>2, <1>4
  <2> QED BY <1>1, <1>2, <2>1, Constants
<1>6. l \in 0 .. SIGN_BIT - 1
  BY <1>2
<1>7. byte \in Int /\ l \in Int /\ SIGN_BIT \in Nat /\ SIGN_BIT >= 1
      /\ ZERO_BITS = 2 * SIGN_BIT /\ SKIP_BITS = 3 * SIGN_BIT
  BY <1>1, <1>2, Constants
<1>8. CASE byte = l
  <2>1. ~Special(byte)
    BY ONLY <1>6, <1>8, PlainByte
  <2> QED BY <1>3, <1>7, <1>8, <2>1
<1>9. CASE byte = SIGN_BIT + l
  <2>1. ~Special(byte)
    BY ONLY <1>6, <1>9, PlainByte
  <2> QED BY <1>3, <1>7, <1>9, <2>1
<1>10. CASE byte = ZERO_BITS + l
  <2>1. Special(byte)
    BY ONLY <1>6, <1>10, SpecialByte
  <2> QED BY <1>3, <1>7, <1>10, <2>1
<1>11. CASE byte = SKIP_BITS + l
  <2>1. Special(byte)
    BY ONLY <1>6, <1>11, SpecialByte
  <2> QED BY <1>3, <1>7, <1>11, <2>1
<1> QED BY <1>5, <1>8, <1>9, <1>10, <1>11

-----------------------------------------------------------------------------
(* Reading bytes that are put together                                     *)

\* What is read from the first bytes depends on them only.
LEMMA SamePrefix ==
    ASSUME NEW a \in Seq(Nat), NEW b \in Seq(Nat), NEW m \in Nat,
           m <= Len(a), m <= Len(b), \A i \in 1..m : a[i] = b[i]
    PROVE  \A i \in 0..m : Carried(a)[i] = Carried(b)[i] /\ ItemsTo(a)[i] = ItemsTo(b)[i]
<1> DEFINE T == {i \in 0..m : Carried(a)[i] = Carried(b)[i] /\ ItemsTo(a)[i] = ItemsTo(b)[i]}
<1>1. 0 \in T
  BY CarriedDefined, ItemsToDefined
<1>2. \A i \in 0 .. m - 1 : i \in T => i + 1 \in T
  <2> SUFFICES ASSUME NEW i \in 0 .. m - 1, i \in T PROVE i + 1 \in T
    OBVIOUS
  <2> DEFINE p == i + 1
  <2>1. p \in 1..m /\ p \in 1..Len(a) /\ p \in 1..Len(b) /\ p - 1 = i /\ p \in 0..m
    OBVIOUS
  <2>2. a[p] = b[p]
    BY <2>1
  <2> HIDE DEF p
  <2>3. Carried(a)[p] = Carried(b)[p]
    BY <2>1, <2>2, CarriedDefined
  <2>4. ItemsTo(a)[p] = ItemsTo(b)[p]
    BY <2>1, <2>2, ItemsToDefined DEF Then
  <2> QED BY <2>1, <2>3, <2>4 DEF p
<1> HIDE DEF T
<1>3. \A i \in 0..m : i \in T
  BY ONLY <1>1, <1>2, Upto
<1> QED BY <1>3 DEF T

\* No difference goes on behind these bytes.
Whole(bytes) == Carried(bytes)[Len(bytes)] = 0

\* A deque that ends with no continuation byte is whole.
LEMMA WholeIf ==
    ASSUME NEW bytes \in Seq(Nat), bytes # << >> => ~Continues(bytes[Len(bytes)])
    PROVE  Whole(bytes)
<1>1. CASE bytes = << >>
  BY <1>1, CarriedDefined DEF Whole
<1>2. CASE bytes # << >>
  <2>1. Len(bytes) \in 1..Len(bytes)
    BY <1>2
  <2> QED BY <1>2, <2>1, CarriedDefined DEF Whole
<1> QED BY <1>1, <1>2

\* The iterator gives items.
LEMMA DeltasType ==
    ASSUME NEW bytes \in Seq(Nat)
    PROVE  Deltas(bytes) \in Seq(Item)
<1>1. Len(bytes) \in 0..Len(bytes)
  OBVIOUS
<1> QED BY <1>1, ItemsToDefined DEF Deltas

\* An empty deque has none.
LEMMA NoBytes == Deltas(<< >>) = << >> /\ Whole(<< >>)
<1>1. << >> \in Seq(Nat) /\ Len(<< >>) = 0
  OBVIOUS
<1> QED BY <1>1, CarriedDefined, ItemsToDefined DEF Deltas, Whole

LEMMA ItemsAssociate == \A x, y, z \in Seq(Item) : (x \o y) \o z = x \o (y \o z)
BY ConcatAssociative

\* The items of bytes put together are the items put together.
LEMMA JoinedItems ==
    ASSUME NEW a \in Seq(Nat), NEW b \in Seq(Nat), Whole(a)
    PROVE  /\ a \o b \in Seq(Nat)
           /\ Deltas(a \o b) = Deltas(a) \o Deltas(b)
           /\ Whole(b) => Whole(a \o b)
<1> DEFINE c == a \o b
           l == Len(a)
           n == Len(b)
<1>1. c \in Seq(Nat) /\ Len(c) = l + n /\ l \in Nat /\ n \in Nat
  OBVIOUS
<1>2. \A i \in 1..l : c[i] = a[i]
  OBVIOUS
<1>3. \A i \in 1..n : c[l + i] = b[i]
  OBVIOUS
<1> HIDE DEF c
<1>4. Carried(c)[l] = 0 /\ ItemsTo(c)[l] = Deltas(a)
  <2>1. l \in Nat /\ l <= Len(a) /\ l <= Len(c) /\ l \in 0..l
    BY <1>1
  <2> HIDE DEF l
  <2>2. \A i \in 0..l : Carried(a)[i] = Carried(c)[i] /\ ItemsTo(a)[i] = ItemsTo(c)[i]
    <3>1. a \in Seq(Nat) /\ c \in Seq(Nat)
      BY <1>1
    <3>2. \A i \in 1..l : a[i] = c[i]
      BY <1>2
    <3> QED BY ONLY <2>1, <3>1, <3>2, SamePrefix
  <2> USE DEF l
  <2> QED BY <2>2 DEF Whole, Deltas
<1>5. Deltas(a) \in Seq(Item)
  BY DeltasType
<1> DEFINE T == {i \in 0..n : /\ Carried(c)[l + i] = Carried(b)[i]
                              /\ ItemsTo(c)[l + i] = Deltas(a) \o ItemsTo(b)[i]}
<1>6. 0 \in T
  <2>1. Carried(b)[0] = 0 /\ ItemsTo(b)[0] = << >>
    BY CarriedDefined, ItemsToDefined
  <2>2. Deltas(a) \o << >> = Deltas(a)
    BY <1>5
  <2>3. l + 0 = l /\ 0 \in 0..n
    BY <1>1
  <2> QED BY <1>4, <2>1, <2>2, <2>3
<1>7. \A i \in 0 .. n - 1 : i \in T => i + 1 \in T
  <2> SUFFICES ASSUME NEW i \in 0 .. n - 1, i \in T PROVE i + 1 \in T
    OBVIOUS
  <2> DEFINE p == i + 1
             q == l + p
  <2>1. p \in 1..n /\ p \in 0..n /\ p - 1 = i /\ i \in 0..n
    BY <1>1
  <2>2. q \in 1..Len(c) /\ q - 1 = l + i
    BY <1>1
  <2>3. c[q] = b[p]
    BY <1>3, <2>1
  <2>4. Carried(c)[l + i] = Carried(b)[i] /\ ItemsTo(c)[l + i] = Deltas(a) \o ItemsTo(b)[i]
    OBVIOUS
  <2>5. b[p] \in Nat /\ Carried(b)[i] \in Int /\ ItemsTo(b)[i] \in Seq(Item)
    <3>1. b[p] \in Nat
      BY <2>1
    <3>2. Carried(b) \in [0..n -> Int] /\ ItemsTo(b) \in [0..n -> Seq(Item)]
      BY CarriedDefined, ItemsToDefined
    <3> QED BY <2>1, <3>1, <3>2
  <2> HIDE DEF p, q, T
  <2>6. Carried(c)[q] = Carried(b)[p]
    BY <1>1, <2>1, <2>2, <2>3, <2>4, CarriedDefined
  <2>7. ItemsTo(c)[q] = Then(c, ItemsTo(c)[q - 1], q) /\ ItemsTo(b)[p] = Then(b, ItemsTo(b)[p - 1], p)
    BY <1>1, <2>1, <2>2, ItemsToDefined
  <2>8. ItemsTo(c)[q] = Deltas(a) \o ItemsTo(b)[p]
    <3>1. CASE Continues(b[p])
      BY <2>1, <2>2, <2>3, <2>4, <2>7, <3>1 DEF Then
    <3>2. CASE ~Continues(b[p])
      <4> DEFINE more == ItemsFrom(b[p], Carried(b)[i])
      <4>1. more \in Seq(Item)
        BY <2>5, ItemsFromType
      <4>2. ItemsTo(c)[q] = (Deltas(a) \o ItemsTo(b)[i]) \o more
        BY <2>1, <2>2, <2>3, <2>4, <2>7, <3>2 DEF Then
      <4>3. ItemsTo(b)[p] = ItemsTo(b)[i] \o more
        BY <2>1, <2>7, <3>2 DEF Then
      <4> HIDE DEF more
      <4>4. (Deltas(a) \o ItemsTo(b)[i]) \o more = Deltas(a) \o (ItemsTo(b)[i] \o more)
        <5>1. ItemsTo(b)[i] \in Seq(Item)
          BY <2>5
        <5> QED BY ONLY <1>5, <4>1, <5>1, ItemsAssociate
      <4> QED BY <4>2, <4>3, <4>4
    <3> QED BY <3>1, <3>2
  <2> QED BY <2>1, <2>6, <2>8 DEF p, q, T
<1> HIDE DEF T, n
<1>8. \A i \in 0..n : i \in T
  <2>1. n \in Nat
    BY <1>1
  <2> QED BY ONLY <2>1, <1>6, <1>7, Upto
<1>9. n \in 0..n
  BY <1>1
<1>10. Carried(c)[Len(c)] = Carried(b)[n] /\ ItemsTo(c)[Len(c)] = Deltas(a) \o ItemsTo(b)[n]
  BY <1>1, <1>8, <1>9 DEF T
<1> QED BY <1>1, <1>10 DEF Whole, Deltas, c, n

\* The items of a byte by itself.
LEMMA OneByte ==
    ASSUME NEW byte \in Nat, ~Continues(byte)
    PROVE  /\ <<byte>> \in Seq(Nat) /\ Whole(<<byte>>)
           /\ Deltas(<<byte>>) = ItemsFrom(byte, 0)
<1> DEFINE b == <<byte>>
<1>1. b \in Seq(Nat) /\ Len(b) = 1 /\ b[1] = byte
  OBVIOUS
<1> HIDE DEF b
<1>2. Whole(b)
  BY <1>1, WholeIf
<1>3. 1 \in 1..Len(b) /\ 1 - 1 = 0
  BY <1>1
<1>4. ItemsTo(b)[1] = Then(b, ItemsTo(b)[0], 1) /\ ItemsTo(b)[0] = << >> /\ Carried(b)[0] = 0
  BY <1>1, <1>3, ItemsToDefined, CarriedDefined
<1>5. ItemsTo(b)[1] = << >> \o ItemsFrom(byte, 0)
  BY <1>1, <1>3, <1>4 DEF Then
<1>6. ItemsFrom(byte, 0) \in Seq(Item)
  BY ItemsFromType
<1>7. << >> \o ItemsFrom(byte, 0) = ItemsFrom(byte, 0)
  BY <1>6
<1> QED BY <1>1, <1>2, <1>5, <1>7 DEF Deltas, b

-----------------------------------------------------------------------------
(* Gaps and zeros                                                          *)

\* Two runs of an item, one behind the other, are one run.
LEMMA RepeatJoins ==
    ASSUME NEW item \in Item, NEW m \in Nat, NEW n \in Nat
    PROVE  Repeat(item, m) \o Repeat(item, n) = Repeat(item, m + n)
<1> DEFINE a == Repeat(item, m)
           b == Repeat(item, n)
           c == Repeat(item, m + n)
<1>1. a \in Seq(Item) /\ Len(a) = m /\ \A i \in 1..m : a[i] = item
  BY RepeatType
<1>2. b \in Seq(Item) /\ Len(b) = n /\ \A i \in 1..n : b[i] = item
  BY RepeatType
<1>3. c \in Seq(Item) /\ Len(c) = m + n /\ \A i \in 1 .. m + n : c[i] = item
  <2>1. m + n \in Nat
    OBVIOUS
  <2> QED BY <2>1, RepeatType
<1> HIDE DEF a, b, c
<1>4. /\ a \o b \in Seq(Item) /\ Len(a \o b) = m + n
      /\ \A i \in 1 .. m + n : (a \o b)[i] = IF i <= Len(a) THEN a[i] ELSE b[i - Len(a)]
  BY <1>1, <1>2, ConcatProperties
<1>5. \A i \in 1 .. m + n : (a \o b)[i] = item
  <2> TAKE i \in 1 .. m + n
  <2>1. i \in 1..m \/ (i > m /\ i - m \in 1..n)
    OBVIOUS
  <2> QED BY <1>1, <1>2, <1>4, <2>1
<1>6. \A i \in 1 .. Len(c) : (a \o b)[i] = c[i]
  BY <1>3, <1>5
<1>7. a \o b = c
  BY <1>3, <1>4, <1>6
<1> QED BY <1>7 DEF a, b, c

\* A byte that counts stands for that many gaps or zeros.
LEMMA SpecialItems ==
    ASSUME NEW c \in 0 .. SIGN_BIT - 1, NEW delta
    PROVE  /\ ItemsFrom(ZERO_BITS + c, delta) = Repeat(0, c)
           /\ ItemsFrom(SKIP_BITS + c, delta) = Repeat(Gap, c)
<1>1. ZERO_BITS # SKIP_BITS
  BY Constants
<1> QED BY <1>1, SpecialByte DEF ItemsFrom

\* As many bytes full of gaps.
FullBytes(q) == [i \in 1..q |-> SKIP_BITS + SPECIAL_MASK]

\* Full bytes stand for as many gaps each as a byte can count.
LEMMA FullBytesItems ==
    ASSUME NEW q \in Nat
    PROVE  /\ FullBytes(q) \in Seq(Byte) /\ Whole(FullBytes(q))
           /\ Deltas(FullBytes(q)) = Repeat(Gap, SPECIAL_MASK * q)
<1> DEFINE f == FullBytes(q)
           full == SKIP_BITS + SPECIAL_MASK
<1>1. SPECIAL_MASK \in 0 .. SIGN_BIT - 1 /\ SPECIAL_MASK \in Nat
  BY Constants
<1>2. full \in Byte /\ ~Continues(full) /\ \A delta : ItemsFrom(full, delta) = Repeat(Gap, SPECIAL_MASK)
  BY <1>1, SpecialByte, SpecialItems
<1> HIDE DEF full
<1>3. f = [i \in 1..q |-> full]
  BY DEF FullBytes, full
<1> HIDE DEF f
<1>4. f \in Seq(Byte) /\ Len(f) = q /\ \A i \in 1..q : f[i] = full
  BY <1>2, <1>3
<1>5. f \in Seq(Nat)
  BY <1>2, <1>3, Constants
<1>6. Whole(f)
  <2>1. f # << >> => Len(f) \in 1..q
    BY <1>4
  <2> QED BY <1>2, <1>4, <1>5, <2>1, WholeIf
<1> DEFINE T == {i \in 0..q : ItemsTo(f)[i] = Repeat(Gap, SPECIAL_MASK * i)}
<1>7. 0 \in T
  <2>1. SPECIAL_MASK * 0 = 0
    BY <1>1
  <2>2. Repeat(Gap, 0) = << >>
    BY DEF Repeat
  <2> QED BY <1>5, <2>1, <2>2, ItemsToDefined
<1>8. \A i \in 0 .. q - 1 : i \in T => i + 1 \in T
  <2> SUFFICES ASSUME NEW i \in 0 .. q - 1, i \in T PROVE i + 1 \in T
    OBVIOUS
  <2> DEFINE p == i + 1
  <2>1. p \in 1..q /\ p \in 0..q /\ p - 1 = i /\ i \in Nat
    OBVIOUS
  <2>2. SPECIAL_MASK * i \in Nat /\ SPECIAL_MASK * i + SPECIAL_MASK = SPECIAL_MASK * p
    BY <1>1
  <2>3. ItemsTo(f)[i] = Repeat(Gap, SPECIAL_MASK * i)
    OBVIOUS
  <2> HIDE DEF p
  <2>4. ItemsTo(f)[p] = Then(f, ItemsTo(f)[i], p)
    BY <1>4, <1>5, <2>1, ItemsToDefined
  <2>5. ItemsTo(f)[p] = Repeat(Gap, SPECIAL_MASK * i) \o Repeat(Gap, SPECIAL_MASK)
    BY <1>2, <1>4, <2>1, <2>3, <2>4 DEF Then
  <2>6. Gap \in Item
    BY DEF Item
  <2>7. ItemsTo(f)[p] = Repeat(Gap, SPECIAL_MASK * i + SPECIAL_MASK)
    BY <1>1, <2>2, <2>5, <2>6, RepeatJoins
  <2> QED BY <2>1, <2>2, <2>7 DEF p
<1> HIDE DEF T
<1>9. \A i \in 0..q : i \in T
  BY ONLY <1>7, <1>8, Upto
<1>10. q \in 0..q
  OBVIOUS
<1> QED BY <1>4, <1>6, <1>9, <1>10 DEF T, Deltas, f

\* The bytes push writes for `count' gaps are read as so many gaps.
LEMMA SkipBytesItems ==
    ASSUME NEW count \in Nat
    PROVE  /\ SkipBytes(count) \in Seq(Byte) /\ Whole(SkipBytes(count))
           /\ Deltas(SkipBytes(count)) = Repeat(Gap, count)
<1> DEFINE rest == count % SPECIAL_MASK
           q == count \div SPECIAL_MASK
<1>1. SPECIAL_MASK \in Nat /\ SPECIAL_MASK >= 1 /\ SIGN_BIT = SPECIAL_MASK + 1
  BY Constants
<1>2. count = SPECIAL_MASK * q + rest /\ rest \in 0 .. SPECIAL_MASK - 1 /\ q \in Nat
  BY <1>1
<1>3. rest \in 0 .. SIGN_BIT - 1 /\ rest \in Nat
  BY <1>1, <1>2
<1> DEFINE front == IF rest = 0 THEN << >> ELSE <<SKIP_BITS + rest>>
           full == FullBytes(q)
<1>4. SkipBytes(count) = front \o full
  BY DEF SkipBytes, FullBytes
<1> HIDE DEF rest, q
<1>5. full \in Seq(Byte) /\ Whole(full) /\ Deltas(full) = Repeat(Gap, SPECIAL_MASK * q)
  BY <1>2, FullBytesItems
<1>6. front \in Seq(Byte) /\ Whole(front) /\ Deltas(front) = Repeat(Gap, rest)
  <2>1. CASE rest = 0
    BY <2>1, NoBytes DEF Repeat
  <2>2. CASE rest # 0
    <3> DEFINE b == SKIP_BITS + rest
    <3>1. b \in Byte /\ b \in Nat /\ ~Continues(b) /\ ItemsFrom(b, 0) = Repeat(Gap, rest)
      BY <1>3, SpecialByte, SpecialItems, Constants
    <3>2. front = <<b>>
      BY <2>2
    <3> HIDE DEF b
    <3> QED BY <3>1, <3>2, OneByte
  <2> QED BY <2>1, <2>2
<1> HIDE DEF front, full
<1>7. front \in Seq(Nat) /\ full \in Seq(Nat)
  BY <1>5, <1>6, Constants
<1>8. /\ Deltas(front \o full) = Deltas(front) \o Deltas(full)
      /\ Whole(front \o full)
  BY <1>5, <1>6, <1>7, JoinedItems
<1>9. Repeat(Gap, rest) \o Repeat(Gap, SPECIAL_MASK * q) = Repeat(Gap, count)
  <2>1. SPECIAL_MASK * q \in Nat /\ rest + SPECIAL_MASK * q = count
    BY <1>1, <1>2
  <2>2. Gap \in Item
    BY DEF Item
  <2>3. Repeat(Gap, rest) \o Repeat(Gap, SPECIAL_MASK * q) = Repeat(Gap, rest + SPECIAL_MASK * q)
    BY ONLY <1>3, <2>1, <2>2, RepeatJoins
  <2> QED BY <2>1, <2>3
<1>10. front \o full \in Seq(Byte)
  BY <1>5, <1>6
<1> QED BY <1>4, <1>5, <1>6, <1>8, <1>9, <1>10

\* A byte in front of a deque puts its items in front of the others.
LEMMA FrontByte ==
    ASSUME NEW x \in Byte, NEW b \in Seq(Byte), ~Continues(x)
    PROVE  /\ <<x>> \o b \in Seq(Byte) /\ b \in Seq(Nat)
           /\ Deltas(<<x>> \o b) = ItemsFrom(x, 0) \o Deltas(b)
<1>1. x \in Nat /\ b \in Seq(Nat)
  BY Constants
<1>2. <<x>> \in Seq(Nat) /\ Whole(<<x>>) /\ Deltas(<<x>>) = ItemsFrom(x, 0)
  BY <1>1, OneByte
<1>3. <<x>> \o b \in Seq(Byte)
  OBVIOUS
<1> QED BY <1>1, <1>2, <1>3, JoinedItems

\* A difference of zero, counted in the first byte or in a new one, is read as one.
LEMMA PushZeroItems ==
    ASSUME NEW deque \in Seq(Byte)
    PROVE  /\ PushZero(deque) \in Seq(Byte)
           /\ Deltas(PushZero(deque)) = <<0>> \o Deltas(deque)
<1>1. SIGN_BIT \in Nat /\ SIGN_BIT >= 2 /\ SPECIAL_MASK = SIGN_BIT - 1
  BY Constants
<1>2. CASE deque # << >> /\ High(deque[1]) = ZERO_BITS /\ Low(deque[1]) < SPECIAL_MASK
  <2> DEFINE c == Low(deque[1])
             rest == Tail(deque)
  <2>1. deque[1] \in Byte /\ rest \in Seq(Byte) /\ deque = <<deque[1]>> \o rest
    BY <1>2
  <2>2. c \in Nat /\ c \in 0 .. SIGN_BIT - 1 /\ c + 1 \in 0 .. SIGN_BIT - 1
    <3>1. deque[1] \in Int
      BY <2>1, Constants
    <3>2. c \in Nat
      BY ONLY <3>1, LowType
    <3> QED BY <1>1, <1>2, <3>2
  <2>3. deque[1] = ZERO_BITS + c
    <3>1. deque[1] \in Int
      BY <2>1, Constants
    <3> QED BY <1>2, <2>2, <3>1, Constants DEF High
  <2>4. PushZero(deque) = [deque EXCEPT ![1] = deque[1] + 1]
    BY <1>2 DEF PushZero
  <2> DEFINE x == deque[1] + 1
  <2>5. [deque EXCEPT ![1] = x] = <<x>> \o rest
    <3> HIDE DEF x
    <3>1. Len(deque) \in Nat /\ Len(deque) >= 1 /\ Len(rest) = Len(deque) - 1
      BY <1>2
    <3>2. \A i \in 1..Len(rest) : rest[i] = deque[i + 1]
      BY <1>2, <3>1
    <3>3. [deque EXCEPT ![1] = x] = [i \in 1..Len(deque) |-> IF i = 1 THEN x ELSE deque[i]]
      BY <3>1
    <3>4. <<x>> \o rest = [i \in 1..Len(deque) |-> IF i = 1 THEN x ELSE deque[i]]
      BY <2>1, <3>1, <3>2
    <3> QED BY <3>3, <3>4
  <2>6. x = ZERO_BITS + (c + 1)
    BY <2>2, <2>3, Constants
  <2> HIDE DEF c, x, rest
  <2>7. /\ x \in Byte /\ ~Continues(x) /\ ItemsFrom(x, 0) = Repeat(0, c + 1)
        /\ ~Continues(deque[1]) /\ ItemsFrom(deque[1], 0) = Repeat(0, c)
    BY <2>2, <2>3, <2>6, SpecialByte, SpecialItems
  <2>8. Repeat(0, c + 1) = <<0>> \o Repeat(0, c)
    <3>1. 0 \in Item /\ 1 \in Nat /\ 1 + c = c + 1
      BY <2>2 DEF Item
    <3>2. Repeat(0, 1) \o Repeat(0, c) = Repeat(0, 1 + c)
      BY ONLY <2>2, <3>1, RepeatJoins
    <3>3. Repeat(0, 1) = <<0>>
      BY DEF Repeat
    <3> QED BY <3>1, <3>2, <3>3
  <2>9. Deltas(<<x>> \o rest) = Repeat(0, c + 1) \o Deltas(rest) /\ <<x>> \o rest \in Seq(Byte)
    BY <2>1, <2>7, FrontByte
  <2>10. Deltas(deque) = Repeat(0, c) \o Deltas(rest)
    BY <2>1, <2>7, FrontByte
  <2>11. (<<0>> \o Repeat(0, c)) \o Deltas(rest) = <<0>> \o (Repeat(0, c) \o Deltas(rest))
    <3>1. rest \in Seq(Nat) /\ 0 \in Item
      BY <2>1, Constants DEF Item
    <3>2. <<0>> \in Seq(Item) /\ Repeat(0, c) \in Seq(Item) /\ Deltas(rest) \in Seq(Item)
      BY <2>2, <3>1, RepeatType, DeltasType
    <3> QED BY ONLY <3>2, ItemsAssociate
  <2> QED BY <2>4, <2>5, <2>8, <2>9, <2>10, <2>11 DEF x
<1>3. CASE ~(deque # << >> /\ High(deque[1]) = ZERO_BITS /\ Low(deque[1]) < SPECIAL_MASK)
  <2> DEFINE x == ZERO_BITS + 1
  <2>1. PushZero(deque) = <<x>> \o deque
    BY <1>3 DEF PushZero
  <2>2. 1 \in 0 .. SIGN_BIT - 1
    BY <1>1
  <2>3. x \in Byte /\ ~Continues(x) /\ ItemsFrom(x, 0) = Repeat(0, 1)
    BY <2>2, SpecialByte, SpecialItems
  <2>4. Repeat(0, 1) = <<0>>
    BY DEF Repeat
  <2> HIDE DEF x
  <2> QED BY <2>1, <2>3, <2>4, FrontByte
<1> QED BY <1>2, <1>3

-----------------------------------------------------------------------------
(* Differences                                                             *)

\* What fits the type stays what it is, and nothing is above its largest number.
LEMMA WrappedFits ==
    /\ \A n \in 0..Largest : Wrapped(n) = n
    /\ \A n \in Int : Wrapped(n) \in Int /\ Wrapped(n) <= Largest
<1>1. Half \in Nat /\ Half >= 1
  BY Constants
<1>2. CASE IntKind = "counter"
  <2>1. \A n \in 0 .. 2 * Half - 1 : n % (2 * Half) = n
    BY <1>1
  <2>2. \A n \in Int : n % (2 * Half) \in 0 .. 2 * Half - 1
    BY <1>1
  <2> QED BY <1>1, <1>2, <2>1, <2>2 DEF Wrapped, Largest
<1>3. CASE IntKind # "counter"
  <2>1. \A n \in 0 .. Half - 1 : (n + Half) % (2 * Half) = n + Half
    BY <1>1
  <2>2. \A n \in Int : (n + Half) % (2 * Half) \in 0 .. 2 * Half - 1
    BY <1>1
  <2> QED BY <1>1, <1>3, <2>1, <2>2 DEF Wrapped, Largest
<1> QED BY <1>2, <1>3

\* The bytes of a number are as many as it takes.
LEMMA RestEnds ==
    ASSUME NEW n \in Nat, n # 0
    PROVE  \E l \in 1..n : Rest(n)[l] = 0 /\ \A j \in 0 .. l - 1 : Rest(n)[j] # 0
<1> DEFINE r == Rest(n)
<1>1. r \in [0..n -> Nat] /\ r[0] = n /\ \A i \in 1..n : r[i] = r[i - 1] \div CONTINUATION_BIT
  BY RestDefined
<1>2. CONTINUATION_BIT \in Nat /\ CONTINUATION_BIT >= 2
  BY Constants
<1> HIDE DEF r
<1> DEFINE T == {i \in 0..n : r[i] <= n - i}
<1>3. 0 \in T
  BY <1>1
<1>4. \A i \in 0 .. n - 1 : i \in T => i + 1 \in T
  <2> SUFFICES ASSUME NEW i \in 0 .. n - 1, i \in T PROVE i + 1 \in T
    OBVIOUS
  <2>1. r[i] \in Nat /\ r[i] <= n - i
    BY <1>1
  <2>2. r[i + 1] = r[i] \div CONTINUATION_BIT
    BY <1>1
  <2>3. r[i] = 0 => r[i] \div CONTINUATION_BIT = 0
    BY <1>2
  <2>4. r[i] # 0 => r[i] \div CONTINUATION_BIT <= r[i] - 1
    <3>1. \A x \in Nat : x # 0 => x \div CONTINUATION_BIT <= x - 1
      BY <1>2
    <3> QED BY <2>1, <3>1
  <2>5. r[i + 1] \in Nat
    BY <1>1
  <2>6. r[i + 1] <= n - (i + 1)
    BY <2>1, <2>2, <2>3, <2>4, <2>5
  <2> QED BY <2>6
<1> HIDE DEF T
<1>5. \A i \in 0..n : i \in T
  BY ONLY <1>3, <1>4, Upto
<1>6. r[n] = 0
  <2>1. n \in T
    BY <1>5
  <2> QED BY <1>1, <2>1 DEF T
<1> DEFINE U == {i \in 0..n : r[i] = 0}
<1>7. U \in SUBSET Nat /\ U # {}
  BY <1>6
<1> HIDE DEF U
<1>8. PICK l \in U : \A j \in U : l <= j
  BY ONLY <1>7, LeastExists
<1>9. l \in 1..n /\ r[l] = 0
  BY <1>1, <1>8 DEF U
<1>10. \A j \in 0 .. l - 1 : r[j] # 0
  BY <1>8, <1>9 DEF U
<1> QED BY <1>9, <1>10 DEF r

\* A number is what goes into a byte and what is left of it.
LEMMA PayloadRest ==
    \A x \in Int : (x \div CONTINUATION_BIT) * CONTINUATION_BIT + Payload(x) = x
<1>1. CONTINUATION_BIT \in Nat /\ CONTINUATION_BIT >= 1
  BY Constants
<1>2. \A x \in Int : (x \div CONTINUATION_BIT) * CONTINUATION_BIT + (x % CONTINUATION_BIT) = x
  BY <1>1
<1> QED BY <1>2 DEF Payload

\* Continuation bytes tell no items, and add up to the number they are of.
LEMMA ContinuationBytesItems ==
    ASSUME NEW part \in Int
    PROVE  LET c == ContinuationBytes(part) IN
           /\ c \in Seq(Byte)
           /\ Deltas(c) = << >>
           /\ part \in 0..Largest => Carried(c)[Len(c)] = part
           /\ part < 0 => c = << >>
<1> DEFINE c == ContinuationBytes(part)
<1>1. CASE part <= 0
  <2>1. c = << >>
    BY <1>1 DEF ContinuationBytes
  <2>2. Carried(<< >>)[0] = 0
    <3>1. << >> \in Seq(Nat)
      OBVIOUS
    <3> QED BY ONLY <3>1, CarriedDefined
  <2> HIDE DEF c
  <2>3. c \in Seq(Byte) /\ Len(c) = 0
    BY <2>1
  <2> QED BY <1>1, <2>1, <2>2, <2>3, NoBytes DEF c
<1>2. CASE part > 0
  <2> DEFINE r == Rest(part)
             Ends(i) == r[i] = 0 /\ \A j \in 0 .. i - 1 : r[j] # 0
             l == CHOOSE i \in 0..part : Ends(i)
  <2>1. part \in Nat /\ part # 0
    BY <1>2
  <2>2. r \in [0..part -> Nat] /\ r[0] = part
        /\ \A i \in 1..part : r[i] = r[i - 1] \div CONTINUATION_BIT
    BY <2>1, RestDefined
  <2>3. \E i \in 1..part : Ends(i)
    BY <2>1, RestEnds
  <2>4. l \in 0..part /\ Ends(l)
    <3>1. \E i \in 0..part : Ends(i)
      BY <2>1, <2>3
    <3> HIDE DEF Ends
    <3> QED BY <3>1
  <2>5. c = [i \in 1..l |-> CONTINUATION_BIT + Payload(r[l - i])]
    BY <1>2 DEF ContinuationBytes
  <2>6. r[l] = 0
    BY <2>4
  <2> HIDE DEF r, l, c
  <2>7. \A i \in 1..l : l - i \in 0..part /\ r[l - i] \in Nat
    <3>1. \A i \in 1..l : l - i \in 0..part
      BY <2>1, <2>4
    <3> QED BY <2>2, <3>1
  <2>8. \A i \in 1..l : /\ CONTINUATION_BIT + Payload(r[l - i]) \in Byte
                        /\ Continues(CONTINUATION_BIT + Payload(r[l - i]))
                        /\ Payload(CONTINUATION_BIT + Payload(r[l - i])) = Payload(r[l - i])
    <3> TAKE i \in 1..l
    <3>1. r[l - i] \in Int
      BY <2>7
    <3>2. Payload(r[l - i]) \in 0 .. CONTINUATION_BIT - 1
      BY ONLY <3>1, LowType
    <3> QED BY ONLY <3>2, ContinuationByte
  <2>9. c \in Seq(Byte) /\ Len(c) = l /\ l \in Nat
        /\ \A i \in 1..l : c[i] = CONTINUATION_BIT + Payload(r[l - i])
    BY <2>4, <2>5, <2>8
  <2>10. c \in Seq(Nat)
    BY <2>9, Constants
  <2>11. \A i \in 1..l : Continues(c[i]) /\ Payload(c[i]) = Payload(r[l - i])
    BY <2>8, <2>9
  <2>12. Deltas(c) = << >>
    <3> DEFINE T == {i \in 0..l : ItemsTo(c)[i] = << >>}
    <3>1. 0 \in T
      BY <2>9, <2>10, ItemsToDefined
    <3>2. \A i \in 0 .. l - 1 : i \in T => i + 1 \in T
      <4> TAKE i \in 0 .. l - 1
      <4>1. i + 1 \in 1..l /\ (i + 1) - 1 = i /\ i + 1 \in 0..l
        BY <2>9
      <4>2. ItemsTo(c)[i + 1] = Then(c, ItemsTo(c)[(i + 1) - 1], i + 1)
        BY <2>9, <2>10, <4>1, ItemsToDefined
      <4> QED BY <2>11, <4>1, <4>2 DEF Then
    <3> HIDE DEF T
    <3>3. \A i \in 0..l : i \in T
      <4>1. l \in Nat
        BY <2>9
      <4> QED BY ONLY <3>1, <3>2, <4>1, Upto
    <3> QED BY <2>9, <3>3 DEF T, Deltas
  <2>13. ASSUME part <= Largest PROVE Carried(c)[l] = part
    <3>1. \A i \in 0..part : r[i] \in 0..Largest
      <4> DEFINE T == {i \in 0..part : r[i] <= part}
      <4>1. 0 \in T
        BY <2>1, <2>2
      <4>2. \A i \in 0 .. part - 1 : i \in T => i + 1 \in T
        <5> TAKE i \in 0 .. part - 1
        <5>1. r[i] \in Nat /\ r[i + 1] = r[i] \div CONTINUATION_BIT
          BY <2>1, <2>2
        <5>2. r[i] \div CONTINUATION_BIT <= r[i]
          <6>1. CONTINUATION_BIT \in Nat /\ CONTINUATION_BIT >= 1
            BY Constants
          <6>2. \A x \in Nat : x \div CONTINUATION_BIT <= x /\ x \div CONTINUATION_BIT \in Nat
            BY <6>1
          <6> QED BY <5>1, <6>2
        <5>3. r[i + 1] \in Nat /\ i + 1 \in 0..part
          BY <2>1, <2>2
        <5> QED BY <2>1, <5>1, <5>2, <5>3
      <4> HIDE DEF T
      <4>3. \A i \in 0..part : i \in T
        BY ONLY <2>1, <4>1, <4>2, Upto
      <4>4. Largest \in Int
        BY Constants DEF Largest
      <4> QED BY <2>2, <2>13, <4>3, <4>4 DEF T
    <3> DEFINE T == {i \in 0..l : Carried(c)[i] = r[l - i]}
    <3>2. 0 \in T
      <4>1. l - 0 = l /\ 0 \in 0..l
        BY <2>9
      <4>2. Carried(c)[0] = 0
        BY <2>10, CarriedDefined
      <4> QED BY <2>6, <4>1, <4>2
    <3>3. \A i \in 0 .. l - 1 : i \in T => i + 1 \in T
      <4> SUFFICES ASSUME NEW i \in 0 .. l - 1, i \in T PROVE i + 1 \in T
        OBVIOUS
      <4> DEFINE p == i + 1
                 m == l - p
      <4>1. p \in 1..l /\ p - 1 = i /\ p \in 0..l /\ p \in 1..Len(c)
        BY <2>9
      <4>2. m \in 0..part /\ l - i \in 1..part /\ (l - i) - 1 = m
        BY <2>4
      <4>3. r[l - i] = r[m] \div CONTINUATION_BIT /\ r[m] \in Nat /\ r[m] \in 0..Largest
        BY <2>2, <3>1, <4>2
      <4>4. Carried(c)[i] = r[l - i]
        OBVIOUS
      <4> HIDE DEF p, m, T
      <4>5. Carried(c)[p] = Wrapped(Carried(c)[p - 1] * CONTINUATION_BIT + Payload(c[p]))
        BY <2>10, <2>11, <4>1, CarriedDefined
      <4>6. Payload(c[p]) = Payload(r[m])
        BY <2>11, <4>1 DEF m
      <4>7. (r[m] \div CONTINUATION_BIT) * CONTINUATION_BIT + Payload(r[m]) = r[m]
        <5>1. r[m] \in Int
          BY <4>3
        <5> QED BY ONLY <5>1, PayloadRest
      <4>8. Carried(c)[p] = Wrapped(r[m])
        BY <4>1, <4>3, <4>4, <4>5, <4>6, <4>7
      <4>9. Wrapped(r[m]) = r[m]
        BY <4>3, WrappedFits
      <4> QED BY <4>1, <4>8, <4>9 DEF T, p, m
    <3> HIDE DEF T
    <3>4. \A i \in 0..l : i \in T
      <4>1. l \in Nat
        BY <2>9
      <4> QED BY ONLY <3>2, <3>3, <4>1, Upto
    <3>5. l \in T /\ l - l = 0
      BY <2>9, <3>4
    <3> QED BY <2>2, <3>5 DEF T
  <2> QED BY <1>2, <2>9, <2>12, <2>13 DEF c
<1> QED BY <1>1, <1>2

\* The bytes of a difference are read as it, if it is not one that overflowed;
\* and as one difference anyhow.
LEMMA DifferenceItems ==
    ASSUME NEW delta \in Int, delta # 0, delta <= Largest, NEW sign \in {0, SIGN_BIT}
    PROVE  LET b == Append(ContinuationBytes(delta \div SIGN_BIT), sign + Low(delta)) IN
           /\ b \in Seq(Byte) /\ Whole(b)
           /\ \E d \in Int : /\ Deltas(b) = <<d>>
                             /\ delta > 0 => d = IF sign = SIGN_BIT THEN -delta ELSE delta
<1> DEFINE part == delta \div SIGN_BIT
           c == ContinuationBytes(part)
           x == sign + Low(delta)
           n == Len(c)
           b == Append(c, x)
           carry == Carried(c)[n]
           low == Low(delta)
<1>1. SIGN_BIT \in Nat /\ SIGN_BIT >= 2
  BY Constants
<1>2. part \in Int /\ low \in 0 .. SIGN_BIT - 1 /\ delta = part * SIGN_BIT + low
  BY <1>1 DEF Low
<1> HIDE DEF part, low
<1>3. /\ c \in Seq(Byte) /\ Deltas(c) = << >>
      /\ part \in 0..Largest => carry = part
  BY <1>2, ContinuationBytesItems
<1> HIDE DEF c
<1>4. x \in Byte /\ ~Continues(x) /\ ~Special(x) /\ Low(x) = low
      /\ (High(x) = SIGN_BIT <=> sign = SIGN_BIT)
  <2>1. x = low \/ x = SIGN_BIT + low
    BY <1>2 DEF low
  <2>2. sign = 0 => x = low
    BY <1>2 DEF low
  <2>3. sign = SIGN_BIT => x = SIGN_BIT + low
    BY <1>2 DEF low
  <2>4. ~Continues(low) /\ ~Special(low) /\ Low(low) = low /\ High(low) = 0
    BY ONLY <1>2, PlainByte
  <2>5. /\ ~Continues(SIGN_BIT + low) /\ ~Special(SIGN_BIT + low)
        /\ Low(SIGN_BIT + low) = low /\ High(SIGN_BIT + low) = SIGN_BIT
    BY ONLY <1>2, PlainByte
  <2>6. low \in Byte /\ SIGN_BIT + low \in Byte
    BY <1>1, <1>2, Constants
  <2> HIDE DEF x
  <2> QED BY <1>1, <2>1, <2>2, <2>3, <2>4, <2>5, <2>6
<1> HIDE DEF x
<1>5. b \in Seq(Byte) /\ Len(b) = n + 1 /\ n \in Nat /\ b[n + 1] = x /\ \A i \in 1..n : b[i] = c[i]
  BY <1>3, <1>4
<1> HIDE DEF b
<1>6. b \in Seq(Nat) /\ c \in Seq(Nat)
  BY <1>3, <1>5, Constants
<1>7. Whole(b)
  BY <1>4, <1>5, <1>6, WholeIf
<1>8. Carried(b)[n] = carry /\ ItemsTo(b)[n] = << >>
  <2>1. n \in Nat /\ n <= Len(c) /\ n <= Len(b) /\ n \in 0..n
    BY <1>5
  <2>2. \A i \in 0..n : Carried(b)[i] = Carried(c)[i] /\ ItemsTo(b)[i] = ItemsTo(c)[i]
    <3>1. \A i \in 1..n : b[i] = c[i]
      BY <1>5
    <3> HIDE DEF n
    <3> QED BY ONLY <1>6, <2>1, <3>1, SamePrefix
  <2> QED BY <1>3, <2>1, <2>2 DEF Deltas
<1>9. carry \in Int
  <2>1. Carried(c) \in [0..n -> Int] /\ n \in 0..n
    BY <1>5, <1>6, CarriedDefined
  <2> QED BY <2>1
<1> HIDE DEF carry
<1> DEFINE by == Wrapped(carry * SIGN_BIT + low)
           d == IF High(x) = SIGN_BIT THEN -by ELSE by
<1>10. by \in Int
  <2>1. carry * SIGN_BIT + low \in Int
    BY <1>1, <1>2, <1>9
  <2> QED BY <2>1, WrappedType
<1>11. ItemsFrom(x, carry) = <<d>>
  BY <1>4 DEF ItemsFrom
<1>12. Deltas(b) = <<d>>
  <2>1. n + 1 \in 1..Len(b) /\ (n + 1) - 1 = n
    BY <1>5
  <2>2. ItemsTo(b)[n + 1] = Then(b, ItemsTo(b)[n], n + 1)
    BY <1>6, <2>1, ItemsToDefined
  <2>3. ItemsTo(b)[n + 1] = << >> \o <<d>>
    BY <1>4, <1>5, <1>8, <1>11, <2>1, <2>2 DEF Then
  <2> HIDE DEF d
  <2> QED BY <1>5, <2>3 DEF Deltas
<1>13. ASSUME delta > 0 PROVE by = delta
  <2>1. part \in 0..Largest /\ delta \in 0..Largest
    <3>1. Largest \in Int
      BY Constants DEF Largest
    <3>2. part >= 0
      BY <1>1, <1>2, <1>13
    <3>3. part <= delta
      <4>1. \A y \in Nat : y <= y * SIGN_BIT
        BY <1>1
      <4>2. part * SIGN_BIT \in Int /\ part <= part * SIGN_BIT
        BY <1>1, <1>2, <3>2, <4>1
      <4> QED BY <1>2, <4>2
    <3> QED BY <1>2, <1>13, <3>1, <3>2, <3>3
  <2>2. carry * SIGN_BIT + low = delta
    BY <1>2, <1>3, <2>1
  <2> QED BY <2>1, <2>2, WrappedFits
<1> HIDE DEF by
<1>14. d \in Int /\ (delta > 0 => d = IF sign = SIGN_BIT THEN -delta ELSE delta)
  BY <1>4, <1>10, <1>13
<1> HIDE DEF d
<1>15. /\ b \in Seq(Byte) /\ Whole(b)
       /\ \E dd \in Int : /\ Deltas(b) = <<dd>>
                          /\ delta > 0 => dd = IF sign = SIGN_BIT THEN -delta ELSE delta
  BY <1>5, <1>7, <1>12, <1>14
<1> QED BY <1>15 DEF b, c, x, part, low

\* The difference fits the type of the metric.
Fits(old, new) == IF new >= old THEN new - old <= Largest ELSE old - new <= Largest

\* What BytesPush puts in front reads as a difference and the gaps behind it.
LEMMA BytesPushItems ==
    ASSUME NEW deque \in Seq(Byte), NEW old \in Int, NEW new \in Int, NEW ageDiff \in Nat \ {0}
    PROVE  /\ BytesPush(deque, old, new, ageDiff) \in Seq(Byte)
           /\ \E d \in Int :
                 /\ Deltas(BytesPush(deque, old, new, ageDiff))
                      = (<<d>> \o Repeat(Gap, ageDiff - 1)) \o Deltas(deque)
                 /\ Fits(old, new) => d = new - old
<1> DEFINE skipped == SkipBytes(ageDiff - 1) \o deque
           gaps == Repeat(Gap, ageDiff - 1)
           exact == IF old > new THEN old - new ELSE new - old
           delta == Wrapped(exact)
           sign == IF old > new THEN SIGN_BIT ELSE 0
           pushed == BytesPush(deque, old, new, ageDiff)
<1>1. ageDiff - 1 \in Nat /\ ageDiff # 0
  OBVIOUS
<1>2. /\ SkipBytes(ageDiff - 1) \in Seq(Byte) /\ Whole(SkipBytes(ageDiff - 1))
      /\ Deltas(SkipBytes(ageDiff - 1)) = gaps
  BY <1>1, SkipBytesItems
<1>3. SkipBytes(ageDiff - 1) \in Seq(Nat) /\ deque \in Seq(Nat)
  BY <1>2, Constants
<1>4. skipped \in Seq(Byte) /\ skipped \in Seq(Nat) /\ Deltas(skipped) = gaps \o Deltas(deque)
  <2>1. skipped \in Seq(Byte)
    BY <1>2
  <2> QED BY <1>2, <1>3, <2>1, JoinedItems
<1>5. gaps \in Seq(Item) /\ Deltas(deque) \in Seq(Item)
  <2>1. Gap \in Item
    BY DEF Item
  <2> QED BY <1>1, <1>3, <2>1, RepeatType, DeltasType
<1> HIDE DEF skipped, gaps
<1>6. exact \in Nat /\ (Fits(old, new) <=> exact <= Largest)
  BY DEF Fits
<1>7. delta \in Int /\ delta <= Largest /\ (exact \in 0..Largest => delta = exact)
  <2> HIDE DEF exact
  <2> QED BY <1>6, WrappedFits
<1>8. Fits(old, new) => exact \in 0..Largest
  <2>1. Largest \in Int
    BY Constants DEF Largest
  <2> QED BY <1>6, <2>1
<1>9. sign \in {0, SIGN_BIT} /\ (sign = SIGN_BIT <=> old > new)
  BY Constants
<1>10. pushed = IF delta = 0 THEN PushZero(skipped)
                ELSE Append(ContinuationBytes(delta \div SIGN_BIT), sign + Low(delta)) \o skipped
  BY <1>1 DEF BytesPush, skipped
<1>11. Fits(old, new) => delta = exact
  BY <1>7, <1>8
<1>12. new - old = IF old > new THEN - exact ELSE exact
  OBVIOUS
<1>13. exact >= 0 /\ (old > new => exact > 0)
  OBVIOUS
<1> HIDE DEF pushed, delta, sign, exact
<1>14. \A d \in Int : <<d>> \o (gaps \o Deltas(deque)) = (<<d>> \o gaps) \o Deltas(deque)
  <2> TAKE d \in Int
  <2>1. <<d>> \in Seq(Item)
    BY DEF Item
  <2>2. gaps \in Seq(Item) /\ Deltas(deque) \in Seq(Item)
    BY <1>5
  <2> QED BY ONLY <2>1, <2>2, ItemsAssociate
<1>15. \E d \in Int : /\ pushed \in Seq(Byte)
                      /\ Deltas(pushed) = <<d>> \o (gaps \o Deltas(deque))
                      /\ Fits(old, new) => d = new - old
  <2>1. CASE delta = 0
    <3>1. pushed \in Seq(Byte) /\ Deltas(pushed) = <<0>> \o (gaps \o Deltas(deque))
      BY <1>4, <1>10, <2>1, PushZeroItems
    <3>2. Fits(old, new) => 0 = new - old
      BY <1>6, <1>11, <1>12, <2>1
    <3> WITNESS 0 \in Int
    <3> QED BY <3>1, <3>2
  <2>2. CASE delta # 0
    <3> DEFINE b == Append(ContinuationBytes(delta \div SIGN_BIT), sign + Low(delta))
    <3>1. /\ b \in Seq(Byte) /\ Whole(b)
          /\ \E d \in Int : /\ Deltas(b) = <<d>>
                            /\ delta > 0 => d = IF sign = SIGN_BIT THEN -delta ELSE delta
      <4>1. delta \in Int /\ delta <= Largest
        BY <1>7
      <4> QED BY ONLY <1>9, <2>2, <4>1, DifferenceItems
    <3>2. pushed = b \o skipped
      BY <1>10, <2>2
    <3> HIDE DEF b
    <3>3. PICK d \in Int : /\ Deltas(b) = <<d>>
                           /\ delta > 0 => d = IF sign = SIGN_BIT THEN -delta ELSE delta
      BY <3>1
    <3>4. b \in Seq(Nat)
      BY <3>1, Constants
    <3>5. Deltas(b \o skipped) = Deltas(b) \o Deltas(skipped)
      BY ONLY <1>4, <3>1, <3>4, JoinedItems
    <3>6. b \o skipped \in Seq(Byte)
      BY <1>4, <3>1
    <3>7. ASSUME Fits(old, new) PROVE d = new - old
      <4>1. delta = exact /\ exact \in Nat
        BY <1>6, <1>11, <3>7
      <4>2. delta > 0
        BY <2>2, <4>1
      <4> QED BY <1>9, <1>12, <3>3, <4>1, <4>2
    <3> QED BY <1>4, <3>2, <3>3, <3>5, <3>6, <3>7
  <2> QED BY <2>1, <2>2
<1> QED BY <1>14, <1>15 DEF pushed, gaps

-----------------------------------------------------------------------------
(* Truncation                                                              *)

\* _truncate_bytes counts as many items in a byte as the iterator gives.
LEMMA ItemsFromLength ==
    ASSUME NEW byte \in Nat, NEW delta \in Int
    PROVE  Len(ItemsFrom(byte, delta)) = IF Special(byte) THEN Low(byte) ELSE 1
<1>1. Low(byte) \in Nat
  BY LowType
<1>2. CASE Special(byte)
  <2>1. (IF High(byte) = SKIP_BITS THEN Gap ELSE 0) \in Item
    BY DEF Item
  <2> QED BY <1>1, <1>2, <2>1, RepeatType DEF ItemsFrom
<1>3. CASE ~Special(byte)
  BY <1>3 DEF ItemsFrom
<1> QED BY <1>2, <1>3

\* The counts are those of the items, and the items of more bytes begin with
\* those of fewer.
LEMMA ItemsGrow ==
    ASSUME NEW bytes \in Seq(Nat), NEW i \in 1 .. Len(bytes)
    PROVE  LET before == ItemsTo(bytes)[i - 1]
               after  == ItemsTo(bytes)[i]
               more   == IF Continues(bytes[i]) THEN << >>
                         ELSE ItemsFrom(bytes[i], Carried(bytes)[i - 1])
           IN  /\ before \in Seq(Item) /\ more \in Seq(Item) /\ after = before \o more
               /\ Len(after) = Len(before) + ItemsOf(bytes[i])
<1> DEFINE before == ItemsTo(bytes)[i - 1]
           after == ItemsTo(bytes)[i]
           delta == Carried(bytes)[i - 1]
           more == IF Continues(bytes[i]) THEN << >> ELSE ItemsFrom(bytes[i], delta)
<1>1. i - 1 \in 0..Len(bytes) /\ bytes[i] \in Nat
  OBVIOUS
<1>2. before \in Seq(Item) /\ delta \in Int
  BY <1>1, ItemsToDefined, CarriedDefined
<1>3. after = Then(bytes, before, i)
  BY ItemsToDefined
<1> HIDE DEF before, after, delta
<1>4. ItemsFrom(bytes[i], delta) \in Seq(Item)
      /\ Len(ItemsFrom(bytes[i], delta)) = IF Special(bytes[i]) THEN Low(bytes[i]) ELSE 1
  <2>1. bytes[i] \in Nat
    BY <1>1
  <2>2. delta \in Int
    BY <1>2
  <2> QED BY ONLY <2>1, <2>2, ItemsFromType, ItemsFromLength
<1>5. more \in Seq(Item) /\ Len(more) = ItemsOf(bytes[i])
  BY <1>4 DEF ItemsOf
<1>6. after = before \o more
  <2>1. CASE Continues(bytes[i])
    <3>1. before \o << >> = before
      BY <1>2, ConcatEmptySeq
    <3> QED BY <1>3, <2>1, <3>1 DEF Then
  <2>2. CASE ~Continues(bytes[i])
    BY <1>3, <2>2 DEF Then, delta
  <2> QED BY <2>1, <2>2
<1> HIDE DEF more
<1>7. Len(before \o more) = Len(before) + Len(more)
  BY <1>2, <1>5, ConcatProperties
<1> QED BY <1>2, <1>5, <1>6, <1>7 DEF before, after, more, delta

\* So it counts as many in the first bytes as are read from them.
LEMMA CountIsLength ==
    ASSUME NEW bytes \in Seq(Nat)
    PROVE  \A i \in 0 .. Len(bytes) : CountOf(bytes)[i] = Len(ItemsTo(bytes)[i])
<1> DEFINE n == Len(bytes)
           T == {i \in 0..n : CountOf(bytes)[i] = Len(ItemsTo(bytes)[i])}
<1>1. n \in Nat
  OBVIOUS
<1>2. 0 \in T
  <2>1. ItemsTo(bytes)[0] = << >> /\ CountOf(bytes)[0] = 0
    BY ItemsToDefined, CountOfDefined
  <2> QED BY <1>1, <2>1
<1>3. \A i \in 0 .. n - 1 : i \in T => i + 1 \in T
  <2> TAKE i \in 0 .. n - 1
  <2> DEFINE p == i + 1
  <2>1. p \in 1..Len(bytes) /\ p \in 0..n /\ p - 1 = i
    BY <1>1
  <2> HIDE DEF p
  <2>2. CountOf(bytes)[p] = CountOf(bytes)[i] + ItemsOf(bytes[p])
    BY <2>1, CountOfDefined
  <2>3. Len(ItemsTo(bytes)[p]) = Len(ItemsTo(bytes)[i]) + ItemsOf(bytes[p])
    BY <2>1, ItemsGrow
  <2> QED BY <2>1, <2>2, <2>3 DEF p
<1> HIDE DEF T, n
<1>4. \A i \in 0..n : i \in T
  BY ONLY <1>1, <1>2, <1>3, Upto
<1> QED BY <1>4 DEF T, n

\* The items of the first bytes are the first items.
LEMMA ItemsBegin ==
    ASSUME NEW bytes \in Seq(Nat), NEW m \in 0 .. Len(bytes)
    PROVE  /\ ItemsTo(bytes)[m] \in Seq(Item)
           /\ Len(ItemsTo(bytes)[m]) <= Len(Deltas(bytes))
           /\ \A k \in 1 .. Len(ItemsTo(bytes)[m]) : Deltas(bytes)[k] = ItemsTo(bytes)[m][k]
<1> DEFINE first == ItemsTo(bytes)[m]
           l == Len(first)
           n == Len(bytes) - m
           T == {i \in 0..n : /\ l <= Len(ItemsTo(bytes)[m + i])
                              /\ \A k \in 1..l : ItemsTo(bytes)[m + i][k] = first[k]}
<1>1. n \in Nat /\ m \in Nat /\ m + 0 = m /\ m + n = Len(bytes)
  OBVIOUS
<1>2. first \in Seq(Item)
  BY ItemsToDefined
<1> HIDE DEF first
<1>3. l \in Nat
  BY <1>2
<1> HIDE DEF n, l
<1>4. 0 \in T
  BY <1>1, <1>3 DEF first, l
<1>5. \A i \in 0 .. n - 1 : i \in T => i + 1 \in T
  <2> SUFFICES ASSUME NEW i \in 0 .. n - 1, i \in T PROVE i + 1 \in T
    OBVIOUS
  <2> DEFINE p == m + (i + 1)
             before == ItemsTo(bytes)[m + i]
             after == ItemsTo(bytes)[p]
             more == IF Continues(bytes[p]) THEN << >>
                     ELSE ItemsFrom(bytes[p], Carried(bytes)[p - 1])
  <2>1. p \in 1..Len(bytes) /\ p - 1 = m + i /\ i + 1 \in 0..n
    BY <1>1 DEF n
  <2>2. l <= Len(before) /\ \A k \in 1..l : before[k] = first[k]
    OBVIOUS
  <2> HIDE DEF p, T
  <2>3. before \in Seq(Item) /\ more \in Seq(Item) /\ after = before \o more
    BY <2>1, ItemsGrow
  <2> HIDE DEF before, after, more
  <2>4. Len(after) = Len(before) + Len(more) /\ Len(before) \in Nat /\ Len(more) \in Nat
        /\ \A k \in 1 .. Len(before) : after[k] = before[k]
    BY <2>3
  <2>5. l <= Len(after) /\ \A k \in 1..l : after[k] = first[k]
    BY <1>3, <2>2, <2>4
  <2> QED BY <2>1, <2>5 DEF T, after, p
<1> HIDE DEF T
<1>6. \A i \in 0..n : i \in T
  <2>1. n \in Nat
    BY <1>1
  <2> QED BY ONLY <1>4, <1>5, <2>1, Upto
<1>7. n \in T
  BY <1>1, <1>6
<1> QED BY <1>1, <1>2, <1>7 DEF T, Deltas, first, l

\* A cut drops the items after the limit, and changes none of the others.
LEMMA BytesTruncateItems ==
    ASSUME NEW deque \in Seq(Byte), NEW limit \in Nat
    PROVE  /\ BytesTruncate(deque, limit) \in Seq(Byte)
           /\ Deltas(BytesTruncate(deque, limit)) = AbstractMetric!Take(Deltas(deque), limit)
<1> DEFINE n == Len(deque)
           d == Deltas(deque)
           count == CountOf(deque)
           items == ItemsTo(deque)
           enough == {i \in 1..n : count[i] >= limit}
           last == CHOOSE i \in enough : \A j \in enough : i <= j
           cut == BytesTruncate(deque, limit)
<1>1. deque \in Seq(Nat) /\ n \in Nat /\ \A i \in 1..n : deque[i] \in Byte /\ deque[i] \in Nat
  BY Constants
<1>2. d \in Seq(Item) /\ Len(d) \in Nat
  BY <1>1, DeltasType
<1>3. \A i \in 0..n : count[i] = Len(items[i]) /\ items[i] \in Seq(Item) /\ count[i] \in Nat
  <2>1. deque \in Seq(Nat)
    BY <1>1
  <2>2. \A i \in 0..n : count[i] = Len(items[i])
    BY ONLY <2>1, CountIsLength
  <2>3. items \in [0..n -> Seq(Item)]
    BY ONLY <2>1, ItemsToDefined
  <2>4. count \in [0..n -> Nat]
    BY ONLY <2>1, CountOfDefined
  <2> HIDE DEF count, items
  <2> QED BY <2>2, <2>3, <2>4
<1>4. d = items[n]
  BY DEF Deltas
<1>5. cut = IF limit = 0 THEN << >>
            ELSE IF enough = {} THEN deque
            ELSE [SubSeq(deque, 1, last) EXCEPT ![last] = @ - (count[last] - limit)]
  BY DEF BytesTruncate
<1> DEFINE taken == AbstractMetric!Take(d, limit)
<1>6. taken = SubSeq(d, 1, IF limit <= Len(d) THEN limit ELSE Len(d))
  BY DEF AbstractMetric!Take, AbstractMetric!Smaller
<1> HIDE DEF d, count, items, cut, taken
<1>7. CASE limit = 0
  <2>1. taken = << >>
    BY <1>2, <1>6, <1>7
  <2> QED BY <1>5, <1>7, <2>1, NoBytes DEF cut, taken, d
<1>8. CASE limit # 0 /\ enough = {}
  <2>1. Len(d) < limit
    <3>1. CASE n = 0
      <4>1. count[0] = 0
        BY <1>1, CountOfDefined DEF count
      <4> QED BY <1>3, <1>4, <1>8, <3>1, <4>1
    <3>2. CASE n # 0
      <4>1. n \in 1..n /\ n \in 0..n
        BY <1>1, <3>2
      <4>2. ~(count[n] >= limit)
        BY <1>8, <4>1
      <4> QED BY <1>3, <1>4, <4>1, <4>2
    <3> QED BY <3>1, <3>2
  <2>2. taken = d
    BY <1>2, <1>6, <2>1
  <2> QED BY <1>5, <1>8, <2>2 DEF cut, taken, d
<1>9. CASE limit # 0 /\ enough # {}
  <2>1. last \in enough /\ \A j \in enough : last <= j
    <3>1. enough \in SUBSET Nat
      OBVIOUS
    <3> HIDE DEF enough
    <3>2. \E i \in enough : \A j \in enough : i <= j
      BY ONLY <1>9, <3>1, LeastExists
    <3> QED BY <3>2
  <2> HIDE DEF last
  <2>2. last \in 1..n /\ count[last] >= limit /\ last - 1 \in 0..n /\ last \in 0..n
    BY <2>1
  <2>3. count[last - 1] < limit
    <3>1. CASE last = 1
      <4>1. count[0] = 0
        BY <1>1, CountOfDefined DEF count
      <4>2. last - 1 = 0
        BY <3>1
      <4> QED BY <1>9, <4>1, <4>2
    <3>2. CASE last # 1
      <4>1. last - 1 \in 1..n /\ ~(last <= last - 1)
        BY <2>2, <3>2
      <4>2. last - 1 \notin enough
        BY <2>1, <4>1
      <4> QED BY <1>3, <2>2, <4>1, <4>2
    <3> QED BY <3>1, <3>2
  <2> DEFINE byte == deque[last]
             over == count[last] - limit
             head == items[last - 1]
             delta == Carried(deque)[last - 1]
             new == byte - over
  <2>4. cut = [SubSeq(deque, 1, last) EXCEPT ![last] = @ - over]
    BY <1>5, <1>9
  <2> HIDE DEF enough
  <2>5. byte \in Byte /\ byte \in Nat /\ delta \in Int /\ over \in Nat
    <3>1. delta \in Int
      BY <1>1, <2>2, CarriedDefined
    <3> QED BY <1>1, <1>3, <2>2, <3>1
  <2>6. head \in Seq(Item) /\ Len(head) = count[last - 1] /\ Len(head) \in Nat
    BY <1>3, <2>2
  <2>7. count[last] = count[last - 1] + ItemsOf(byte)
    BY <1>1, <2>2, CountOfDefined DEF count
  <2>8. ~Continues(byte)
    <3>1. Continues(byte) => ItemsOf(byte) = 0
      BY DEF ItemsOf
    <3> QED BY <1>3, <2>2, <2>3, <2>7, <3>1
  <2>9. items[last] = head \o ItemsFrom(byte, delta)
    <3>1. items[last] = Then(deque, items[last - 1], last)
      BY <1>1, <2>2, ItemsToDefined DEF items
    <3> QED BY <2>8, <3>1 DEF Then
  <2>10. SubSeq(deque, 1, last)[last] = byte /\ SubSeq(deque, 1, last) \in Seq(Byte)
         /\ Len(SubSeq(deque, 1, last)) = last /\ \A i \in 1 .. last - 1 : SubSeq(deque, 1, last)[i] = deque[i]
    BY <2>2
  <2> HIDE DEF byte, over, delta, head
  \* What is left of the last byte.
  <2>11. /\ new \in Byte /\ ~Continues(new) /\ ItemsFrom(new, delta) \in Seq(Item)
         /\ Len(ItemsFrom(new, delta)) = limit - Len(head)
         /\ Len(ItemsFrom(new, delta)) <= Len(ItemsFrom(byte, delta))
         /\ \A k \in 1 .. Len(ItemsFrom(new, delta)) :
               ItemsFrom(new, delta)[k] = ItemsFrom(byte, delta)[k]
    <3>1. CASE Special(byte)
      <4> DEFINE low == Low(byte)
                 c == low - over
      <4>1. low \in 0 .. SIGN_BIT - 1 /\ low \in Nat /\ SIGN_BIT \in Nat
        <5>1. byte \in Int
          BY <2>5
        <5> QED BY ONLY <5>1, LowType, Constants
      <4>2. ItemsOf(byte) = low
        BY <2>8, <3>1 DEF ItemsOf
      <4> HIDE DEF low
      <4>3. c = limit - Len(head) /\ c \in 0 .. SIGN_BIT - 1 /\ c \in Nat /\ c <= low
        <5> DEFINE c1 == count[last - 1]
                   c2 == count[last]
                   h == Len(head)
        <5>1. c1 \in Nat /\ c2 \in Nat /\ h = c1
          BY <1>3, <2>2, <2>6
        <5>2. c2 = c1 + low /\ c2 >= limit /\ c1 < limit /\ over = c2 - limit
          BY <2>2, <2>3, <2>7, <4>2 DEF over
        <5> HIDE DEF c1, c2, h
        <5>3. c = limit - h /\ c \in 0 .. SIGN_BIT - 1 /\ c \in Nat /\ c <= low
          BY <4>1, <5>1, <5>2
        <5> QED BY <5>3 DEF h
      <4>4. byte = High(byte) + low /\ High(byte) \in {ZERO_BITS, SKIP_BITS}
        BY <2>5, <2>8, <3>1, ByteKinds DEF low
      <4>5. new = High(byte) + c
        <5>1. High(byte) \in Int
          BY <4>4, Constants
        <5> QED BY <2>5, <4>1, <4>4, <5>1
      <4> HIDE DEF new, c
      <4> DEFINE item == IF High(byte) = SKIP_BITS THEN Gap ELSE 0
      <4>6. item \in Item
        BY DEF Item
      <4>7. ItemsFrom(byte, delta) = Repeat(item, low)
        BY <3>1 DEF ItemsFrom, low
      <4>8. new \in Byte /\ ~Continues(new) /\ ItemsFrom(new, delta) = Repeat(item, c)
        <5>1. /\ ZERO_BITS + c \in Byte /\ ~Continues(ZERO_BITS + c)
              /\ SKIP_BITS + c \in Byte /\ ~Continues(SKIP_BITS + c)
          BY ONLY <4>3, SpecialByte
        <5>2. /\ ItemsFrom(ZERO_BITS + c, delta) = Repeat(0, c)
              /\ ItemsFrom(SKIP_BITS + c, delta) = Repeat(Gap, c)
          BY ONLY <4>3, SpecialItems
        <5>3. ZERO_BITS # SKIP_BITS
          BY Constants
        <5> QED BY <4>4, <4>5, <5>1, <5>2, <5>3
      <4> HIDE DEF item
      <4>9. Repeat(item, c) \in Seq(Item) /\ Len(Repeat(item, c)) = c
            /\ \A k \in 1..c : Repeat(item, c)[k] = item
        BY <4>3, <4>6, RepeatType
      <4>10. Len(Repeat(item, low)) = low /\ \A k \in 1..low : Repeat(item, low)[k] = item
        BY <4>1, <4>6, RepeatType
      <4>11. \A k \in 1..c : k \in 1..low
        BY <4>1, <4>3
      <4> QED BY <4>3, <4>7, <4>8, <4>9, <4>10, <4>11
    <3>2. CASE ~Special(byte)
      <4>1. ItemsOf(byte) = 1
        BY <2>8, <3>2 DEF ItemsOf
      <4>2. over = 0 /\ limit - Len(head) = 1
        BY <1>3, <2>2, <2>3, <2>5, <2>6, <2>7, <4>1 DEF over
      <4>3. new = byte
        BY <2>5, <4>2
      <4>4. ItemsFrom(byte, delta) \in Seq(Item) /\ Len(ItemsFrom(byte, delta)) = 1
        <5>1. byte \in Nat
          BY <2>5
        <5>2. delta \in Int
          BY <2>5
        <5>3. Len(ItemsFrom(byte, delta)) = IF Special(byte) THEN Low(byte) ELSE 1
          BY ONLY <5>1, <5>2, ItemsFromLength
        <5>4. ItemsFrom(byte, delta) \in Seq(Item)
          BY ONLY <5>1, <5>2, ItemsFromType
        <5> QED BY <3>2, <5>3, <5>4
      <4> HIDE DEF new
      <4> QED BY <2>5, <2>8, <4>2, <4>3, <4>4
    <3> QED BY <3>1, <3>2
  <2> HIDE DEF new
  <2>12. cut \in Seq(Byte) /\ Len(cut) = last /\ cut[last] = new
         /\ \A i \in 1 .. last - 1 : cut[i] = deque[i]
    <3>1. cut = [i \in 1..last |-> IF i = last THEN new ELSE SubSeq(deque, 1, last)[i]]
      <4> DEFINE s == SubSeq(deque, 1, last)
      <4>1. s \in Seq(Byte) /\ Len(s) = last /\ s[last] = byte
        BY <2>10
      <4>2. cut = [s EXCEPT ![last] = s[last] - over]
        BY <2>4
      <4> HIDE DEF s
      <4>3. cut = [s EXCEPT ![last] = new]
        BY <4>1, <4>2 DEF new
      <4>4. cut = [i \in 1..last |-> IF i = last THEN new ELSE s[i]]
        <5>1. DOMAIN s = 1..last /\ s = [i \in DOMAIN s |-> s[i]]
          BY <4>1
        <5>2. [s EXCEPT ![last] = new] = [i \in DOMAIN s |-> IF i = last THEN new ELSE s[i]]
          BY <5>1, Zenon
        <5> QED BY <4>3, <5>1, <5>2
      <4> QED BY <4>4 DEF s
    <3>2. \A i \in 1..last : SubSeq(deque, 1, last)[i] \in Byte
      BY <2>2, <2>10
    <3>3. cut \in [1..last -> Byte]
      BY <2>11, <3>1, <3>2
    <3> QED BY <2>2, <2>10, <3>1, <3>3
  <2>13. cut \in Seq(Nat)
    BY <2>12, Constants
  <2>14. Carried(cut)[last - 1] = delta /\ ItemsTo(cut)[last - 1] = head
    <3> DEFINE m == last - 1
    <3>1. m \in Nat /\ m <= Len(cut) /\ m <= Len(deque) /\ m \in 0..m
      BY <2>2, <2>12
    <3>2. \A i \in 1..m : cut[i] = deque[i]
      BY <2>12
    <3> HIDE DEF m
    <3>3. deque \in Seq(Nat)
      BY <1>1
    <3>4. \A i \in 0..m : Carried(cut)[i] = Carried(deque)[i] /\ ItemsTo(cut)[i] = ItemsTo(deque)[i]
      BY ONLY <2>13, <3>1, <3>2, <3>3, SamePrefix
    <3> QED BY <3>1, <3>4 DEF m, delta, head, items
  <2>15. Deltas(cut) = head \o ItemsFrom(new, delta)
    <3>1. last \in 1..Len(cut)
      BY <2>2, <2>12
    <3>2. ItemsTo(cut)[last] = Then(cut, ItemsTo(cut)[last - 1], last)
      BY <2>13, <3>1, ItemsToDefined
    <3> QED BY <2>11, <2>12, <2>14, <3>2 DEF Then, Deltas
  <2> DEFINE front == ItemsFrom(new, delta)
             whole == ItemsFrom(byte, delta)
  <2>16. whole \in Seq(Item)
    <3>1. byte \in Nat
      BY <2>5
    <3>2. delta \in Int
      BY <2>5
    <3> QED BY ONLY <3>1, <3>2, ItemsFromType
  <2>17. front \in Seq(Item) /\ Len(front) = limit - Len(head) /\ Len(front) <= Len(whole)
         /\ \A k \in 1 .. Len(front) : front[k] = whole[k]
    BY <2>11
  <2> HIDE DEF front, whole
  <2>18. items[last] \in Seq(Item) /\ Len(items[last]) <= Len(d)
         /\ \A k \in 1 .. Len(items[last]) : d[k] = items[last][k]
    BY <1>1, <2>2, ItemsBegin DEF items, d
  <2>19. limit <= Len(d)
    BY <1>2, <1>3, <2>2, <2>18
  <2>20. taken \in Seq(Item) /\ Len(taken) = limit /\ \A k \in 1..limit : taken[k] = d[k]
    BY <1>2, <1>6, <2>19
  <2>21. (head \o front) \in Seq(Item) /\ Len(head \o front) = limit
    <3>1. Len(front) \in Nat /\ head \o front \in Seq(Item) /\ Len(head \o front) = Len(head) + Len(front)
      <4>1. head \in Seq(Item)
        BY <2>6
      <4>2. front \in Seq(Item)
        BY <2>17
      <4> QED BY ONLY <4>1, <4>2, ConcatProperties
    <3> QED BY <2>6, <2>17, <3>1
  <2>22. \A k \in 1..limit : (head \o front)[k] = (head \o whole)[k]
    <3> TAKE k \in 1..limit
    <3>1. CASE k <= Len(head)
      BY <2>6, <2>16, <2>17, <3>1
    <3>2. CASE ~(k <= Len(head))
      <4>1. k - Len(head) \in 1..Len(front) /\ Len(front) \in Nat /\ Len(whole) \in Nat
        BY <2>6, <2>16, <2>17, <3>2
      <4>2. (head \o front)[k] = front[k - Len(head)]
        BY <2>6, <2>17, <3>2, <4>1
      <4>3. (head \o whole)[k] = whole[k - Len(head)]
        BY <2>6, <2>16, <2>17, <3>2, <4>1
      <4> QED BY <2>17, <4>1, <4>2, <4>3
    <3> QED BY <3>1, <3>2
  <2>23. \A k \in 1..limit : d[k] = (head \o whole)[k]
    <3>1. \A k \in 1..limit : k \in 1 .. Len(items[last])
      BY <1>3, <2>2
    <3> QED BY <2>9, <2>18, <3>1 DEF whole
  <2>24. head \o front = taken
    <3> DEFINE joined == head \o front
    <3>1. joined \in Seq(Item) /\ Len(joined) = limit /\ \A k \in 1..limit : joined[k] = taken[k]
      BY <2>20, <2>21, <2>22, <2>23
    <3> HIDE DEF joined
    <3>2. joined = taken
      BY <2>20, <3>1
    <3> QED BY <3>2 DEF joined
  <2> QED BY <2>12, <2>15, <2>24 DEF cut, taken, d, front
<1> QED BY <1>7, <1>8, <1>9

-----------------------------------------------------------------------------
(* Refinement                                                              *)

Inner == [tip : Int, age : Nat, deque : Seq(Byte)]

\* The value is of a scan that was, and no more scans are kept than were.
IInv ==
    /\ now \in Nat /\ kept \in 0..now
    /\ inner \in Inner \cup {NoValue}
    /\ inner # NoValue => inner.age \in 1..now

\* The Value that the bytes stand for.
Told(v) ==
    IF v = NoValue THEN NoValue
    ELSE [kind |-> IntKind, tip |-> v.tip, age |-> v.age, buf |-> Deltas(v.deque)]

LEMMA NumbersAreInts == Number \subseteq Int
BY BytesAssumption DEF Unsigned, Signed

LEMMA ToldType ==
    ASSUME NEW v \in Inner
    PROVE  /\ v # NoValue /\ Told(v) # NoValue /\ Deltas(v.deque) \in Seq(Item)
           /\ Told(v) = [kind |-> IntKind, tip |-> v.tip, age |-> v.age, buf |-> Deltas(v.deque)]
<1>1. v.deque \in Seq(Byte) /\ v.tip \in Int /\ v.age \in Nat
  BY DEF Inner
<1>2. v.deque \in Seq(Nat)
  BY <1>1, Constants
<1>3. Deltas(v.deque) \in Seq(Int \cup {Gap})
  BY <1>2, DeltasType DEF Item
<1>4. v # NoValue
  BY BytesAssumption DEF Inner
<1>5. [kind |-> IntKind, tip |-> v.tip, age |-> v.age, buf |-> Deltas(v.deque)]
        \in [kind : Types, tip : Int, age : Nat, buf : Seq(Int \cup {Gap})]
  BY <1>1, <1>3, BytesAssumption
<1> QED BY <1>3, <1>4, <1>5, BytesAssumption DEF Told, Item

\* A scan keeps the types, and leaves a value.
LEMMA ScanKeeps ==
    ASSUME IInv, NEW n \in Number, Scan(n)
    PROVE  IInv' /\ inner' \in Inner
<1>1. n \in Int /\ now \in Nat /\ kept \in 0..now /\ now' = now + 1 /\ kept' = kept + 1
  BY NumbersAreInts DEF IInv, Scan
<1>2. inner' \in Inner /\ inner'.age = now + 1
  <2>1. CASE inner = NoValue
    BY <1>1, <2>1 DEF Scan, Inner
  <2>2. CASE inner # NoValue
    <3>1. inner.deque \in Seq(Byte) /\ inner.tip \in Int /\ (now + 1) - inner.age \in Nat \ {0}
      BY <1>1, <2>2 DEF IInv, Inner
    <3> DEFINE b == BytesPush(inner.deque, inner.tip, n, (now + 1) - inner.age)
    <3>2. b \in Seq(Byte)
      BY <1>1, <3>1, BytesPushItems
    <3>3. inner' = [tip |-> n, age |-> now + 1, deque |-> b]
      BY <2>2 DEF Scan
    <3> HIDE DEF b
    <3> QED BY <1>1, <3>2, <3>3 DEF Inner
  <2> QED BY <2>1, <2>2
<1> QED BY <1>1, <1>2 DEF IInv

\* A cut either drops the value or shortens it.
LEMMA TruncateCuts ==
    ASSUME IInv, NEW num \in 0 .. kept - 1, Truncate(num)
    PROVE  \/ /\ inner = NoValue \/ inner.age <= now - num
              /\ inner' = NoValue
           \/ /\ inner \in Inner /\ inner.age > now - num
              /\ inner' \in Inner
              /\ inner'.tip = inner.tip /\ inner'.age = inner.age
              /\ Deltas(inner'.deque) = AbstractMetric!Take(Deltas(inner.deque),
                                                            (inner.age - (now - num)) - 1)
<1>1. CASE inner = NoValue \/ inner.age <= now - num
  BY <1>1 DEF Truncate
<1>2. CASE inner # NoValue /\ ~(inner.age <= now - num)
  <2> DEFINE limit == (inner.age - (now - num)) - 1
             cut == BytesTruncate(inner.deque, limit)
  <2>1. inner \in Inner /\ inner.age \in Nat /\ inner.deque \in Seq(Byte)
    BY <1>2 DEF IInv, Inner
  <2>2. limit \in Nat /\ inner.age > now - num
    BY <1>2, <2>1 DEF IInv
  <2>3. inner' = [inner EXCEPT !.deque = cut]
    BY <1>2 DEF Truncate
  <2> HIDE DEF limit
  <2>4. cut \in Seq(Byte) /\ Deltas(cut) = AbstractMetric!Take(Deltas(inner.deque), limit)
    BY <2>1, <2>2, BytesTruncateItems
  <2> HIDE DEF cut
  <2>5. /\ inner' \in Inner /\ inner'.tip = inner.tip /\ inner'.age = inner.age
        /\ inner'.deque = cut
    BY <2>1, <2>3, <2>4 DEF Inner
  <2> QED BY <2>1, <2>2, <2>4, <2>5 DEF limit
<1> QED BY <1>1, <1>2

LEMMA InitIInv == Init => IInv
BY DEF Init, IInv

LEMMA NextIInv == IInv /\ [Next]_vars => IInv'
<1> SUFFICES ASSUME IInv, [Next]_vars PROVE IInv'
  OBVIOUS
<1>1. CASE Miss
  BY <1>1 DEF IInv, Miss
<1>2. ASSUME NEW n \in Number, Scan(n) PROVE IInv'
  BY <1>2, ScanKeeps
<1>3. ASSUME NEW num \in 0 .. kept - 1, Truncate(num) PROVE IInv'
  <2>1. inner' = NoValue \/ (inner' \in Inner /\ inner \in Inner /\ inner'.age = inner.age)
    BY <1>3, TruncateCuts
  <2>2. now' = now /\ kept' = num
    BY <1>3 DEF Truncate
  <2>3. inner \in Inner => inner # NoValue
    BY ToldType
  <2> QED BY <2>1, <2>2, <2>3 DEF IInv
<1>4. CASE UNCHANGED vars
  BY <1>4 DEF IInv, vars
<1> QED BY <1>1, <1>2, <1>3, <1>4 DEF Next

\* Each step is a step of Metric: a scan without the metric,
LEMMA MissRefines ==
    ASSUME Miss
    PROVE  AbstractMetric!Miss
BY DEF Miss, AbstractMetric!Miss

\* .. the first with it, or the first after it was dropped,
LEMMA FirstRefines ==
    ASSUME IInv, NEW n \in Number, Scan(n), inner = NoValue
    PROVE  AbstractMetric!First(n)
<1>1. /\ now < MaxAge /\ now' = now + 1 /\ kept' = kept + 1
      /\ inner' = [tip |-> n, age |-> now + 1, deque |-> << >>]
  BY DEF Scan
<1>2. inner' \in Inner
  BY ScanKeeps
<1>3. Told(inner') = [kind |-> IntKind, tip |-> n, age |-> now + 1, buf |-> << >>]
  BY <1>1, <1>2, ToldType, NoBytes
<1>4. Told(inner) = NoValue
  BY DEF Told
<1> QED
  BY <1>1, <1>3, <1>4 DEF AbstractMetric!First, AbstractMetric!NewValue, Told

\* A later sample is a difference: the exact one if it fits.
LEMMA LaterRefines ==
    ASSUME IInv, NEW n \in Number, Scan(n), inner # NoValue
    PROVE  AbstractMetric!Later(n)
<1> DEFINE ageDiff == (now + 1) - inner.age
           gaps == Repeat(Gap, ageDiff - 1)
           old == Deltas(inner.deque)
           b == BytesPush(inner.deque, inner.tip, n, ageDiff)
           exact == (<<n - inner.tip>> \o gaps) \o old
           told == Deltas(b)
<1>1. /\ now < MaxAge /\ now' = now + 1 /\ kept' = kept + 1
      /\ inner' = [tip |-> n, age |-> now + 1, deque |-> b]
  BY DEF Scan
<1>2. inner \in Inner /\ inner' \in Inner
  BY ScanKeeps DEF IInv
<1>3. /\ inner.tip \in Int /\ inner.age \in Nat /\ inner.deque \in Seq(Byte) /\ n \in Int
      /\ now \in Nat /\ ageDiff \in Nat \ {0} /\ ~(now + 1 < inner.age)
  BY <1>2, NumbersAreInts DEF IInv, Inner
<1> HIDE DEF ageDiff
<1>4. PICK d \in Int : told = (<<d>> \o gaps) \o old /\ (Fits(inner.tip, n) => d = n - inner.tip)
  BY <1>3, BytesPushItems
<1>5. gaps \in Seq(Item) /\ old \in Seq(Item)
  <2>1. ageDiff - 1 \in Nat /\ Gap \in Item
    BY <1>3 DEF Item
  <2> QED BY <1>2, <2>1, RepeatType, ToldType
<1>6. Told(inner) = [kind |-> IntKind, tip |-> inner.tip, age |-> inner.age, buf |-> old]
      /\ Told(inner) # NoValue
  BY <1>2, ToldType
<1>7. Told(inner') = [kind |-> IntKind, tip |-> n, age |-> now + 1, buf |-> told]
  BY <1>1, <1>2, ToldType
<1>8. AbstractMetric!Gaps(ageDiff - 1) = gaps
  BY DEF AbstractMetric!Gaps, Repeat
<1> HIDE DEF gaps, old, b, told, exact
<1>9. AbstractMetric!InnerPush(Told(inner), n, now + 1)
        = [kind |-> IntKind, tip |-> n, age |-> now + 1, buf |-> exact]
  <2>1. IntKind # "float"
    BY BytesAssumption DEF Types
  <2>2. AbstractMetric!DeltaPush(old, inner.tip, n, ageDiff) = exact
    BY <1>3, <1>8 DEF AbstractMetric!DeltaPush, exact
  <2>3. (now + 1) - Told(inner).age = ageDiff
    BY <1>6 DEF ageDiff
  <2> DEFINE t == Told(inner)
  <2>4. t.kind = IntKind /\ t.tip = inner.tip /\ t.age = inner.age /\ t.buf = old
    BY <1>6
  <2>5. t = [kind |-> IntKind, tip |-> inner.tip, age |-> inner.age, buf |-> old]
    BY <1>6
  <2> HIDE DEF t
  <2>6. AbstractMetric!InnerPush(t, n, now + 1) = [t EXCEPT !.tip = n, !.age = now + 1, !.buf = exact]
    <3>1. ~(now + 1 < t.age) /\ t.kind # "float" /\ (now + 1) - t.age = ageDiff
      BY <1>3, <2>1, <2>4 DEF ageDiff
    <3>2. AbstractMetric!DeltaPush(t.buf, t.tip, n, (now + 1) - t.age) = exact
      BY <2>2, <2>4, <3>1
    <3> QED BY <3>1, <3>2 DEF AbstractMetric!InnerPush
  <2>7. [t EXCEPT !.tip = n, !.age = now + 1, !.buf = exact]
          = [kind |-> IntKind, tip |-> n, age |-> now + 1, buf |-> exact]
    <3> DEFINE a == now + 1
               t1 == [t EXCEPT !.tip = n]
               t2 == [t1 EXCEPT !.age = a]
               t3 == [t2 EXCEPT !.buf = exact]
    <3> HIDE DEF a
    <3>1. t1 = [kind |-> IntKind, tip |-> n, age |-> inner.age, buf |-> old]
      BY <2>5
    <3> HIDE DEF t1
    <3>2. t2 = [kind |-> IntKind, tip |-> n, age |-> a, buf |-> old]
      BY <3>1
    <3> HIDE DEF t2
    <3>3. t3 = [kind |-> IntKind, tip |-> n, age |-> a, buf |-> exact]
      BY <3>2
    <3> QED BY <3>3 DEF a, t1, t2
  <2> QED BY <2>6, <2>7 DEF t
<1>10. Len(told) = Len(exact) /\ \A i \in 1..Len(exact) : i > 1 \/ Fits(inner.tip, n) => told[i] = exact[i]
  <2> DEFINE x == gaps \o old
  <2>1. x \in Seq(Item)
    BY <1>5
  <2>2. <<d>> \in Seq(Item) /\ <<n - inner.tip>> \in Seq(Item)
    BY <1>3 DEF Item
  <2>3. told = <<d>> \o x /\ exact = <<n - inner.tip>> \o x
    <3>1. gaps \in Seq(Item) /\ old \in Seq(Item)
      BY <1>5
    <3>2. /\ (<<d>> \o gaps) \o old = <<d>> \o (gaps \o old)
          /\ (<<n - inner.tip>> \o gaps) \o old = <<n - inner.tip>> \o (gaps \o old)
      BY ONLY <2>2, <3>1, ItemsAssociate
    <3> QED BY <1>4, <3>2 DEF exact
  <2> HIDE DEF x
  <2>4. /\ Len(told) = 1 + Len(x) /\ told[1] = d
        /\ Len(exact) = 1 + Len(x) /\ exact[1] = n - inner.tip
        /\ \A i \in 2 .. 1 + Len(x) : told[i] = x[i - 1] /\ exact[i] = x[i - 1]
    BY <1>3, <2>1, <2>3
  <2>5. \A i \in 1 .. Len(exact) : i = 1 \/ i \in 2 .. 1 + Len(x)
    BY <2>1, <2>4
  <2> QED BY <1>4, <2>4, <2>5
<1> DEFINE e == [kind |-> IntKind, tip |-> n, age |-> now + 1, buf |-> exact]
           v == Told(inner')
<1>11. v = [e EXCEPT !.buf = v.buf] /\ v.buf = told /\ e.buf = exact
  BY <1>7
<1>12. /\ AbstractMetric!InnerPush(Told(inner), n, now + 1) = e
       /\ v = [e EXCEPT !.buf = v.buf]
       /\ Len(v.buf) = Len(e.buf)
       /\ \A i \in 1..Len(e.buf) :
             (i > 1 \/ (IF n >= Told(inner).tip THEN n - Told(inner).tip <= Largest
                        ELSE Told(inner).tip - n <= Largest)) =>
                v.buf[i] = e.buf[i]
  <2>1. Told(inner).tip = inner.tip
    BY <1>6
  <2> HIDE DEF v, e
  <2>2. AbstractMetric!InnerPush(Told(inner), n, now + 1) = e
    BY <1>9 DEF e
  <2> QED BY <1>10, <1>11, <2>1, <2>2 DEF Fits
<1> HIDE DEF e, v
<1> QED
  BY <1>1, <1>6, <1>12 DEF AbstractMetric!Later, Told, v

\* .. and a cut.
LEMMA TruncateRefines ==
    ASSUME IInv, NEW num \in 0 .. kept - 1, Truncate(num)
    PROVE  AbstractMetric!Truncate(num)
<1>1. kept' = num /\ now' = now
  BY DEF Truncate
<1>2. Told(inner') = IF Told(inner) = NoValue THEN NoValue
                     ELSE AbstractMetric!InnerTruncate(Told(inner), now - num)
  <2>1. CASE inner = NoValue
    BY <2>1 DEF Truncate, Told
  <2>2. CASE inner # NoValue /\ inner.age <= now - num
    <3>1. inner \in Inner /\ inner' = NoValue
      BY <2>2 DEF Truncate, IInv
    <3>2. Told(inner).age = inner.age /\ Told(inner) # NoValue
      BY <3>1, ToldType
    <3> QED BY <2>2, <3>1, <3>2 DEF AbstractMetric!InnerTruncate, Told
  <2>3. CASE inner # NoValue /\ ~(inner.age <= now - num)
    <3>1. /\ inner \in Inner /\ inner' \in Inner
          /\ inner'.tip = inner.tip /\ inner'.age = inner.age
          /\ Deltas(inner'.deque) = AbstractMetric!Take(Deltas(inner.deque),
                                                        (inner.age - (now - num)) - 1)
      BY <2>3, TruncateCuts
    <3>2. /\ Told(inner) # NoValue
          /\ Told(inner) = [kind |-> IntKind, tip |-> inner.tip, age |-> inner.age,
                            buf |-> Deltas(inner.deque)]
      BY <3>1, ToldType
    <3>3. Told(inner') = [kind |-> IntKind, tip |-> inner'.tip, age |-> inner'.age,
                          buf |-> Deltas(inner'.deque)]
      BY <3>1, ToldType
    <3> QED BY <2>3, <3>1, <3>2, <3>3 DEF AbstractMetric!InnerTruncate
  <2> QED BY <2>1, <2>2, <2>3
<1> QED BY <1>1, <1>2 DEF AbstractMetric!Truncate, Told

\* Whatever is pushed and wherever it is cut, for counters and integers of any
\* width and counts of any number of bits: the bytes that DeltaBuf keeps read
\* back, through DeltaIter, as the differences and gaps that were pushed, and a
\* difference that overflowed spoils no item but its own.  The bytes implement
\* the buffers of Backlog.
THEOREM BytesAreItems == Spec => ImplementsMetric
<1>1. Init => AbstractMetric!Init
  BY DEF Init, AbstractMetric!Init
<1>2. IInv /\ [Next]_vars => [AbstractMetric!Next]_AbstractMetric!vars
  <2> SUFFICES ASSUME IInv, [Next]_vars PROVE [AbstractMetric!Next]_AbstractMetric!vars
    OBVIOUS
  <2>1. CASE Miss
    BY <2>1, MissRefines DEF AbstractMetric!Next
  <2>2. ASSUME NEW n \in Number, Scan(n) PROVE AbstractMetric!Next
    <3>1. AbstractMetric!First(n) \/ AbstractMetric!Later(n)
      BY <2>2, FirstRefines, LaterRefines
    <3> QED BY <3>1 DEF AbstractMetric!Next
  <2>3. ASSUME NEW num \in 0 .. kept - 1, Truncate(num) PROVE AbstractMetric!Next
    BY <2>3, TruncateRefines DEF AbstractMetric!Next
  <2>4. CASE UNCHANGED vars
    BY <2>4 DEF vars, AbstractMetric!vars
  <2> QED BY <2>1, <2>2, <2>3, <2>4 DEF Next
<1> QED BY <1>1, <1>2, InitIInv, NextIInv, PTL DEF Spec, ImplementsMetric, AbstractMetric!Spec

=============================================================================

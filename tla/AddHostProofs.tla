--------------------------- MODULE AddHostProofs ---------------------------
(***************************************************************************)
(* Proofs about AddHost, for every set of addresses, every configuration   *)
(* of the retries and every number of commands.                            *)
(***************************************************************************)
EXTENDS AddHost, TLAPS

-----------------------------------------------------------------------------
(* Lemmas: sleeps, and the queue                                           *)

\* A factor of one or more does not make a number smaller.
LEMMA ScaledUp ==
    ASSUME NEW ms \in Nat, NEW percent \in Nat, percent >= 100
    PROVE  ms * percent \in Nat /\ (ms * percent) \div 100 >= ms
<1>1. ms * (percent - 100) >= 0
  BY percent - 100 \in Nat
<1>2. ms * percent = ms * (percent - 100) + ms * 100
  OBVIOUS
<1>3. ms * percent >= ms * 100 /\ ms * percent \in Nat
  BY <1>1, <1>2
<1> DEFINE x == ms * percent
<1>4. x \in Nat /\ x >= ms * 100
  BY <1>3
<1> HIDE DEF x
<1>5. x \div 100 >= ms
  BY <1>4
<1> QED BY <1>3, <1>5 DEF x

LEMMA JitterIsNat ==
    ASSUME NEW ms \in Nat
    PROVE  Jitter(ms) \subseteq Nat
<1> DEFINE x == ms * RandomLow
           y == ms * RandomHigh
<1>1. x \in Nat /\ y \in Nat
  BY AddHostAssumption
<1> HIDE DEF x, y
<1>2. x \div 100 \in Nat /\ ((y + 99) \div 100) - 1 \in Int
  BY <1>1
<1>3. x \div 100 .. ((y + 99) \div 100) - 1 \subseteq Nat
  BY <1>2
<1> QED BY <1>3 DEF Jitter, x, y

LEMMA FirstSleepBounds == FirstSleep \subseteq 0..RetryCap
<1> DEFINE y == RetryMin * RandomHigh
<1>1. y \in Nat /\ y <= 100 * RetryCap /\ RetryCap \in Nat
  BY AddHostAssumption
<1>2. FirstSleep \subseteq Nat
  BY JitterIsNat, AddHostAssumption DEF FirstSleep
<1>3. \A ms \in FirstSleep : ms <= ((y + 99) \div 100) - 1
  BY <1>1, <1>2, AddHostAssumption DEF FirstSleep, Jitter
<1> HIDE DEF y
<1>4. (y + 99) \div 100 <= RetryCap + 1
  BY <1>1
<1> QED BY <1>1, <1>2, <1>3, <1>4

\* A sleep is within the cap, and not shorter than the one before.
LEMMA NextSleepBounds ==
    ASSUME NEW prev \in 0..RetryCap
    PROVE  \A t \in NextSleep(prev) : t \in 0..RetryCap /\ t >= prev
<1> DEFINE ms == prev * RetryExponent
<1>1. ms \in Nat /\ RetryCap \in Nat /\ prev \in Nat
  BY AddHostAssumption
<1>2. ms * RandomLow = prev * (RetryExponent * RandomLow)
  BY <1>1, AddHostAssumption
<1>3. RetryExponent * RandomLow \in Nat /\ RetryExponent * RandomLow >= 100
  BY AddHostAssumption
<1>4. (prev * (RetryExponent * RandomLow)) \div 100 >= prev
  BY <1>1, <1>3, ScaledUp
<1>5. (ms * RandomLow) \div 100 >= prev
  BY <1>2, <1>4
<1> HIDE DEF ms
<1>6. \A r \in Jitter(ms) : r \in Nat
  BY <1>1, JitterIsNat
<1>7. (ms * RandomLow) \div 100 \in Int
  <2> DEFINE x == ms * RandomLow
  <2>1. x \in Nat
    BY <1>1, AddHostAssumption
  <2> HIDE DEF x
  <2>2. x \div 100 \in Int
    BY <2>1
  <2> QED BY <2>2 DEF x
<1>8. \A r \in Jitter(ms) : r >= prev
  <2> SUFFICES ASSUME NEW r \in Jitter(ms) PROVE r >= prev
    OBVIOUS
  <2>1. r >= (ms * RandomLow) \div 100
    BY DEF Jitter
  <2> QED BY <2>1, <1>1, <1>5, <1>6, <1>7
<1>9. \A t \in NextSleep(prev) : \E r \in Jitter(ms) : t = Smaller(r, RetryCap)
  BY DEF NextSleep, ms
<1> QED BY <1>1, <1>6, <1>8, <1>9 DEF Smaller


-----------------------------------------------------------------------------
(* The type invariant                                                      *)

LEMMA SleepType ==
    ASSUME TypeOK, NEW ping \in 0..Interval
    PROVE  NextWakeup(ping) \subseteq 0..Interval
<1>1. Interval \in Nat /\ RetryCap \in Nat
  BY AddHostAssumption
<1>2. \A q \in add_queue : q.deadline \in Int
  BY <1>1 DEF TypeOK, FutureHost
<1> QED BY <1>1, <1>2 DEF NextWakeup, Smaller

LEMMA InitType == Init => TypeOK
BY AddHostAssumption DEF Init, TypeOK

LEMMA SendGossipType ==
    ASSUME TypeOK, NEW a \in Address, SendGossip(a)
    PROVE  /\ pings' \in [Address -> Nat]
           /\ inflight' \subseteq Reachable
           /\ pings'[a] = pings[a] + 1
           /\ \A b \in Address : b # a => pings'[b] = pings[b]
BY DEF TypeOK, SendGossip

LEMMA StepType == TypeOK /\ [Next]_vars => TypeOK'
<1> SUFFICES ASSUME TypeOK, [Next]_vars PROVE TypeOK'
  OBVIOUS
<1> USE DEF TypeOK
<1>0. {RetryTimes, RetryCap, Interval} \subseteq Nat /\ Reachable \subseteq Address
  BY AddHostAssumption
<1>1. ASSUME NEW a \in Address, Ask(a) PROVE TypeOK'
  BY <1>1 DEF Ask
<1>2. ASSUME NEW a \in Address, Arrive(a) PROVE TypeOK'
  BY <1>2 DEF Arrive
<1>3. CASE Tick
  <2>1. ASSUME NEW q \in add_queue
        PROVE  [q EXCEPT !.deadline = IF @ < 0 THEN @ ELSE @ - 1] \in FutureHost
    <3>1. q.deadline \in -1..RetryCap /\ RetryCap \in Nat
      BY <1>0 DEF FutureHost
    <3>2. (IF q.deadline < 0 THEN q.deadline ELSE q.deadline - 1) \in -1..RetryCap
      BY <3>1
    <3>3. q \in FutureHost
      OBVIOUS
    <3> QED BY <3>2, <3>3 DEF FutureHost
  <2>2. next_ping' \in 0..Interval /\ clock' \in 0..Interval
    BY <1>0, <1>3 DEF Tick
  <2>3. add_queue' \subseteq FutureHost
    BY <1>3, <2>1 DEF Tick
  <2> QED BY <1>3, <2>2, <2>3 DEF Tick
<1>4. CASE AddHostCommand
  <2>1. Head(commands) \in Address /\ commands' \in Seq(Address)
    BY <1>4 DEF AddHostCommand
  <2> DEFINE a == Head(commands)
  <2>2. asked' \in [Address -> Nat]
    BY <1>4, <2>1 DEF AddHostCommand
  <2>3. inflight' \subseteq Reachable /\ pings' \in [Address -> Nat]
    BY <1>4, <2>1, SendGossipType DEF AddHostCommand
  <2>4. /\ addr_status' \in [Address -> {"None", "PingSent", "Available"}]
        /\ add_queue' \subseteq FutureHost
    <3>1. CASE UNCHANGED <<addr_status, add_queue>>
      BY <3>1
    <3>2. CASE /\ addr_status' = [addr_status EXCEPT ![a] = "PingSent"]
               /\ \E t \in FirstSleep : add_queue' = add_queue \cup
                    {[address |-> a, deadline |-> t, attempts |-> 1, timeout |-> t]}
      BY <1>0, <2>1, <3>2, FirstSleepBounds DEF FutureHost
    <3> QED BY <1>4, <3>1, <3>2 DEF AddHostCommand, Enqueue
  <2> QED BY <1>4, <2>1, <2>2, <2>3, <2>4 DEF AddHostCommand
<1>5. CASE ConsumeGossip
  BY <1>0, <1>5 DEF ConsumeGossip
<1>6. CASE DropHost
  BY <1>6 DEF DropHost
<1>7. CASE Retry
  <2>1. PICK q \in add_queue :
          /\ \E again \in Again(q) : add_queue' = (add_queue \ {q}) \cup {again}
          /\ addr_status' = [addr_status EXCEPT ![q.address] = "PingSent"]
          /\ SendGossip(q.address)
    BY <1>7 DEF Retry
  <2>2. q \in FutureHost /\ q.timeout \in 0..RetryCap /\ q.address \in Address
    BY DEF FutureHost
  <2>3. Again(q) \subseteq FutureHost
    <3>1. ASSUME NEW t \in 0..RetryCap
          PROVE  [q EXCEPT !.timeout = t, !.deadline = t, !.attempts = @ + 1] \in FutureHost
      <4>1. t \in -1..RetryCap
        BY <1>0
      <4>2. q.attempts + 1 \in Nat
        BY <2>2 DEF FutureHost
      <4> QED BY <2>2, <4>1, <4>2 DEF FutureHost
    <3> QED BY <2>2, <3>1, NextSleepBounds DEF Again
  <2>4. add_queue' \subseteq FutureHost
    BY <2>1, <2>3
  <2>5. inflight' \subseteq Reachable /\ pings' \in [Address -> Nat]
    BY <2>1, <2>2, SendGossipType
  <2> QED BY <1>7, <2>1, <2>4, <2>5 DEF Retry
<1>8. CASE Sleep
  <2>1. next_ping' \in 0..Interval
    BY <1>0, <1>8 DEF Sleep
  <2>2. NextWakeup(next_ping') \subseteq 0..Interval
    BY <2>1, SleepType
  <2> QED BY <1>8, <2>1, <2>2 DEF Sleep
<1>9. CASE WakeUp \/ NoMoreCommands \/ NoMorePackets \/ NoMoreRetries
  BY <1>9 DEF WakeUp, NoMoreCommands, NoMorePackets, NoMoreRetries
<1>10. CASE UNCHANGED vars
  BY <1>10 DEF vars
<1> QED BY <1>1, <1>2, <1>3, <1>4, <1>5, <1>6, <1>7, <1>8, <1>9, <1>10 DEF Next, Poll

\* Types, for every configuration.
THEOREM TypeCorrect == Spec => []TypeOK
<1> QED BY InitType, StepType, PTL DEF Spec

-----------------------------------------------------------------------------
(* The invariant                                                           *)

LEMMA InitInv == Init => IInv
BY InitType, AddHostAssumption DEF Init, IInv, OneRetry, PingBudget, RetryOK

\* What a step preserves in which nothing is asked for and no ping is sent:
\* hosts may leave the queue, wait less, and answer.
LEMMA QuietStep ==
    ASSUME IInv, asked' = asked, pings' = pings,
           \A a \in Address : addr_status'[a] = addr_status[a] \/ addr_status'[a] = "Available",
           \A q \in add_queue' : \E r \in add_queue :
               /\ q.address = r.address /\ q.attempts = r.attempts
               /\ \A s \in add_queue' : s.address = r.address => q = s
    PROVE  (OneRetry /\ PingBudget /\ RetryOK)'
<1>1. OneRetry'
  BY DEF OneRetry
<1>2. \A q \in add_queue : q.address \in Address
  BY DEF IInv, TypeOK, FutureHost
<1>3. RetryOK'
  BY <1>2 DEF IInv, RetryOK
<1> QED BY <1>1, <1>3 DEF IInv, PingBudget

LEMMA StepInv == IInv /\ [Next]_vars => IInv'
<1> SUFFICES ASSUME IInv, [Next]_vars PROVE (OneRetry /\ PingBudget /\ RetryOK)'
  BY StepType DEF IInv
<1> USE DEF IInv
<1>0. /\ \A q \in add_queue : q.address \in Address /\ q.attempts \in Nat
      /\ \A b \in Address : asked[b] \in Nat /\ pings[b] \in Nat
      /\ RetryTimes \in Nat
  BY AddHostAssumption DEF TypeOK, FutureHost
<1>1. CASE \/ \E a \in Address : Ask(a) \/ Arrive(a)
           \/ WakeUp \/ NoMoreCommands \/ NoMorePackets \/ NoMoreRetries \/ Sleep
           \/ UNCHANGED vars
  <2>1. UNCHANGED <<addr_status, add_queue, asked, pings>>
    BY <1>1 DEF Ask, Arrive, WakeUp, NoMoreCommands, NoMorePackets, NoMoreRetries, Sleep,
                vars
  <2> QED BY <2>1 DEF OneRetry, PingBudget, RetryOK
<1>2. CASE Tick
  <2>1. UNCHANGED <<addr_status, asked, pings>>
    BY <1>2 DEF Tick
  <2> DEFINE Later(q) == [q EXCEPT !.deadline = IF @ < 0 THEN @ ELSE @ - 1]
  <2>2. add_queue' = {Later(q) : q \in add_queue}
    BY <1>2 DEF Tick
  <2>3. \A q \in add_queue : Later(q).address = q.address /\ Later(q).attempts = q.attempts
    BY DEF TypeOK, FutureHost
  <2> HIDE DEF Later
  <2>4. \A q \in add_queue' : \E r \in add_queue :
               /\ q.address = r.address /\ q.attempts = r.attempts
               /\ \A s \in add_queue' : s.address = r.address => q = s
    BY <2>2, <2>3 DEF OneRetry
  <2> QED BY <2>1, <2>4, QuietStep
<1>3. CASE ConsumeGossip
  <2>1. /\ UNCHANGED <<add_queue, asked, pings>>
        /\ \A a \in Address : addr_status'[a] = addr_status[a] \/ addr_status'[a] = "Available"
    BY <1>3 DEF ConsumeGossip, TypeOK
  <2>2. \A q \in add_queue' : \E r \in add_queue :
               /\ q.address = r.address /\ q.attempts = r.attempts
               /\ \A s \in add_queue' : s.address = r.address => q = s
    BY <2>1 DEF OneRetry
  <2> QED BY <2>1, <2>2, QuietStep
<1>4. CASE DropHost
  BY <1>4, QuietStep DEF DropHost, OneRetry
<1>5. CASE AddHostCommand
  <2> DEFINE a == Head(commands)
  <2>1. a \in Address
    BY <1>5 DEF AddHostCommand, TypeOK
  <2>2. /\ asked'[a] = asked[a] + 1 /\ asked[a] \in Nat /\ pings[a] \in Nat
        /\ \A b \in Address : b # a => asked'[b] = asked[b]
    BY <1>5, <2>1 DEF AddHostCommand, TypeOK
  <2>3. CASE addr_status[a] = "Available"
    <3>1. UNCHANGED <<pings, addr_status, add_queue>>
      BY <1>5, <2>3 DEF AddHostCommand
    <3>2. \A b \in Address : asked'[b] \in Nat /\ asked[b] <= asked'[b]
      BY <1>0, <2>2
    <3> QED BY <1>0, <3>1, <3>2 DEF OneRetry, PingBudget, RetryOK
  <2>4. CASE addr_status[a] # "Available"
    <3>1. SendGossip(a) /\ Enqueue(a)
      BY <1>5, <2>4 DEF AddHostCommand
    <3>2. /\ pings'[a] = pings[a] + 1
          /\ \A b \in Address : b # a => pings'[b] = pings[b]
      BY <2>1, <3>1, SendGossipType
    <3>3. PingBudget'
      BY <1>0, <2>1, <2>2, <3>2 DEF PingBudget
    <3>4. CASE addr_status[a] # "None"
      <4>1. UNCHANGED <<addr_status, add_queue>>
        BY <3>1, <3>4 DEF Enqueue
      <4>2. OneRetry'
        BY <4>1 DEF OneRetry
      <4>3. ASSUME NEW q \in add_queue
            PROVE  /\ q.attempts <= pings'[q.address]
                   /\ pings'[q.address] < asked'[q.address] + q.attempts
        <5>1. /\ q.attempts <= pings[q.address]
              /\ pings[q.address] < asked[q.address] + q.attempts
          BY <4>3 DEF RetryOK
        <5>2. CASE q.address = a
          BY <1>0, <2>1, <2>2, <3>2, <4>3, <5>1, <5>2
        <5>3. CASE q.address # a
          BY <1>0, <2>2, <3>2, <4>3, <5>1, <5>3
        <5> QED BY <5>2, <5>3
      <4> QED BY <3>2, <3>3, <3>4, <4>1, <4>2, <4>3 DEF RetryOK
    <3>5. CASE addr_status[a] = "None"
      <4>1. PICK t \in FirstSleep : add_queue' = add_queue \cup
                 {[address |-> a, deadline |-> t, attempts |-> 1, timeout |-> t]}
        BY <3>1, <3>5 DEF Enqueue
      <4>2. /\ addr_status'[a] = "PingSent"
            /\ \A b \in Address : b # a => addr_status'[b] = addr_status[b]
        BY <2>1, <3>1, <3>5 DEF Enqueue, TypeOK
      <4>3. \A q \in add_queue : q.address # a
        BY <3>5 DEF RetryOK
      <4>4. OneRetry'
        BY <4>1, <4>3 DEF OneRetry
      <4>5. pings[a] = 0
        BY <2>1, <3>5 DEF RetryOK
      <4>6. RetryOK'
        <5>1. ASSUME NEW q \in add_queue'
              PROVE  /\ addr_status'[q.address] # "None"
                     /\ q.attempts <= RetryTimes + 1
                     /\ q.attempts <= pings'[q.address]
                     /\ pings'[q.address] < asked'[q.address] + q.attempts
          <6>1. CASE q \in add_queue
            BY <1>0, <2>2, <3>2, <4>2, <4>3, <6>1 DEF RetryOK
          <6>2. CASE q = [address |-> a, deadline |-> t, attempts |-> 1, timeout |-> t]
            BY <1>0, <2>2, <3>2, <4>2, <4>5, <6>2
          <6> QED BY <4>1, <6>1, <6>2, <5>1
        <5>2. \A b \in Address : addr_status'[b] = "None" => pings'[b] = 0
          BY <3>2, <4>2 DEF RetryOK
        <5> QED BY <5>1, <5>2 DEF RetryOK
      <4> QED BY <3>3, <4>4, <4>6
    <3> QED BY <3>4, <3>5
  <2> QED BY <2>3, <2>4
<1>6. CASE Retry
  <2>0. PICK q \in add_queue :
          /\ addr_status[q.address] # "Available" /\ ~Exhausted(q)
          /\ \E again \in Again(q) : add_queue' = (add_queue \ {q}) \cup {again}
          /\ addr_status' = [addr_status EXCEPT ![q.address] = "PingSent"]
          /\ SendGossip(q.address)
          /\ asked' = asked
    BY <1>6 DEF Retry
  <2>1. PICK again \in Again(q) : add_queue' = (add_queue \ {q}) \cup {again}
    BY <2>0
  <2> DEFINE a == q.address
  <2>2. /\ a \in Address /\ q.attempts \in Nat /\ q.attempts <= RetryTimes
        /\ pings[a] \in Nat /\ asked[a] \in Nat
    BY <1>0, <2>0 DEF Exhausted
  <2>3. again.address = a /\ again.attempts = q.attempts + 1
    BY DEF Again, TypeOK, FutureHost
  <2>4. pings'[a] = pings[a] + 1 /\ \A b \in Address : b # a => pings'[b] = pings[b]
    BY <2>0, <2>2, SendGossipType
  <2>5. /\ addr_status'[a] = "PingSent"
        /\ \A b \in Address : b # a => addr_status'[b] = addr_status[b]
    BY <2>0, <2>2 DEF TypeOK
  <2>6. OneRetry'
    BY <2>1, <2>3 DEF OneRetry
  <2>7. /\ q.attempts <= pings[a] /\ pings[a] < asked[a] + q.attempts
    BY DEF RetryOK
  <2>8. asked' = asked
    BY <2>0
  <2>9. PingBudget'
    BY <1>0, <2>2, <2>4, <2>7, <2>8 DEF PingBudget
  <2>10. RetryOK'
    <3>1. ASSUME NEW r \in add_queue'
          PROVE  /\ addr_status'[r.address] # "None"
                 /\ r.attempts <= RetryTimes + 1
                 /\ r.attempts <= pings'[r.address]
                 /\ pings'[r.address] < asked'[r.address] + r.attempts
      <4>1. CASE r = again
        BY <1>0, <2>2, <2>3, <2>4, <2>5, <2>7, <2>8, <4>1
      <4>2. CASE r \in add_queue /\ r # q
        <5>1. r.address # a /\ r.address \in Address
          BY <1>0, <4>2 DEF OneRetry
        <5>2. /\ addr_status'[r.address] = addr_status[r.address]
              /\ pings'[r.address] = pings[r.address] /\ asked' = asked
          BY <2>0, <2>4, <2>5, <5>1
        <5> QED BY <4>2, <5>2 DEF RetryOK
      <4> QED BY <2>1, <4>1, <4>2, <3>1
    <3>2. \A b \in Address : addr_status'[b] = "None" => pings'[b] = 0
      BY <2>4, <2>5 DEF RetryOK
    <3> QED BY <3>1, <3>2 DEF RetryOK
  <2> QED BY <2>6, <2>9, <2>10
<1> QED BY <1>1, <1>2, <1>3, <1>4, <1>5, <1>6 DEF Next, Poll

LEMMA Invariance == Spec => []IInv
<1> QED BY InitInv, StepInv, PTL DEF Spec

\* The queue holds every address at most once, whatever the commands, the
\* packets and the time: it cannot grow beyond the addresses asked for.
THEOREM OneRetryEach == Spec => []OneRetry
<1>1. IInv => OneRetry
  BY DEF IInv
<1> QED BY <1>1, Invariance, PTL

\* No address gets more pings than it was asked for, plus the retries.
THEOREM PingsBounded == Spec => []PingBudget
<1>1. IInv => PingBudget
  BY DEF IInv
<1> QED BY <1>1, Invariance, PTL

-----------------------------------------------------------------------------
(* The action properties                                                   *)

LEMMA StepGivesUpLate ==
    ASSUME IInv, [Next]_vars, NEW a \in Address, Queued(a), ~Queued(a)'
    PROVE  addr_status[a] = "Available" \/ pings[a] > RetryTimes
<1> USE DEF Queued
<1>1. CASE \/ \E b \in Address : Ask(b) \/ Arrive(b)
           \/ WakeUp \/ NoMoreCommands \/ NoMorePackets \/ NoMoreRetries \/ Sleep
           \/ ConsumeGossip \/ UNCHANGED vars
  BY <1>1 DEF Ask, Arrive, WakeUp, NoMoreCommands, NoMorePackets, NoMoreRetries, Sleep,
              ConsumeGossip, vars
<1>2. CASE Tick
  <2> DEFINE Later(q) == [q EXCEPT !.deadline = IF @ < 0 THEN @ ELSE @ - 1]
  <2>1. add_queue' = {Later(q) : q \in add_queue}
    BY <1>2 DEF Tick
  <2>2. \A q \in add_queue : Later(q).address = q.address
    BY DEF IInv, TypeOK, FutureHost
  <2> QED BY <2>1, <2>2
<1>3. CASE AddHostCommand
  BY <1>3 DEF AddHostCommand, Enqueue
<1>4. CASE Retry
  <2>0. PICK q \in add_queue :
            \E again \in Again(q) : add_queue' = (add_queue \ {q}) \cup {again}
    BY <1>4 DEF Retry
  <2>1. PICK again \in Again(q) : add_queue' = (add_queue \ {q}) \cup {again}
    BY <2>0
  <2>2. again.address = q.address
    BY DEF Again, IInv, TypeOK, FutureHost
  <2> QED BY <2>1, <2>2
<1>5. CASE DropHost
  <2>1. PICK q \in add_queue : /\ addr_status[q.address] = "Available" \/ Exhausted(q)
                               /\ add_queue' = add_queue \ {q}
    BY <1>5 DEF DropHost
  <2>2. q.address = a
    BY <2>1
  <2>3. q.attempts <= pings[a] /\ q.attempts \in Nat /\ pings[a] \in Nat
    BY <2>2 DEF IInv, RetryOK, TypeOK, FutureHost
  <2> QED BY <2>1, <2>2, <2>3, AddHostAssumption DEF Exhausted
<1> QED BY <1>1, <1>2, <1>3, <1>4, <1>5 DEF Next, Poll

\* An address is given up only when it was pinged RetryTimes + 1 times, or
\* has answered.
THEOREM NotGivenUpEarly == Spec => GivesUpLate
<1>1. IInv /\ [Next]_vars =>
        [\A a \in Address : Queued(a) /\ ~Queued(a)' =>
            addr_status[a] = "Available" \/ pings[a] > RetryTimes]_vars
  BY StepGivesUpLate
<1> QED BY <1>1, Invariance, PTL DEF Spec, GivesUpLate

LEMMA StepBacksOff ==
    ASSUME IInv, [Next]_vars, NEW q \in add_queue, NEW r \in add_queue',
           q.address = r.address
    PROVE  r.timeout >= q.timeout
<1>0. /\ q.timeout \in 0..RetryCap /\ RetryCap \in Nat
      /\ \A s \in add_queue : q.address = s.address => q = s
  BY AddHostAssumption DEF IInv, OneRetry, TypeOK, FutureHost
<1>1. CASE r \in add_queue
  BY <1>0, <1>1
<1>2. CASE Tick
  <2>1. \E s \in add_queue : r = [s EXCEPT !.deadline = IF @ < 0 THEN @ ELSE @ - 1]
    BY <1>2 DEF Tick
  <2>2. \E s \in add_queue : r.address = s.address /\ r.timeout = s.timeout
    BY <2>1 DEF IInv, TypeOK, FutureHost
  <2> QED BY <1>0, <2>2
<1>3. CASE AddHostCommand /\ r \notin add_queue
  <2> DEFINE a == Head(commands)
  <2>1. addr_status[a] = "None" /\ r.address = a
    BY <1>3 DEF AddHostCommand, Enqueue
  <2> QED BY <2>1 DEF IInv, RetryOK
<1>4. CASE Retry /\ r \notin add_queue
  <2>1. PICK s \in add_queue : r \in Again(s)
    BY <1>4 DEF Retry
  <2>2. PICK t \in NextSleep(s.timeout) :
            r = [s EXCEPT !.timeout = t, !.deadline = t, !.attempts = @ + 1]
    BY <2>1 DEF Again
  <2>3. r.address = s.address /\ r.timeout = t
    BY <2>2 DEF IInv, TypeOK, FutureHost
  <2>4. s = q
    BY <1>0, <2>3
  <2> QED BY <1>0, <2>3, <2>4, NextSleepBounds
<1>5. CASE ~Tick /\ ~AddHostCommand /\ ~Retry
  <2>1. add_queue' \subseteq add_queue
    BY <1>5 DEF Next, Poll, Ask, Arrive, WakeUp, NoMoreCommands, NoMorePackets,
                NoMoreRetries, Sleep, ConsumeGossip, DropHost, vars
  <2> QED BY <1>1, <2>1
<1> QED BY <1>1, <1>2, <1>3, <1>4, <1>5

\* A retry never comes after a shorter time than the one before.
THEOREM BackOffGrows == Spec => BacksOff
<1>1. IInv /\ [Next]_vars =>
        [\A q \in add_queue, r \in add_queue' :
            q.address = r.address => r.timeout >= q.timeout]_vars
  BY StepBacksOff
<1> QED BY <1>1, Invariance, PTL DEF Spec, BacksOff

=============================================================================

------------------------------ MODULE AddHost ------------------------------
(***************************************************************************)
(* How gossip gets to know a host (src/gossip/proto.rs): AddHost commands, *)
(* the pings they cause, the status of an address, the queue of retries    *)
(* with its exponential back-off, and the timer of the future.             *)
(*                                                                         *)
(* Proto::poll goes round its loop one step at a time: `phase' says where  *)
(* it is.  Packets arrive and time passes between the steps.  Times are    *)
(* relative: how long until.  How long a deadline has been over is not     *)
(* told apart, so which of several such entries is the top of the heap is  *)
(* left open.  Peers, and the pings to them, are left out.                 *)
(***************************************************************************)
EXTENDS Integers, Sequences

CONSTANTS
    Address,
    Reachable,      \* those at which a host answers
    RetryTimes,     \* add_host_retry_times
    RetryMin,       \* add_host_retry_min
    RetryExponent,  \* add_host_retry_exponent
    RetryCap,       \* add_host_retry_cap
    RandomLow, RandomHigh,  \* add_host_retry_random, in percent
    Interval,       \* between two rounds of pings
    MaxAsked        \* bound of the model: AddHost commands

ASSUME AddHostAssumption ==
    /\ Reachable \subseteq Address
    /\ {RetryTimes, RetryMin, RetryCap, RandomLow, RandomHigh, MaxAsked} \subseteq Nat
    /\ {RetryExponent, Interval} \subseteq Nat \ {0}
    \* What the defaults, which nothing overrides, satisfy: no range gen_range
    \* gets is empty, the first sleep is within the cap, and the least factor
    \* from one sleep to the next is 1.
    /\ RandomLow < RandomHigh /\ RandomHigh * RetryMin <= 100 * RetryCap
    /\ RandomLow * RetryMin >= 100 /\ RandomLow * RetryExponent >= 100

VARIABLES
    commands,   \* the channel AddHost commands come from
    inflight,   \* addresses with a packet on its way to this node
    socket,     \* addresses of the packets that have arrived
    phase,      \* where Proto::poll is
    addr_status,
    add_queue,  \* a set of FutureHosts
    next_ping,
    clock,      \* the timer that wakes the future
    asked, pings    \* history variables: commands handled for an address, pings to it

vars == <<commands, inflight, socket, phase, addr_status, add_queue, next_ping, clock,
          asked, pings>>

FutureHost == [address : Address, deadline : -1..RetryCap, attempts : Nat,
               timeout : 0..RetryCap]

Smaller(a, b) == IF a <= b THEN a ELSE b

\* gen_range(ms * low, ms * high) as u64
Jitter(ms) == (ms * RandomLow) \div 100 .. ((ms * RandomHigh + 99) \div 100) - 1

\* add_host_first_sleep; RetryCap is not looked at.
FirstSleep == Jitter(RetryMin)

\* Fault: the back-off starts over.
NextSleepFresh(prev) == {Smaller(ms, RetryCap) : ms \in Jitter(RetryMin)}

\* add_host_next_sleep
NextSleep(prev) == {Smaller(ms, RetryCap) : ms \in Jitter(prev * RetryExponent)}

Init ==
    /\ commands = << >> /\ socket = {}
    /\ inflight \in SUBSET Reachable     \* hosts that know this one already
    /\ phase = "idle"
    /\ addr_status = [a \in Address |-> "None"]
    /\ add_queue = {}
    /\ next_ping = Interval /\ clock = Interval
    /\ asked = [a \in Address |-> 0] /\ pings = [a \in Address |-> 0]

-----------------------------------------------------------------------------
(* Around the future                                                       *)

\* Gossip::add_host: the web interface, or peers.json at the start.
Ask(a) ==
    /\ asked[a] + Len(commands) < MaxAsked
    /\ commands' = Append(commands, a)
    /\ UNCHANGED <<inflight, socket, phase, addr_status, add_queue, next_ping, clock, asked,
                   pings>>

\* A packet arrives, or is lost.
Arrive(a) ==
    /\ a \in inflight /\ inflight' = inflight \ {a}
    /\ socket' \in {socket, socket \cup {a}}
    /\ UNCHANGED <<commands, phase, addr_status, add_queue, next_ping, clock, asked, pings>>

\* Time passes.
Tick ==
    /\ add_queue' = {[q EXCEPT !.deadline = IF @ < 0 THEN @ ELSE @ - 1] : q \in add_queue}
    /\ next_ping' = IF next_ping = 0 THEN 0 ELSE next_ping - 1
    /\ clock' = IF clock = 0 THEN 0 ELSE clock - 1
    /\ UNCHANGED <<commands, inflight, socket, phase, addr_status, asked, pings>>

-----------------------------------------------------------------------------
(* Proto::poll                                                             *)

\* send_gossip, and the answer.
SendGossip(a) ==
    /\ pings' = [pings EXCEPT ![a] = @ + 1]
    /\ inflight' = IF a \in Reachable THEN inflight \cup {a} ELSE inflight

\* The reactor polls the future when one of its sources is ready.
WakeUp ==
    /\ phase = "idle"
    /\ commands # << >> \/ socket # {} \/ clock = 0
    /\ phase' = "messages"
    /\ UNCHANGED <<commands, inflight, socket, addr_status, add_queue, next_ping, clock,
                   asked, pings>>

\* Fault: a ping that is not answered yet is forgotten about.
EnqueueAlways(a) ==
    /\ addr_status' = [addr_status EXCEPT ![a] = "PingSent"]
    /\ \E timeout \in FirstSleep :
          add_queue' = add_queue \cup
            {[address |-> a, deadline |-> timeout, attempts |-> 1, timeout |-> timeout]}

\* A retry is scheduled for an address nothing is known about.
Enqueue(a) ==
    IF addr_status[a] = "None"
    THEN /\ addr_status' = [addr_status EXCEPT ![a] = "PingSent"]
         /\ \E timeout \in FirstSleep :
               add_queue' = add_queue \cup
                 {[address |-> a, deadline |-> timeout, attempts |-> 1, timeout |-> timeout]}
    ELSE UNCHANGED <<addr_status, add_queue>>

\* internal_messages
AddHostCommand ==
    /\ phase = "messages" /\ commands # << >>
    /\ commands' = Tail(commands)
    /\ LET a == Head(commands) IN
       /\ asked' = [asked EXCEPT ![a] = @ + 1]
       /\ IF addr_status[a] = "Available"
          THEN UNCHANGED <<pings, inflight, addr_status, add_queue>>
          ELSE SendGossip(a) /\ Enqueue(a)
    /\ UNCHANGED <<socket, phase, next_ping, clock>>

NoMoreCommands ==
    /\ phase = "messages" /\ commands = << >>
    /\ phase' = "receive"
    /\ UNCHANGED <<commands, inflight, socket, addr_status, add_queue, next_ping, clock,
                   asked, pings>>

\* consume_gossip: whatever the packet is, the address it came from answers.
ConsumeGossip ==
    /\ phase = "receive"
    /\ \E a \in socket :
          /\ socket' = socket \ {a}
          /\ addr_status' = [addr_status EXCEPT ![a] = "Available"]
    /\ UNCHANGED <<commands, inflight, phase, add_queue, next_ping, clock, asked, pings>>

NoMorePackets ==
    /\ phase = "receive" /\ socket = {}
    /\ phase' = "retry"
    /\ UNCHANGED <<commands, inflight, socket, addr_status, add_queue, next_ping, clock,
                   asked, pings>>

\* BinaryHeap::peek: a BinaryHeap has its greatest item on top, and
\* FutureHosts compare as their deadlines do.
OnTop(q) == q \in add_queue /\ \A r \in add_queue : r.deadline <= q.deadline

\* Fault: one retry too few.
ExhaustedEarly(q) == q.attempts >= RetryTimes

Exhausted(q) == q.attempts > RetryTimes

\* Fault: the attempts are not counted.
AgainUncounted(q) ==
    {[q EXCEPT !.timeout = t, !.deadline = t] : t \in NextSleep(q.timeout)}

Again(q) ==
    {[q EXCEPT !.timeout = t, !.deadline = t, !.attempts = @ + 1] :
        t \in NextSleep(q.timeout)}

\* Fault: the host is looked at, and stays.
DropHostPeeked ==
    /\ phase = "retry"
    /\ \E q \in add_queue :
          /\ OnTop(q) /\ q.deadline < 0
          /\ addr_status[q.address] = "Available" \/ Exhausted(q)
    /\ UNCHANGED vars

\* retry_new_hosts: one turn of its loop.
DropHost ==
    /\ phase = "retry"
    /\ \E q \in add_queue :
          /\ OnTop(q) /\ q.deadline < 0
          /\ addr_status[q.address] = "Available" \/ Exhausted(q)
          /\ add_queue' = add_queue \ {q}
    /\ UNCHANGED <<commands, inflight, socket, phase, addr_status, next_ping, clock, asked,
                   pings>>

Retry ==
    /\ phase = "retry"
    /\ \E q \in add_queue :
          /\ OnTop(q) /\ q.deadline < 0
          /\ addr_status[q.address] # "Available" /\ ~Exhausted(q)
          /\ \E again \in Again(q) : add_queue' = (add_queue \ {q}) \cup {again}
          /\ addr_status' = [addr_status EXCEPT ![q.address] = "PingSent"]
          /\ SendGossip(q.address)
    /\ UNCHANGED <<commands, socket, phase, next_ping, clock, asked>>

NoMoreRetries ==
    /\ phase = "retry"
    /\ \A q \in add_queue : OnTop(q) => q.deadline >= 0
    /\ phase' = "ping"
    /\ UNCHANGED <<commands, inflight, socket, addr_status, add_queue, next_ping, clock,
                   asked, pings>>

\* next_wakeup; a deadline that is over is due now.  There is one value: the
\* hosts on top have the same deadline.
NextWakeup(ping) ==
    IF add_queue = {} THEN {ping}
    ELSE {Smaller(ping, IF q.deadline < 0 THEN 0 ELSE q.deadline) :
             q \in {r \in add_queue : OnTop(r)}}

\* The rest of the loop: ping_hosts is due or not, the timer is set, and the
\* loop starts again if the new time is over already.
Sleep ==
    /\ phase = "ping"
    /\ next_ping' = IF next_ping = 0 THEN Interval ELSE next_ping
    /\ \E wakeup \in NextWakeup(next_ping') :
          IF wakeup = 0 THEN phase' = "messages" /\ UNCHANGED clock
                        ELSE phase' = "idle" /\ clock' = wakeup
    /\ UNCHANGED <<commands, inflight, socket, addr_status, add_queue, asked, pings>>

Poll ==
    \/ WakeUp
    \/ AddHostCommand \/ NoMoreCommands
    \/ ConsumeGossip \/ NoMorePackets
    \/ DropHost \/ Retry \/ NoMoreRetries
    \/ Sleep

Next ==
    \/ \E a \in Address : Ask(a) \/ Arrive(a)
    \/ Tick
    \/ Poll

\* The reactor polls a future that is ready, and time passes.
Spec == Init /\ [][Next]_vars /\ WF_vars(Poll) /\ WF_vars(Tick)

-----------------------------------------------------------------------------
(* Properties                                                              *)

\* Type invariant.
TypeOK ==
    /\ commands \in Seq(Address)
    /\ inflight \subseteq Reachable /\ socket \subseteq Reachable
    /\ phase \in {"idle", "messages", "receive", "retry", "ping"}
    /\ addr_status \in [Address -> {"None", "PingSent", "Available"}]
    /\ add_queue \subseteq FutureHost
    /\ next_ping \in 0..Interval /\ clock \in 0..Interval
    /\ asked \in [Address -> Nat] /\ pings \in [Address -> Nat]

\* However often an address is asked for, whatever arrives in between, it has
\* one retry at most ("to avoid memory leaks").
OneRetry == \A q, r \in add_queue : q.address = r.address => q = r

\* Asking for an address costs at most one ping, and RetryTimes in all on top.
PingBudget == \A a \in Address : pings[a] <= asked[a] + RetryTimes

\* An address leaves the queue when it has answered, or when all its retries
\* ("Number of times to retry failed AddHost") were sent and not answered.
Queued(a) == \E q \in add_queue : q.address = a
GivesUpLate ==
    [][\A a \in Address : Queued(a) /\ ~Queued(a)' =>
          addr_status[a] = "Available" \/ pings[a] > RetryTimes]_vars

\* The time between two retries never gets shorter.
BacksOff ==
    [][\A q \in add_queue, r \in add_queue' :
          q.address = r.address => r.timeout >= q.timeout]_vars

\* And the end of it comes: the queue does not keep an address forever.
Settled == \A a \in Address : Queued(a) ~> ~Queued(a)

-----------------------------------------------------------------------------
(* The inductive invariant of AddHostProofs                                *)

\* An attempt is a ping, and a ping is an attempt or was asked for.
RetryOK ==
    /\ \A q \in add_queue :
          /\ addr_status[q.address] # "None"
          /\ q.attempts <= RetryTimes + 1
          /\ q.attempts <= pings[q.address]
          /\ pings[q.address] < asked[q.address] + q.attempts
    /\ \A a \in Address : addr_status[a] = "None" => pings[a] = 0

IInv == TypeOK /\ OneRetry /\ PingBudget /\ RetryOK

-----------------------------------------------------------------------------
(* What the repository says and the code does not do                       *)

\* config.rs, "A timeout of the first retry": when the retries of a round are
\* done, no host still waits for its first retry with that timeout over.
FirstRetryInTime ==
    [][phase = "retry" /\ phase' = "ping" =>
          \A q \in add_queue : q.attempts = 1 => q.deadline >= 0]_vars

=============================================================================

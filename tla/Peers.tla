------------------------------- MODULE Peers -------------------------------
(***************************************************************************)
(* What the gossiping nodes of a cluster know about one host (src/gossip). *)
(* The host sends packets to nodes, and answers pings while it is up;      *)
(* nodes tell each other when they heard of it, and forget it in the end.  *)
(* The peers of a node are independent of each other, so one host stands   *)
(* for all.  AddHost has how nodes are introduced, Storage what becomes of *)
(* the peers the garbage collector stores.                                 *)
(*                                                                         *)
(* Every node stamps reports by its own clock.  A time stamp is written as *)
(* an age: the time since, on a clock that has no offset.  An age grows    *)
(* until it is above what it is compared with: from there on all ages, and *)
(* never, are the same.  A packet is lost, or arrives within MaxDelay.     *)
(* Nodes exchange packets at any time, as they know each other; a host has *)
(* one address.                                                            *)
(***************************************************************************)
EXTENDS Integers, FiniteSets

CONSTANTS
    Node,
    Offset,         \* how much the clock of a node is ahead
    MinPing, MaxPing, FailTime, RemoveTime,  \* of gossip::Config
    GCInterval,     \* garbage_collector_interval
    MaxDelay,       \* of a packet
    MaxSkew,        \* between two clocks
    NoPeer,
    MaxPackets, MaxDeaths, MaxRestarts  \* bounds of the model

ASSUME PeersAssumption ==
    /\ Offset \in [Node -> Nat]
    /\ \A n, m \in Node : Offset[n] - Offset[m] <= MaxSkew
    /\ {MinPing, MaxPing, FailTime, RemoveTime, GCInterval, MaxDelay, MaxSkew, MaxPackets,
        MaxDeaths, MaxRestarts} \subseteq Nat
    \* "FAIL_TIME + some big value < REMOVE_TIME"
    /\ FailTime + MaxDelay <= RemoveTime
    \* The clocks are synchronised, and garbage is collected, better than this.
    /\ MaxSkew + GCInterval <= FailTime
    /\ NoPeer \notin [report : Int, probe : Nat]

VARIABLES
    up, died,       \* of the host: whether it is up, the age of its end (0 when up)
    peers,          \* the Peer of the host at each node
    next_gc,
    packets,
    heard,          \* history variable: the age of the last packet from the host
    deaths, restarts

vars == <<up, died, peers, next_gc, packets, heard, deaths, restarts>>

Aged(age, limit) == IF age <= limit THEN age + 1 ELSE age

\* When the host has to be gone.
Deadline == FailTime + RemoveTime + MaxDelay

\* To a node, from the host or about it; and from a node to the host.
Direct(n)         == [type |-> "direct", node |-> n, age |-> 0]
Friend(n, report) == [type |-> "friend", node |-> n, report |-> report, age |-> 0]
Ping(n)           == [type |-> "ping", node |-> n, age |-> 0]

\* sock.send_to, when `rest' is under way.
Send(packet, rest) ==
    packets' = IF Cardinality(rest) < MaxPackets THEN rest \cup {packet} ELSE rest

Init ==
    /\ up = TRUE /\ died = 0
    /\ peers = [n \in Node |-> NoPeer]
    /\ next_gc = [n \in Node |-> GCInterval]
    /\ packets = {}
    /\ heard = [n \in Node |-> RemoveTime + 1]
    /\ deaths = 0 /\ restarts = 0

-----------------------------------------------------------------------------
(* The host                                                                *)

\* A ping of the host, which knows the node.
HostPings(n) ==
    /\ up /\ Send(Direct(n), packets)
    /\ UNCHANGED <<up, died, peers, next_gc, heard, deaths, restarts>>

Answer(p) ==
    /\ up /\ p.type = "ping"
    /\ Send(Direct(p.node), packets \ {p})
    /\ UNCHANGED <<up, died, peers, next_gc, heard, deaths, restarts>>

Die ==
    /\ up /\ deaths < MaxDeaths
    /\ up' = FALSE /\ deaths' = deaths + 1
    /\ UNCHANGED <<died, peers, next_gc, packets, heard, restarts>>

Return ==
    /\ ~up /\ up' = TRUE /\ died' = 0
    /\ UNCHANGED <<peers, next_gc, packets, heard, deaths, restarts>>

-----------------------------------------------------------------------------
(* Nodes                                                                   *)

\* The age by the clock of the node.
LocalAge(n) == peers[n].report + Offset[n]

HasFreshReport(n) == LocalAge(n) <= MinPing /\ peers[n].probe <= MaxPing

\* Fault: failing hosts are recommended.
IsFailingNever(n) == FALSE

IsFailing(n) == LocalAge(n) > FailTime

\* Fault: the time for failing hosts is added.
ShouldRemoveLate(n) == LocalAge(n) > FailTime + RemoveTime

ShouldRemove(n) == LocalAge(n) > RemoveTime

\* Fault: what arrives last counts.
ApplyReportLast(peer, report) == [peer EXCEPT !.report = report]

\* "apply only newer report"
ApplyReport(peer, report) == IF report < peer.report THEN [peer EXCEPT !.report = report] ELSE peer

\* consume_gossip: a ping or a pong of the host.
ReceiveDirect(p) ==
    /\ p.type = "direct" /\ packets' = packets \ {p}
    /\ peers' = [peers EXCEPT ![p.node] =
          IF @ = NoPeer THEN [report |-> -Offset[p.node], probe |-> MaxPing + 1]
                        ELSE ApplyReport(@, -Offset[p.node])]
    /\ heard' = [heard EXCEPT ![p.node] = 0]
    /\ UNCHANGED <<up, died, next_gc, deaths, restarts>>

\* get_friends: a packet of node n to node m mentions the host.
SendFriend(n, m) ==
    /\ n # m /\ peers[n] # NoPeer /\ ~IsFailing(n)
    /\ Send(Friend(m, peers[n].report), packets)
    /\ UNCHANGED <<up, died, peers, next_gc, heard, deaths, restarts>>

\* Fault: friends nobody asked for are ignored.
ReceiveFriendKnown(p) ==
    /\ p.type = "friend" /\ packets' = packets \ {p}
    /\ peers' = IF peers[p.node] = NoPeer THEN peers
                ELSE [peers EXCEPT ![p.node] = ApplyReport(@, p.report)]
    /\ UNCHANGED <<up, died, next_gc, heard, deaths, restarts>>

\* apply_friends: a host that is new is pinged.
ReceiveFriend(p) ==
    /\ p.type = "friend"
    /\ IF peers[p.node] = NoPeer
       THEN /\ peers' = [peers EXCEPT ![p.node] = [report |-> p.report, probe |-> 0]]
            /\ Send(Ping(p.node), packets \ {p})
       ELSE /\ peers' = [peers EXCEPT ![p.node] = ApplyReport(@, p.report)]
            /\ packets' = packets \ {p}
    /\ UNCHANGED <<up, died, next_gc, heard, deaths, restarts>>

\* ping_hosts, when it comes to the host.
PingHost(n) ==
    /\ peers[n] # NoPeer /\ ~HasFreshReport(n)
    /\ peers' = [peers EXCEPT ![n].probe = 0]
    /\ Send(Ping(n), packets)
    /\ UNCHANGED <<up, died, next_gc, heard, deaths, restarts>>

\* garbage_collector
GarbageCollector(n) ==
    /\ next_gc[n] = 0 /\ next_gc' = [next_gc EXCEPT ![n] = GCInterval]
    /\ peers' = IF peers[n] # NoPeer /\ ShouldRemove(n)
                THEN [peers EXCEPT ![n] = NoPeer] ELSE peers
    /\ UNCHANGED <<up, died, packets, heard, deaths, restarts>>

\* The process of the node starts anew; peers.json has addresses only.
Restart(n) ==
    /\ restarts < MaxRestarts /\ restarts' = restarts + 1
    /\ peers' = [peers EXCEPT ![n] = NoPeer]
    /\ next_gc' = [next_gc EXCEPT ![n] = GCInterval]
    /\ heard' = [heard EXCEPT ![n] = RemoveTime + 1]
    /\ UNCHANGED <<up, died, packets, deaths>>

-----------------------------------------------------------------------------
(* The network and the time                                                *)

\* One unit of time, once the garbage that is due is collected.  Packets that
\* have not arrived by now were lost.
Tick ==
    /\ \A n \in Node : next_gc[n] > 0
    /\ died' = IF up THEN 0 ELSE Aged(died, Deadline)
    /\ peers' = [n \in Node |->
          IF peers[n] = NoPeer THEN NoPeer
          ELSE [report |-> Aged(peers[n].report, RemoveTime),
                probe |-> Aged(peers[n].probe, MaxPing)]]
    /\ next_gc' = [n \in Node |-> next_gc[n] - 1]
    /\ packets' = {IF p.type = "friend" THEN [p EXCEPT !.age = @ + 1, !.report = Aged(@, RemoveTime)]
                                        ELSE [p EXCEPT !.age = @ + 1] :
                     p \in {q \in packets : q.age < MaxDelay}}
    /\ heard' = [n \in Node |-> Aged(heard[n], RemoveTime)]
    /\ UNCHANGED <<up, deaths, restarts>>

Next ==
    \/ \E n \in Node :
          \/ HostPings(n) \/ PingHost(n) \/ GarbageCollector(n) \/ Restart(n)
          \/ \E m \in Node : SendFriend(n, m)
    \/ \E p \in packets : Answer(p) \/ ReceiveDirect(p) \/ ReceiveFriend(p)
    \/ Die \/ Return \/ Tick

\* Time passes and garbage is collected; a node that can recommend the host
\* to another one again and again (it knows the node, and picks friends at
\* random) does so, and of packets sent again and again one arrives.
Fairness ==
    /\ WF_vars(Tick) /\ WF_vars(\E n \in Node : GarbageCollector(n))
    /\ \A n \in Node :
          /\ SF_vars(\E p \in packets : p.node = n /\ ReceiveFriend(p))
          /\ SF_vars(\E m \in Node : SendFriend(m, n))

Spec == Init /\ [][Next]_vars /\ Fairness

-----------------------------------------------------------------------------
(* Properties                                                              *)

\* Type invariant.  A host that is recommended was not failing by the clock of
\* the node that did so.
Packet ==
    [type : {"direct", "ping"}, node : Node, age : 0..MaxDelay] \cup
    [type : {"friend"}, node : Node, report : Int, age : 0..MaxDelay]
TypeOK ==
    /\ up \in BOOLEAN /\ died \in 0..(Deadline + 1)
    /\ peers \in [Node -> [report : Int, probe : 0..(MaxPing + 1)] \cup {NoPeer}]
    /\ next_gc \in [Node -> 0..GCInterval]
    /\ packets \subseteq Packet
    /\ \A p \in packets : p.type = "friend" =>
          \E n \in Node : p.report + Offset[n] <= FailTime + p.age
    /\ heard \in [Node -> 0..(RemoveTime + 1)]
    /\ deaths \in Nat /\ restarts \in Nat

\* "node will be removed from all peers after FAIL_TIME + REMOVE_TIME +
\* longest-round-trip-time": whatever nodes tell each other meanwhile.
RemovedInTime ==
    died > Deadline => \A n \in Node : peers[n] = NoPeer

\* A host that is dead is not learnt of anew, by nodes that have forgotten it
\* or never knew it, after it is failing everywhere.
NotBack ==
    [][\A n \in Node : peers[n] = NoPeer /\ peers'[n] # NoPeer =>
          died <= FailTime + MaxSkew + 2 * MaxDelay]_vars

\* A node forgets a host only if it did not hear from it for RemoveTime by its
\* own clock (or starts anew), whatever other nodes say about the host.
KeptWhileHeard ==
    [][\A n \in Node : peers[n] # NoPeer /\ peers'[n] = NoPeer => heard'[n] > RemoveTime]_vars

\* "You need to add a peer address at any node and every node will know it."
Discovered ==
    \A n, m \in Node :
        peers[n] # NoPeer /\ up ~> peers[m] # NoPeer \/ peers[n] = NoPeer \/ ~up

-----------------------------------------------------------------------------
(* The inductive invariant of PeersProofs                                  *)

\* Packets of a host that is dead are no younger than its end.
DeadOK ==
    /\ up => died = 0
    /\ \A p \in packets : p.type = "direct" => died <= p.age

\* By no clock a report is much younger than the end of the host.
NotYounger(report) ==
    report > RemoveTime \/ \A n \in Node : died <= report + Offset[n] + MaxDelay + MaxSkew
ReportsOK ==
    /\ \A n \in Node : peers[n] # NoPeer => NotYounger(peers[n].report)
    /\ \A p \in packets : p.type = "friend" => NotYounger(p.report)

\* A host that is known was not to be removed by the last garbage collection.
GarbageOK ==
    \A n \in Node : peers[n] # NoPeer =>
        died + next_gc[n] <= RemoveTime + MaxDelay + MaxSkew + GCInterval

\* The report of a node is not older than the last packet from the host.
HeardOK ==
    \A n \in Node : heard[n] <= RemoveTime =>
        peers[n] # NoPeer /\ LocalAge(n) <= heard[n]

IInv == TypeOK /\ DeadOK /\ ReportsOK /\ GarbageOK /\ HeardOK

=============================================================================

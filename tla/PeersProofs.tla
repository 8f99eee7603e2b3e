---------------------------- MODULE PeersProofs ----------------------------
(***************************************************************************)
(* Proofs about Peers, for every set of nodes and all times the assumption *)
(* of Peers admits.                                                        *)
(***************************************************************************)
EXTENDS Peers, TLAPS

-----------------------------------------------------------------------------
(* The inductive invariant, node by node and packet by packet              *)

Peer == [report : Int, probe : 0..(MaxPing + 1)]

HostOK ==
    /\ up \in BOOLEAN /\ died \in 0..(Deadline + 1) /\ (up => died = 0)
    /\ deaths \in Nat /\ restarts \in Nat

NodeOK(n) ==
    /\ peers[n] \in Peer \cup {NoPeer}
    /\ next_gc[n] \in 0..GCInterval
    /\ heard[n] \in 0..(RemoveTime + 1)
    /\ peers[n] # NoPeer =>
          /\ NotYounger(peers[n].report)
          /\ died + next_gc[n] <= RemoveTime + MaxDelay + MaxSkew + GCInterval
    /\ heard[n] <= RemoveTime => peers[n] # NoPeer /\ LocalAge(n) <= heard[n]

Tables ==
    /\ peers = [n \in Node |-> peers[n]] /\ next_gc = [n \in Node |-> next_gc[n]]
    /\ heard = [n \in Node |-> heard[n]]

PacketOK(p) ==
    /\ p \in Packet
    /\ p.type = "direct" => died <= p.age
    /\ p.type = "friend" =>
          /\ \E n \in Node : p.report + Offset[n] <= FailTime + p.age
          /\ NotYounger(p.report)

\* What the constants are.
LEMMA Constants ==
    /\ \A n \in Node : Offset[n] \in Nat
    /\ \A n, m \in Node : Offset[n] - Offset[m] <= MaxSkew
    /\ MinPing \in Nat /\ MaxPing \in Nat /\ FailTime \in Nat /\ RemoveTime \in Nat
    /\ GCInterval \in Nat /\ MaxDelay \in Nat /\ MaxSkew \in Nat
    /\ MaxPackets \in Nat /\ MaxDeaths \in Nat /\ MaxRestarts \in Nat
    /\ FailTime + MaxDelay <= RemoveTime /\ MaxSkew + GCInterval <= FailTime
    /\ NoPeer \notin Peer /\ Deadline \in Nat
BY PeersAssumption DEF Peer, Deadline

\* The parts of the invariant.
LEMMA Parts ==
    IInv => HostOK /\ Tables /\ (\A n \in Node : NodeOK(n)) /\ (\A p \in packets : PacketOK(p))
BY DEF IInv, TypeOK, DeadOK, ReportsOK, GarbageOK, HeardOK, HostOK, Tables, NodeOK, PacketOK, Peer

\* And the invariant from its parts, of the next state.
LEMMA Assembled ==
    ASSUME HostOK', Tables', \A n \in Node : NodeOK(n)', \A p \in packets' : PacketOK(p)'
    PROVE  IInv'
<1>1. TypeOK'
  <2>1. peers' \in [Node -> Peer \cup {NoPeer}] /\ next_gc' \in [Node -> 0..GCInterval]
        /\ heard' \in [Node -> 0..(RemoveTime + 1)]
    BY DEF Tables, NodeOK
  <2> QED BY <2>1 DEF TypeOK, HostOK, PacketOK, Peer
<1>2. DeadOK'
  BY DEF DeadOK, HostOK, PacketOK
<1>3. ReportsOK'
  BY DEF ReportsOK, NodeOK, PacketOK
<1>4. GarbageOK'
  BY DEF GarbageOK, NodeOK
<1>5. HeardOK'
  BY DEF HeardOK, NodeOK
<1> QED BY <1>1, <1>2, <1>3, <1>4, <1>5 DEF IInv

-----------------------------------------------------------------------------
(* Lemmas about the operators                                              *)

\* A report that is applied leaves the younger one of the two.
LEMMA ApplyReportYounger ==
    ASSUME NEW peer \in Peer, NEW report \in Int
    PROVE  /\ ApplyReport(peer, report) \in Peer
           /\ ApplyReport(peer, report).report \in {peer.report, report}
           /\ ApplyReport(peer, report).report <= peer.report
           /\ ApplyReport(peer, report).report <= report
BY DEF ApplyReport, Peer

\* What is under way after a packet is sent.
LEMMA SendAdds ==
    ASSUME NEW packet, NEW rest, Send(packet, rest)
    PROVE  packets' \subseteq rest \cup {packet}
BY DEF Send

\* The packets that are sent.
LEMMA Sent ==
    ASSUME NEW n \in Node, NEW report \in Int
    PROVE  /\ Direct(n) \in Packet /\ Direct(n).type = "direct" /\ Direct(n).age = 0
           /\ Ping(n) \in Packet /\ Ping(n).type = "ping"
           /\ Friend(n, report) \in Packet /\ Friend(n, report).type = "friend"
           /\ Friend(n, report).report = report /\ Friend(n, report).age = 0
BY Constants DEF Direct, Ping, Friend, Packet

\* The end of the host is not known to come nearer but when time passes.
LEMMA NotYoungerKept ==
    ASSUME HostOK, died' \in Nat, died' <= died, NEW report \in Int, NotYounger(report)
    PROVE  NotYounger(report)'
BY Constants DEF HostOK, NotYounger

\* A packet that stays under way.
LEMMA PacketKept ==
    ASSUME HostOK, died' \in Nat, died' <= died, NEW p, PacketOK(p)
    PROVE  PacketOK(p)'
<1>1. p.type = "direct" => died' <= p.age
  BY DEF PacketOK, HostOK, Packet
<1>2. p.type = "friend" => p.report \in Int
  BY DEF PacketOK, Packet
<1> QED BY <1>1, <1>2, NotYoungerKept DEF PacketOK

\* A node at which nothing happens.
LEMMA NodeKept ==
    ASSUME HostOK, died' \in Nat, died' <= died, NEW n \in Node, NodeOK(n),
           peers'[n] = peers[n], next_gc'[n] = next_gc[n], heard'[n] = heard[n]
    PROVE  NodeOK(n)'
<1>1. died \in Nat /\ next_gc[n] \in Nat
  BY DEF HostOK, NodeOK
<1>2. peers[n] # NoPeer => peers[n].report \in Int
  BY DEF NodeOK, Peer
<1>3. peers[n] # NoPeer => NotYounger(peers[n].report)'
  BY <1>1, <1>2, Constants DEF NodeOK, NotYounger
<1>4. peers[n] # NoPeer => died' + next_gc[n] <= RemoveTime + MaxDelay + MaxSkew + GCInterval
  BY <1>1, Constants DEF NodeOK
<1> QED BY <1>3, <1>4 DEF NodeOK, LocalAge

\* A friend is not older than what makes its host removed.
LEMMA FriendInTime ==
    ASSUME HostOK, NEW p, PacketOK(p), p.type = "friend"
    PROVE  p.report \in Int /\ died <= FailTime + 2 * MaxDelay + MaxSkew
<1>1. p.report \in Int /\ p.age \in 0..MaxDelay
  BY DEF PacketOK, Packet
<1>2. PICK n \in Node : p.report + Offset[n] <= FailTime + p.age
  BY DEF PacketOK
<1>3. p.report <= RemoveTime
  BY <1>1, <1>2, Constants
<1>4. died <= p.report + Offset[n] + MaxDelay + MaxSkew
  BY <1>1, <1>3, Constants DEF PacketOK, NotYounger
<1> QED BY <1>1, <1>2, <1>4, Constants DEF HostOK

-----------------------------------------------------------------------------
(* The invariant holds at first, and is preserved by every action          *)

LEMMA InitInv == Init => IInv
<1> SUFFICES ASSUME Init PROVE IInv
  OBVIOUS
<1>1. \A n \in Node : heard[n] = RemoveTime + 1 /\ peers[n] = NoPeer /\ next_gc[n] = GCInterval
  BY DEF Init
<1>2. TypeOK
  BY Constants DEF Init, TypeOK
<1>3. DeadOK /\ ReportsOK
  BY <1>1 DEF Init, DeadOK, ReportsOK
<1>4. GarbageOK /\ HeardOK
  BY <1>1, Constants DEF GarbageOK, HeardOK
<1> QED BY <1>2, <1>3, <1>4 DEF IInv

\* A step in which only packets change, one of them being new.
LEMMA PacketsOnly ==
    ASSUME IInv, HostOK', died' \in Nat, died' <= died, UNCHANGED <<peers, next_gc, heard>>,
           \A p \in packets' : PacketOK(p) \/ PacketOK(p)'
    PROVE  IInv'
<1>1. HostOK /\ Tables /\ \A n \in Node : NodeOK(n)
  BY Parts
<1>2. \A n \in Node : NodeOK(n)'
  BY <1>1, NodeKept
<1>3. \A p \in packets' : PacketOK(p)'
  BY <1>1, PacketKept
<1>4. Tables'
  BY <1>1 DEF Tables
<1> QED BY <1>2, <1>3, <1>4, Assembled

\* The host sends a packet, dies or comes back.
LEMMA HostStep ==
    ASSUME IInv, \/ \E n \in Node : HostPings(n)
                 \/ \E p \in packets : Answer(p)
                 \/ Die \/ Return
    PROVE  IInv'
<1>1. HostOK /\ \A p \in packets : PacketOK(p)
  BY Parts
<1>2. ASSUME NEW n \in Node, HostPings(n) PROVE IInv'
  <2>1. HostOK' /\ died' = died /\ died \in Nat /\ died = 0
    BY <1>1, <1>2 DEF HostPings, HostOK
  <2>2. packets' \subseteq packets \cup {Direct(n)}
    BY <1>2, SendAdds DEF HostPings
  <2>3. PacketOK(Direct(n))
    BY <2>1, Sent DEF PacketOK
  <2>4. UNCHANGED <<peers, next_gc, heard>>
    BY <1>2 DEF HostPings
  <2> QED BY <1>1, <2>1, <2>2, <2>3, <2>4, PacketsOnly
<1>3. ASSUME NEW p \in packets, Answer(p) PROVE IInv'
  <2>1. HostOK' /\ died' = died /\ died \in Nat /\ died = 0
    BY <1>1, <1>3 DEF Answer, HostOK
  <2>2. packets' \subseteq packets \cup {Direct(p.node)}
    BY <1>3, SendAdds DEF Answer
  <2>3. p.node \in Node
    BY <1>1, <1>3 DEF PacketOK, Packet
  <2>4. PacketOK(Direct(p.node))
    BY <2>1, <2>3, Sent DEF PacketOK
  <2>5. UNCHANGED <<peers, next_gc, heard>>
    BY <1>3 DEF Answer
  <2> QED BY <1>1, <2>1, <2>2, <2>4, <2>5, PacketsOnly
<1>4. CASE Die
  <2>1. up' = FALSE /\ deaths' = deaths + 1 /\ UNCHANGED <<died, peers, next_gc, packets, heard, restarts>>
    BY <1>4 DEF Die
  <2>2. deaths' \in Nat /\ died \in Nat
    BY <1>1, <2>1 DEF HostOK
  <2>3. HostOK'
    BY <1>1, <2>1, <2>2 DEF HostOK
  <2> QED BY <1>1, <2>1, <2>2, <2>3, PacketsOnly
<1>5. CASE Return
  <2>1. HostOK' /\ died' \in Nat /\ died' <= died /\ packets' = packets
    BY <1>1, <1>5, Constants DEF Return, HostOK
  <2>2. UNCHANGED <<peers, next_gc, heard>>
    BY <1>5 DEF Return
  <2> QED BY <1>1, <2>1, <2>2, PacketsOnly
<1> QED BY <1>2, <1>3, <1>4, <1>5

\* A node recommends the host.
LEMMA SendFriendStep ==
    ASSUME IInv, NEW n \in Node, NEW m \in Node, SendFriend(n, m)
    PROVE  IInv'
<1>1. HostOK /\ NodeOK(n) /\ \A p \in packets : PacketOK(p)
  BY Parts
<1>2. HostOK' /\ died' = died /\ died \in Nat
  BY <1>1 DEF SendFriend, HostOK
<1> DEFINE q == Friend(m, peers[n].report)
<1>3. packets' \subseteq packets \cup {q}
  BY SendAdds DEF SendFriend
<1>4. peers[n].report \in Int /\ NotYounger(peers[n].report)
  BY <1>1 DEF SendFriend, NodeOK, Peer
<1>5. peers[n].report + Offset[n] <= FailTime
  BY <1>4, Constants DEF SendFriend, IsFailing, LocalAge
<1>6. q \in Packet /\ q.type = "friend" /\ q.report = peers[n].report /\ q.age = 0
  BY <1>4, Sent
<1> HIDE DEF q
<1>7. q.report + Offset[n] <= FailTime + q.age
  BY <1>5, <1>6, Constants
<1>8. PacketOK(q)
  BY <1>4, <1>6, <1>7 DEF PacketOK
<1>9. UNCHANGED <<peers, next_gc, heard>>
  BY DEF SendFriend
<1> QED BY <1>1, <1>2, <1>3, <1>8, <1>9, PacketsOnly

\* A step of one node, at which only its peer, its timer and what it heard of
\* the host change.
LEMMA NodeStep ==
    ASSUME IInv, NEW n \in Node, HostOK', died' = died, Tables', NodeOK(n)',
           \A m \in Node \ {n} : /\ peers'[m] = peers[m] /\ next_gc'[m] = next_gc[m]
                                 /\ heard'[m] = heard[m],
           \A p \in packets' : p \in packets \/ PacketOK(p)
    PROVE  IInv'
<1>1. HostOK /\ (\A m \in Node : NodeOK(m)) /\ \A p \in packets : PacketOK(p)
  BY Parts
<1>2. died' \in Nat /\ died' <= died
  BY <1>1 DEF HostOK
<1>3. \A m \in Node : NodeOK(m)'
  BY <1>1, <1>2, NodeKept
<1>4. \A p \in packets' : PacketOK(p)'
  BY <1>1, <1>2, PacketKept
<1> QED BY <1>3, <1>4, Assembled

\* A packet of the host arrives.
LEMMA ReceiveDirectStep ==
    ASSUME IInv, NEW p \in packets, ReceiveDirect(p)
    PROVE  IInv'
<1> DEFINE n == p.node
<1>1. HostOK /\ Tables /\ PacketOK(p) /\ \A m \in Node : NodeOK(m)
  BY Parts
<1>2. n \in Node /\ p.age \in 0..MaxDelay /\ died <= p.age /\ died \in Nat
  BY <1>1 DEF ReceiveDirect, PacketOK, Packet, HostOK
<1>3. HostOK' /\ died' = died /\ Tables'
  BY <1>1, <1>2 DEF ReceiveDirect, HostOK, Tables
<1> DEFINE report == -Offset[n]
           peer   == IF peers[n] = NoPeer THEN [report |-> -Offset[n], probe |-> MaxPing + 1]
                                          ELSE ApplyReport(peers[n], -Offset[n])
<1>4. peers'[n] = peer /\ heard'[n] = 0 /\ next_gc'[n] = next_gc[n] /\ packets' \subseteq packets
  BY <1>1, <1>2 DEF ReceiveDirect, Tables
<1>5. \A m \in Node \ {n} : peers'[m] = peers[m] /\ next_gc'[m] = next_gc[m] /\ heard'[m] = heard[m]
  BY <1>1, <1>2 DEF ReceiveDirect, Tables
<1>6. report \in Int /\ report + Offset[n] = 0
  BY <1>2, Constants
<1>7. NotYounger(report)
  BY <1>2, <1>6, Constants DEF NotYounger
<1>8. peer \in Peer /\ peer.report <= report /\ NotYounger(peer.report)
  <2>1. CASE peers[n] = NoPeer
    <3>1. peer = [report |-> report, probe |-> MaxPing + 1]
      BY <2>1
    <3> QED BY <3>1, <1>6, <1>7, Constants DEF Peer
  <2>2. CASE peers[n] # NoPeer
    <3>1. peers[n] \in Peer /\ NotYounger(peers[n].report)
      BY <1>1, <1>2, <2>2 DEF NodeOK
    <3>2. peer = ApplyReport(peers[n], report)
      BY <2>2
    <3> HIDE DEF peer, report
    <3> QED BY <1>6, <1>7, <3>1, <3>2, ApplyReportYounger
  <2> QED BY <2>1, <2>2
<1> HIDE DEF peer, report
<1>9. NodeOK(n)'
  <2>1. peer # NoPeer /\ peer.report + Offset[n] <= 0
    BY <1>2, <1>6, <1>8, Constants DEF Peer
  <2>2. NotYounger(peers[n].report)'
    BY <1>3, <1>4, <1>8 DEF NotYounger
  <2>3. died + next_gc[n] <= RemoveTime + MaxDelay + MaxSkew + GCInterval
    BY <1>1, <1>2, Constants DEF NodeOK
  <2> QED BY <1>1, <1>2, <1>3, <1>4, <1>8, <2>1, <2>2, <2>3, Constants DEF NodeOK, LocalAge
<1> QED BY <1>2, <1>3, <1>4, <1>5, <1>9, NodeStep

\* A node is told of the host.
LEMMA ReceiveFriendStep ==
    ASSUME IInv, NEW p \in packets, ReceiveFriend(p)
    PROVE  IInv'
<1> DEFINE n == p.node
<1>1. HostOK /\ Tables /\ PacketOK(p) /\ \A m \in Node : NodeOK(m)
  BY Parts
<1>2. n \in Node /\ p.report \in Int /\ NotYounger(p.report) /\ died \in Nat
      /\ died <= FailTime + 2 * MaxDelay + MaxSkew
  BY <1>1, FriendInTime DEF ReceiveFriend, PacketOK, Packet, HostOK
<1>3. HostOK' /\ died' = died /\ Tables'
  BY <1>1, <1>2 DEF ReceiveFriend, HostOK, Tables
<1>4. heard'[n] = heard[n] /\ next_gc'[n] = next_gc[n]
  BY DEF ReceiveFriend
<1>5. \A m \in Node \ {n} : peers'[m] = peers[m] /\ next_gc'[m] = next_gc[m] /\ heard'[m] = heard[m]
  BY <1>1, <1>2 DEF ReceiveFriend, Tables
<1>6. \A q \in packets' : q \in packets \/ PacketOK(q)
  <2>1. packets' \subseteq (packets \ {p}) \cup {Ping(n)}
    BY SendAdds DEF ReceiveFriend
  <2>2. PacketOK(Ping(n))
    BY <1>2, Sent DEF PacketOK
  <2> QED BY <2>1, <2>2
<1>7. NodeOK(n)'
  <2>1. CASE peers[n] = NoPeer
    <3>1. peers'[n] = [report |-> p.report, probe |-> 0]
      BY <1>1, <1>2, <2>1 DEF ReceiveFriend, Tables
    <3>2. peers'[n] \in Peer /\ peers'[n].report = p.report
      BY <1>2, <3>1, Constants DEF Peer
    <3>3. NotYounger(peers[n].report)'
      BY <1>2, <1>3, <3>2 DEF NotYounger
    <3>4. died + next_gc[n] <= RemoveTime + MaxDelay + MaxSkew + GCInterval
      BY <1>1, <1>2, Constants DEF NodeOK
    <3>5. ~(heard[n] <= RemoveTime)
      BY <1>1, <1>2, <2>1 DEF NodeOK
    <3> QED BY <1>1, <1>2, <1>3, <1>4, <3>2, <3>3, <3>4, <3>5 DEF NodeOK
  <2>2. CASE peers[n] # NoPeer
    <3>1. peers'[n] = ApplyReport(peers[n], p.report)
      BY <1>1, <1>2, <2>2 DEF ReceiveFriend, Tables
    <3>2. peers[n] \in Peer /\ NotYounger(peers[n].report)
      BY <1>1, <1>2, <2>2 DEF NodeOK
    <3>3. /\ peers'[n] \in Peer /\ peers'[n].report \in {peers[n].report, p.report}
          /\ peers'[n].report <= peers[n].report
      BY <1>2, <3>1, <3>2, ApplyReportYounger
    <3>4. NotYounger(peers[n].report)'
      BY <1>2, <1>3, <3>2, <3>3 DEF NotYounger
    <3>5. heard[n] <= RemoveTime => peers'[n].report + Offset[n] <= heard[n]
      BY <1>1, <1>2, <3>2, <3>3, Constants DEF NodeOK, LocalAge, Peer
    <3>6. peers'[n] # NoPeer
      BY <3>3, Constants
    <3> QED BY <1>1, <1>2, <1>3, <1>4, <2>2, <3>3, <3>4, <3>5, <3>6 DEF NodeOK, LocalAge
  <2> QED BY <2>1, <2>2
<1> QED BY <1>2, <1>3, <1>5, <1>6, <1>7, NodeStep

\* A node pings the host.
LEMMA PingHostStep ==
    ASSUME IInv, NEW n \in Node, PingHost(n)
    PROVE  IInv'
<1>1. HostOK /\ Tables /\ NodeOK(n)
  BY Parts
<1>2. HostOK' /\ died' = died /\ Tables'
  BY <1>1 DEF PingHost, HostOK, Tables
<1>3. /\ peers'[n] = [peers[n] EXCEPT !.probe = 0]
      /\ heard'[n] = heard[n] /\ next_gc'[n] = next_gc[n]
  BY <1>1 DEF PingHost, Tables
<1>4. \A m \in Node \ {n} : peers'[m] = peers[m] /\ next_gc'[m] = next_gc[m] /\ heard'[m] = heard[m]
  BY <1>1 DEF PingHost, Tables
<1>5. \A q \in packets' : q \in packets \/ PacketOK(q)
  <2>1. packets' \subseteq packets \cup {Ping(n)}
    BY SendAdds DEF PingHost
  <2>2. PacketOK(Ping(n))
    BY Sent DEF PacketOK
  <2> QED BY <2>1, <2>2
<1>6. peers[n] # NoPeer /\ peers[n] \in Peer
  BY <1>1 DEF PingHost, NodeOK
<1>7. peers'[n] \in Peer /\ peers'[n] # NoPeer /\ peers'[n].report = peers[n].report
  BY <1>3, <1>6, Constants DEF Peer
<1>8. NotYounger(peers[n].report)'
  BY <1>1, <1>2, <1>6, <1>7 DEF NotYounger, NodeOK
<1>9. NodeOK(n)'
  BY <1>1, <1>2, <1>3, <1>6, <1>7, <1>8 DEF NodeOK, LocalAge
<1> QED BY <1>2, <1>4, <1>5, <1>9, NodeStep

\* A node collects its garbage.
LEMMA GarbageCollectorStep ==
    ASSUME IInv, NEW n \in Node, GarbageCollector(n)
    PROVE  IInv'
<1>1. HostOK /\ Tables /\ NodeOK(n) /\ died \in Nat
  BY Parts DEF HostOK
<1>2. HostOK' /\ died' = died /\ Tables' /\ packets' = packets
  BY <1>1 DEF GarbageCollector, HostOK, Tables
<1>3. /\ next_gc'[n] = GCInterval /\ heard'[n] = heard[n]
      /\ peers'[n] = IF peers[n] # NoPeer /\ ShouldRemove(n) THEN NoPeer ELSE peers[n]
  BY <1>1 DEF GarbageCollector, Tables
<1>4. \A m \in Node \ {n} : peers'[m] = peers[m] /\ next_gc'[m] = next_gc[m] /\ heard'[m] = heard[m]
  BY <1>1 DEF GarbageCollector, Tables
<1>5. NodeOK(n)'
  <2>1. CASE peers'[n] # NoPeer
    <3>1. peers'[n] = peers[n] /\ peers[n] # NoPeer /\ LocalAge(n) <= RemoveTime /\ peers[n] \in Peer
          /\ peers[n].report \in Int
      BY <1>1, <1>3, <2>1, Constants DEF ShouldRemove, LocalAge, NodeOK, Peer
    <3>2. died <= RemoveTime + MaxDelay + MaxSkew
      BY <1>1, <3>1, Constants DEF NodeOK, NotYounger, LocalAge
    <3>3. NotYounger(peers[n].report)'
      BY <1>1, <1>2, <3>1 DEF NodeOK, NotYounger
    <3> QED BY <1>1, <1>2, <1>3, <3>1, <3>2, <3>3, Constants DEF NodeOK, LocalAge
  <2>2. CASE peers'[n] = NoPeer
    <3>1. ~(heard[n] <= RemoveTime)
      BY <1>1, <1>3, <2>2, Constants DEF NodeOK, ShouldRemove, LocalAge, Peer
    <3> QED BY <1>1, <1>3, <2>2, <3>1, Constants DEF NodeOK
  <2> QED BY <2>1, <2>2
<1> QED BY <1>2, <1>4, <1>5, NodeStep

\* A node starts anew.
LEMMA RestartStep ==
    ASSUME IInv, NEW n \in Node, Restart(n)
    PROVE  IInv'
<1>1. HostOK /\ Tables /\ NodeOK(n)
  BY Parts
<1>a. restarts' \in Nat
  BY <1>1 DEF Restart, HostOK
<1>2. HostOK' /\ died' = died /\ Tables' /\ packets' = packets
  BY <1>1, <1>a DEF Restart, HostOK, Tables
<1>3. next_gc'[n] = GCInterval /\ heard'[n] = RemoveTime + 1 /\ peers'[n] = NoPeer
  BY <1>1 DEF Restart, Tables
<1>4. \A m \in Node \ {n} : peers'[m] = peers[m] /\ next_gc'[m] = next_gc[m] /\ heard'[m] = heard[m]
  BY <1>1 DEF Restart, Tables
<1>5. NodeOK(n)'
  BY <1>3, Constants DEF NodeOK
<1> QED BY <1>2, <1>4, <1>5, NodeStep

\* Time passes.
LEMMA TickStep ==
    ASSUME IInv, Tick
    PROVE  IInv'
<1>1. HostOK /\ Tables /\ (\A m \in Node : NodeOK(m)) /\ \A p \in packets : PacketOK(p)
  BY Parts
<1>2. HostOK' /\ died \in Nat /\ died' \in Nat /\ died' <= died + 1
  <2>1. died \in 0..(Deadline + 1) /\ Deadline \in Nat
    BY <1>1, Constants DEF HostOK
  <2>2. died' = IF up THEN 0 ELSE Aged(died, Deadline)
    BY DEF Tick
  <2>3. died' \in 0..(Deadline + 1) /\ died' <= died + 1
    <3>1. CASE up
      BY <2>1, <2>2, <3>1
    <3>2. CASE ~up
      BY <2>1, <2>2, <3>2 DEF Aged
    <3> QED BY <3>1, <3>2
  <2>4. up' => died' = 0
    BY <2>2 DEF Tick
  <2>5. UNCHANGED <<up, deaths, restarts>>
    BY DEF Tick
  <2> QED BY <1>1, <2>1, <2>3, <2>4, <2>5 DEF HostOK
<1>3. ASSUME NEW report \in Int, NotYounger(report)
      PROVE  \/ Aged(report, RemoveTime) > RemoveTime
             \/ \A m \in Node : died' <= Aged(report, RemoveTime) + Offset[m] + MaxDelay + MaxSkew
  <2>1. CASE report > RemoveTime
    BY <2>1, Constants DEF Aged
  <2>2. CASE ~(report > RemoveTime)
    <3>1. \A n \in Node : died <= report + Offset[n] + MaxDelay + MaxSkew
      BY <1>3, <2>2 DEF NotYounger
    <3>2. Aged(report, RemoveTime) = report + 1
      BY <2>2, Constants DEF Aged
    <3>3. \A n \in Node : died' <= Aged(report, RemoveTime) + Offset[n] + MaxDelay + MaxSkew
      BY <1>2, <3>1, <3>2, Constants
    <3> QED BY <3>3
  <2> QED BY <2>1, <2>2
<1>4. Tables'
  BY DEF Tick, Tables
<1>5. ASSUME NEW n \in Node PROVE NodeOK(n)'
  <2>1. NodeOK(n) /\ Offset[n] \in Nat
    BY <1>1, Constants
  <2>2. /\ next_gc'[n] = next_gc[n] - 1 /\ heard'[n] = Aged(heard[n], RemoveTime)
        /\ next_gc[n] > 0 /\ next_gc[n] \in 0..GCInterval
        /\ peers[n] = NoPeer => peers'[n] = NoPeer
        /\ peers[n] # NoPeer => peers'[n] = [report |-> Aged(peers[n].report, RemoveTime),
                                             probe |-> Aged(peers[n].probe, MaxPing)]
    BY <2>1 DEF Tick, NodeOK
  <2>3. next_gc'[n] \in 0..GCInterval /\ died' + next_gc'[n] <= died + next_gc[n]
    BY <1>2, <2>2, Constants
  <2>4. heard[n] \in 0..(RemoveTime + 1) /\ heard'[n] \in 0..(RemoveTime + 1)
        /\ (heard'[n] <= RemoveTime => heard'[n] = heard[n] + 1 /\ heard[n] <= RemoveTime)
    BY <2>1, <2>2, Constants DEF NodeOK, Aged
  <2>5. CASE peers[n] = NoPeer
    BY <2>1, <2>2, <2>3, <2>4, <2>5 DEF NodeOK
  <2>6. CASE peers[n] # NoPeer
    <3>1. peers[n] \in Peer /\ peers[n].report \in Int /\ peers[n].probe \in 0..(MaxPing + 1)
          /\ NotYounger(peers[n].report)
      BY <2>1, <2>6 DEF NodeOK, Peer
    <3>2. Aged(peers[n].probe, MaxPing) \in 0..(MaxPing + 1) /\ Aged(peers[n].report, RemoveTime) \in Int
          /\ Aged(peers[n].report, RemoveTime) <= peers[n].report + 1
      BY <3>1, Constants DEF Aged
    <3>3. peers'[n] \in Peer /\ peers'[n].report = Aged(peers[n].report, RemoveTime)
      BY <2>2, <2>6, <3>2 DEF Peer
    <3>4. NotYounger(peers[n].report)'
      BY <1>3, <3>1, <3>3 DEF NotYounger
    <3>5. peers'[n] # NoPeer
      BY <3>3, Constants
    <3>6. died' + next_gc'[n] <= RemoveTime + MaxDelay + MaxSkew + GCInterval
      BY <1>2, <2>1, <2>2, <2>3, <2>6, Constants DEF NodeOK
    <3>7. heard'[n] <= RemoveTime => peers'[n].report + Offset[n] <= heard'[n]
      BY <2>1, <2>4, <3>1, <3>2, <3>3 DEF NodeOK, LocalAge
    <3> QED BY <2>3, <2>4, <3>3, <3>4, <3>5, <3>6, <3>7 DEF NodeOK, LocalAge
  <2> QED BY <2>5, <2>6
<1>6. ASSUME NEW q \in packets' PROVE PacketOK(q)'
  <2>1. PICK p \in packets :
           /\ p.age < MaxDelay
           /\ q = IF p.type = "friend"
                  THEN [p EXCEPT !.age = @ + 1, !.report = Aged(@, RemoveTime)]
                  ELSE [p EXCEPT !.age = @ + 1]
    BY <1>6 DEF Tick
  <2>2. PacketOK(p)
    BY <1>1
  <2>3. CASE p.type = "friend"
    <3>1. /\ p.node \in Node /\ p.report \in Int /\ p.age \in 0..MaxDelay
          /\ p = [type |-> "friend", node |-> p.node, report |-> p.report, age |-> p.age]
      BY <2>2, <2>3 DEF PacketOK, Packet
    <3>2. q = [type |-> "friend", node |-> p.node, report |-> Aged(p.report, RemoveTime),
               age |-> p.age + 1]
      BY <2>1, <2>3, <3>1
    <3>3. Aged(p.report, RemoveTime) \in Int /\ Aged(p.report, RemoveTime) <= p.report + 1
          /\ p.age + 1 \in 0..MaxDelay
      BY <2>1, <3>1, Constants DEF Aged
    <3>4. PICK m \in Node : p.report + Offset[m] <= FailTime + p.age
      BY <2>2, <2>3 DEF PacketOK
    <3>5. Aged(p.report, RemoveTime) + Offset[m] <= FailTime + (p.age + 1)
      BY <3>1, <3>3, <3>4, Constants
    <3>6. q.report = Aged(p.report, RemoveTime) /\ q.age = p.age + 1 /\ q.type = "friend" /\ q \in Packet
      BY <3>1, <3>2, <3>3 DEF Packet
    <3>7. NotYounger(p.report)
      BY <2>2, <2>3 DEF PacketOK
    <3>8. NotYounger(q.report)'
      BY <1>3, <3>1, <3>6, <3>7 DEF NotYounger
    <3> QED BY <3>5, <3>6, <3>8 DEF PacketOK
  <2>4. CASE p.type # "friend"
    <3>1. /\ p.node \in Node /\ p.age \in 0..MaxDelay /\ p.type \in {"direct", "ping"}
          /\ p = [type |-> p.type, node |-> p.node, age |-> p.age]
      BY <2>2, <2>4 DEF PacketOK, Packet
    <3>2. q = [type |-> p.type, node |-> p.node, age |-> p.age + 1]
      BY <2>1, <2>4, <3>1
    <3>3. q \in Packet /\ q.type = p.type /\ q.age = p.age + 1
      BY <2>1, <3>1, <3>2, Constants DEF Packet
    <3>4. q.type = "direct" => died' <= q.age
      BY <1>2, <2>2, <3>1, <3>3 DEF PacketOK
    <3> QED BY <2>4, <3>3, <3>4 DEF PacketOK
  <2> QED BY <2>3, <2>4
<1> QED BY <1>2, <1>4, <1>5, <1>6, Assembled

-----------------------------------------------------------------------------
(* Theorems                                                                *)

\* The conjunction of all parts is an invariant.
THEOREM Invariant == Spec => []IInv
<1>1. ASSUME IInv, [Next]_vars PROVE IInv'
  <2>1. CASE Next
    BY <1>1, <2>1, HostStep, SendFriendStep, ReceiveDirectStep, ReceiveFriendStep, PingHostStep,
       GarbageCollectorStep, RestartStep, TickStep DEF Next
  <2>2. CASE UNCHANGED vars
    <3>1. IInv
      BY <1>1
    <3> QED
      BY <3>1, <2>2
      DEF vars, IInv, TypeOK, DeadOK, ReportsOK, NotYounger, GarbageOK, HeardOK, LocalAge
  <2> QED BY <1>1, <2>1, <2>2
<1> QED BY InitInv, <1>1, PTL DEF Spec

\* Type correctness; hosts that are failing are not recommended.
THEOREM TypeCorrect == Spec => []TypeOK
<1>1. IInv => TypeOK
  BY DEF IInv
<1> QED BY Invariant, <1>1, PTL

\* However many nodes recommend a dead host to each other, for however long, and
\* whatever their clocks: it is gone in time.
THEOREM AllForget == Spec => []RemovedInTime
<1>1. IInv => RemovedInTime
  <2> SUFFICES ASSUME IInv, died > Deadline, NEW n \in Node, peers[n] # NoPeer PROVE FALSE
    BY DEF RemovedInTime
  <2>1. HostOK /\ NodeOK(n)
    BY Parts
  <2> QED BY <2>1, Constants DEF HostOK, NodeOK, Deadline
<1> QED BY Invariant, <1>1, PTL

\* No node learns of a host that is dead and failing everywhere.
THEOREM NeverBack == Spec => NotBack
<1> DEFINE Learnt == \A n \in Node : peers[n] = NoPeer /\ peers'[n] # NoPeer =>
                        died <= FailTime + MaxSkew + 2 * MaxDelay
<1>1. ASSUME IInv, [Next]_vars PROVE [Learnt]_vars
  <2> SUFFICES ASSUME Next, NEW n \in Node, peers[n] = NoPeer, peers'[n] # NoPeer
               PROVE  died <= FailTime + MaxSkew + 2 * MaxDelay
    BY <1>1
  <2>1. HostOK /\ Tables /\ \A p \in packets : PacketOK(p)
    BY <1>1, Parts
  <2>2. ASSUME NEW p \in packets, ReceiveDirect(p)
        PROVE  died <= FailTime + MaxSkew + 2 * MaxDelay
    <3>1. p.age \in 0..MaxDelay /\ died <= p.age /\ died \in Nat
      BY <2>1, <2>2 DEF ReceiveDirect, PacketOK, Packet, HostOK
    <3> QED BY <3>1, Constants
  <2>3. ASSUME NEW p \in packets, ReceiveFriend(p)
        PROVE  died <= FailTime + MaxSkew + 2 * MaxDelay
    <3>1. died <= FailTime + 2 * MaxDelay + MaxSkew /\ died \in Nat
      BY <2>1, <2>3, FriendInTime DEF ReceiveFriend, HostOK
    <3> QED BY <3>1, Constants
  <2>4. ASSUME NEW m \in Node, PingHost(m) PROVE FALSE
    BY <2>1, <2>4 DEF PingHost, Tables
  <2>5. ASSUME NEW m \in Node, GarbageCollector(m) PROVE FALSE
    BY <2>1, <2>5 DEF GarbageCollector, Tables
  <2>6. ASSUME NEW m \in Node, Restart(m) PROVE FALSE
    BY <2>1, <2>6 DEF Restart, Tables
  <2>7. CASE Tick
    BY <2>7 DEF Tick
  <2> QED
    BY <2>2, <2>3, <2>4, <2>5, <2>6, <2>7
    DEF Next, HostPings, Answer, Die, Return, SendFriend
<1> QED BY Invariant, <1>1, PTL DEF Spec, NotBack

\* Whatever nodes tell each other, a node does not forget a host it hears of.
THEOREM HeardIsKept == Spec => KeptWhileHeard
<1> DEFINE Kept == \A n \in Node : peers[n] # NoPeer /\ peers'[n] = NoPeer => heard'[n] > RemoveTime
<1>1. ASSUME IInv, [Next]_vars PROVE [Kept]_vars
  <2> SUFFICES ASSUME Next, NEW n \in Node, peers[n] # NoPeer, peers'[n] = NoPeer
               PROVE  heard'[n] > RemoveTime
    BY <1>1
  <2>1. Tables /\ NodeOK(n) /\ peers[n] \in Peer /\ (\A p \in packets : PacketOK(p))
    BY <1>1, Parts DEF NodeOK
  <2>2. ASSUME NEW p \in packets, ReceiveDirect(p) \/ ReceiveFriend(p) PROVE FALSE
    <3>1. ASSUME NEW report \in Int PROVE ApplyReport(peers[n], report) # NoPeer
      BY <2>1, <3>1, ApplyReportYounger, Constants
    <3>2. CASE ReceiveDirect(p)
      <4>1. p.node \in Node /\ -Offset[p.node] \in Int
        BY <2>1, <3>2, Constants DEF ReceiveDirect, PacketOK, Packet
      <4> QED BY <2>1, <3>1, <3>2, <4>1 DEF ReceiveDirect, Tables
    <3>3. CASE ReceiveFriend(p)
      <4>1. p.node \in Node /\ p.report \in Int
        BY <2>1, <3>3 DEF ReceiveFriend, PacketOK, Packet
      <4> QED BY <2>1, <3>1, <3>3, <4>1 DEF ReceiveFriend, Tables
    <3> QED BY <2>2, <3>2, <3>3
  <2>3. ASSUME NEW m \in Node, PingHost(m) PROVE FALSE
    <3>1. [peers[n] EXCEPT !.probe = 0] \in Peer
      BY <2>1, Constants DEF Peer
    <3> QED BY <2>1, <2>3, <3>1, Constants DEF PingHost, Tables
  <2>4. ASSUME NEW m \in Node, GarbageCollector(m) PROVE heard'[n] > RemoveTime
    <3>1. ShouldRemove(n) /\ heard' = heard
      BY <2>1, <2>4 DEF GarbageCollector, Tables
    <3> QED BY <2>1, <3>1, Constants DEF ShouldRemove, LocalAge, NodeOK, Peer
  <2>5. ASSUME NEW m \in Node, Restart(m) PROVE heard'[n] > RemoveTime
    <3>1. m = n
      BY <2>1, <2>5 DEF Restart, Tables
    <3>2. heard'[n] = RemoveTime + 1
      BY <2>1, <2>5, <3>1 DEF Restart, Tables
    <3> QED BY <3>2, Constants
  <2>6. ASSUME Tick PROVE FALSE
    <3>1. peers'[n] = [report |-> Aged(peers[n].report, RemoveTime),
                       probe |-> Aged(peers[n].probe, MaxPing)]
      BY <2>6 DEF Tick
    <3>2. peers[n].report \in Int /\ peers[n].probe \in 0..(MaxPing + 1)
      BY <2>1 DEF Peer
    <3>3. Aged(peers[n].report, RemoveTime) \in Int /\ Aged(peers[n].probe, MaxPing) \in 0..(MaxPing + 1)
      BY <3>2, Constants DEF Aged
    <3>4. peers'[n] \in Peer
      BY <3>1, <3>3 DEF Peer
    <3> QED BY <3>4, Constants
  <2> QED
    BY <2>2, <2>3, <2>4, <2>5, <2>6
    DEF Next, HostPings, Answer, Die, Return, SendFriend
<1> QED BY Invariant, <1>1, PTL DEF Spec, KeptWhileHeard

=============================================================================

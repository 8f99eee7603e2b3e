---------------------------- MODULE Connections ----------------------------
(***************************************************************************)
(* TCP sockets by direction: src/scan/connections.rs.                      *)
(*                                                                         *)
(* One scan reads /proc/net/tcp line by line and decides of every socket   *)
(* whether this host accepted it (passive) or opened it (active).  Nothing *)
(* in a line tells; a socket is passive when something else has its local  *)
(* address and active when something else has its remote one.  A socket    *)
(* nothing is known of waits in two maps, one by each address, until a     *)
(* later line has one of them or the file ends.                            *)
(*                                                                         *)
(* A socket is the number of its line; Stats is the set of sockets added   *)
(* to it, of which the code keeps counts and the sums of their queues.     *)
(***************************************************************************)
EXTENDS Integers, Sequences, FiniteSets

CONSTANTS
    Addr,        \* addresses (ip and port)
    NoAddr,      \* 0.0.0.0:0, the remote address of a socket that listens
    Port,        \* ports
    PortOf,      \* the port of an address
    Uid,         \* users
    MaxDetails,  \* MAX_CONNECTION_DETAILS
    MaxLines     \* bound: lines of /proc/net/tcp

ASSUME ConnectionsAssumption ==
    /\ NoAddr \notin Addr
    /\ PortOf \in [Addr \cup {NoAddr} -> Port]
    /\ MaxDetails \in Nat /\ MaxLines \in Nat

\* A line.  The kernel gives a socket that listens, and no other, the remote
\* address zero; of the other states nothing depends on which it is.
Socket == [local : Addr, remote : {NoAddr}, state : {"LISTEN"}, uid : Uid]
              \cup [local : Addr, remote : Addr, state : {"ESTABLISHED"}, uid : Uid]

Line == Nat
NoSocket == 0                \* a key that is not in a map of unknown sockets
Entry == Uid \X Port         \* HashMap<u32, HashMap<u16, _>>

\* Option<Vec<Socket>>: the sockets of an entry, or None.
Listing == [listed : BOOLEAN, sockets : SUBSET Nat]
Some(lines) == [listed |-> TRUE, sockets |-> lines]
None == [listed |-> FALSE, sockets |-> {}]

VARIABLES
    read,            \* the lines read so far
    result,          \* "reading", "done" or "failed" (None)
    global,          \* statistics of all sockets
    by_user,         \* .. and by user
    passive,         \* an entry's [counted, listeners, clients]
    active,          \* an entry's [counted, connections]
    passive_addr,    \* local addresses known to accept
    active_addr,     \* remote addresses known to be opened
    local_unknown,   \* sockets of unknown direction by local address
    remote_unknown   \* .. and by remote address

vars == <<read, result, global, by_user, passive, active, passive_addr,
          active_addr, local_unknown, remote_unknown>>

Init ==
    /\ read = << >> /\ result = "reading"
    /\ global = {} /\ by_user = [u \in Uid |-> {}]
    /\ passive = [e \in Entry |-> [counted |-> {}, listeners |-> {}, clients |-> Some({})]]
    /\ active = [e \in Entry |-> [counted |-> {}, connections |-> Some({})]]
    /\ passive_addr = {} /\ active_addr = {}
    /\ local_unknown = [a \in Addr |-> NoSocket]
    /\ remote_unknown = [a \in Addr |-> NoSocket]

-----------------------------------------------------------------------------
(* Entries                                                                 *)

\* Fault: an entry of exactly that many sockets has no list.
AddedFrom(listing, lines) ==
    IF listing.listed /\ Cardinality(listing.sockets \cup lines) < MaxDetails
    THEN Some(listing.sockets \cup lines) ELSE None

\* The list of sockets of an entry after some are added: once longer than
\* MaxDetails it is given up for good.
Added(listing, lines) ==
    IF listing.listed /\ Cardinality(listing.sockets \cup lines) <= MaxDetails
    THEN Some(listing.sockets \cup lines) ELSE None

\* Passive::add at each of the entries the lines belong to.  A socket that
\* listens is no connection: it is listed, not counted.
AddPassive(rs, lines) ==
    [e \in Entry |->
        LET here    == {i \in lines : <<rs[i].uid, PortOf[rs[i].local]>> = e}
            clients == {i \in here : rs[i].state # "LISTEN"}
        IN  [counted   |-> passive[e].counted \cup clients,
             listeners |-> passive[e].listeners \cup (here \ clients),
             clients   |-> Added(passive[e].clients, clients)]]

\* Active::add at each of the entries the lines belong to.
AddActive(rs, lines) ==
    [e \in Entry |->
        LET here == {i \in lines : <<rs[i].uid, PortOf[rs[i].remote]>> = e}
        IN  [counted     |-> active[e].counted \cup here,
             connections |-> Added(active[e].connections, here)]]

-----------------------------------------------------------------------------
(* One line.  The branches of the loop, in the order it tries them.        *)

\* The local address is known to accept.
KnownPassive(sock) == sock.local \in passive_addr

\* The remote address is known to be opened.
KnownActive(sock) == sock.remote \in active_addr

\* An unknown socket has the same local address ..
SameLocal(sock) == local_unknown[sock.local] # NoSocket

\* .. or the same remote one.
SameRemote(sock) == sock.remote \in Addr /\ remote_unknown[sock.remote] # NoSocket

Unmoved == UNCHANGED <<local_unknown, remote_unknown>>

ToPassive(rs, n) ==
    /\ KnownPassive(rs[n])
    /\ passive' = AddPassive(rs, {n})
    /\ Unmoved /\ UNCHANGED <<active, passive_addr, active_addr>>

ToActive(rs, n) ==
    /\ ~KnownPassive(rs[n]) /\ KnownActive(rs[n])
    /\ active' = AddActive(rs, {n})
    /\ Unmoved /\ UNCHANGED <<passive, passive_addr, active_addr>>

\* Fault: the older socket is left in the map by remote address.
SecondOnLocalKeeping(rs, n) ==
    LET old == local_unknown[rs[n].local] IN
    /\ ~KnownPassive(rs[n]) /\ ~KnownActive(rs[n]) /\ SameLocal(rs[n])
    /\ local_unknown' = [local_unknown EXCEPT ![rs[n].local] = NoSocket]
    /\ passive_addr' = passive_addr \cup {rs[n].local}
    /\ passive' = AddPassive(rs, {old, n})
    /\ UNCHANGED <<active, active_addr, remote_unknown>>

\* The second socket on a local address: both were accepted.
SecondOnLocal(rs, n) ==
    LET old == local_unknown[rs[n].local] IN
    /\ ~KnownPassive(rs[n]) /\ ~KnownActive(rs[n]) /\ SameLocal(rs[n])
    /\ local_unknown' = [local_unknown EXCEPT ![rs[n].local] = NoSocket]
    /\ remote_unknown' = [remote_unknown EXCEPT ![rs[old].remote] = NoSocket]
    /\ passive_addr' = passive_addr \cup {rs[n].local}
    /\ passive' = AddPassive(rs, {old, n})
    /\ UNCHANGED <<active, active_addr>>

\* The second socket on a remote address: both were opened.
SecondOnRemote(rs, n) ==
    LET old == remote_unknown[rs[n].remote] IN
    /\ ~KnownPassive(rs[n]) /\ ~KnownActive(rs[n]) /\ ~SameLocal(rs[n])
    /\ SameRemote(rs[n])
    /\ remote_unknown' = [remote_unknown EXCEPT ![rs[n].remote] = NoSocket]
    /\ local_unknown' = [local_unknown EXCEPT ![rs[old].local] = NoSocket]
    /\ active_addr' = active_addr \cup {rs[n].remote}
    /\ active' = AddActive(rs, {old, n})
    /\ UNCHANGED <<passive, passive_addr>>

\* Nothing is known of either address.
Fresh(sock) ==
    /\ ~KnownPassive(sock) /\ ~KnownActive(sock)
    /\ ~SameLocal(sock) /\ ~SameRemote(sock)

\* Fault: the address of the socket is not noted.
ListensUnnoted(rs, n) ==
    /\ Fresh(rs[n]) /\ rs[n].state = "LISTEN"
    /\ passive' = AddPassive(rs, {n})
    /\ Unmoved /\ UNCHANGED <<active, passive_addr, active_addr>>

Listens(rs, n) ==
    /\ Fresh(rs[n]) /\ rs[n].state = "LISTEN"
    /\ passive_addr' = passive_addr \cup {rs[n].local}
    /\ passive' = AddPassive(rs, {n})
    /\ Unmoved /\ UNCHANGED <<active, active_addr>>

Unknown(rs, n) ==
    /\ Fresh(rs[n]) /\ rs[n].state # "LISTEN"
    /\ local_unknown' = [local_unknown EXCEPT ![rs[n].local] = n]
    /\ remote_unknown' = [remote_unknown EXCEPT ![rs[n].remote] = n]
    /\ UNCHANGED <<passive, active, passive_addr, active_addr>>

ReadLine(sock) ==
    LET n  == Len(read) + 1
        rs == Append(read, sock)
    IN
    /\ result = "reading" /\ Len(read) < MaxLines
    /\ read' = rs
    /\ global' = global \cup {n}
    /\ by_user' = [by_user EXCEPT ![sock.uid] = @ \cup {n}]
    /\ \/ ToPassive(rs, n)
       \/ ToActive(rs, n)
       \/ SecondOnLocal(rs, n)
       \/ SecondOnRemote(rs, n)
       \/ Listens(rs, n)
       \/ Unknown(rs, n)
    /\ UNCHANGED result

\* The sockets still in the map by remote address.
Remaining == {remote_unknown[a] : a \in Addr} \ {NoSocket}

\* The end of the file: a socket that shares no address is taken for active.
\* Both maps are dropped; here they just stay as they were.
Finish ==
    /\ result = "reading"
    /\ result' = "done"
    /\ active' = AddActive(read, Remaining)
    /\ UNCHANGED <<read, global, by_user, passive, passive_addr, active_addr,
                   local_unknown, remote_unknown>>

\* An error of the file: the scan has no connections at all.
Fail ==
    /\ result = "reading"
    /\ result' = "failed"
    /\ UNCHANGED <<read, global, by_user, passive, active, passive_addr,
                   active_addr, local_unknown, remote_unknown>>

Next == (\E sock \in Socket : ReadLine(sock)) \/ Finish \/ Fail

Spec == Init /\ [][Next]_vars

-----------------------------------------------------------------------------
(* Properties                                                              *)

Lines == 1 .. Len(read)

\* Where a socket may be.
IsPassive(i)  == i \in passive[<<read[i].uid, PortOf[read[i].local]>>].counted
IsListener(i) == i \in passive[<<read[i].uid, PortOf[read[i].local]>>].listeners
IsActive(i)   == i \in active[<<read[i].uid, PortOf[read[i].remote]>>].counted
IsUnknown(i)  == /\ result # "done" /\ read[i].remote \in Addr
                 /\ local_unknown[read[i].local] = i
                 /\ remote_unknown[read[i].remote] = i

\* Type invariant.
TypeOK ==
    /\ read \in Seq(Socket) /\ result \in {"reading", "done", "failed"}
    /\ global \subseteq Nat /\ by_user \in [Uid -> SUBSET Nat]
    /\ passive \in [Entry -> [counted : SUBSET Nat, listeners : SUBSET Nat,
                              clients : Listing]]
    /\ active \in [Entry -> [counted : SUBSET Nat, connections : Listing]]
    /\ passive_addr \subseteq Addr /\ active_addr \subseteq Addr
    /\ local_unknown \in [Addr -> Nat] /\ remote_unknown \in [Addr -> Nat]

\* Every socket of the totals is in exactly one place, under its own user and
\* the port of its own address, and no entry or map has anything else: the
\* pages that add up entries agree with the totals.
Placed(i) ==
    \/ IsPassive(i) /\ ~IsListener(i) /\ ~IsActive(i) /\ ~IsUnknown(i)
    \/ ~IsPassive(i) /\ IsListener(i) /\ ~IsActive(i) /\ ~IsUnknown(i)
    \/ ~IsPassive(i) /\ ~IsListener(i) /\ IsActive(i) /\ ~IsUnknown(i)
    \/ ~IsPassive(i) /\ ~IsListener(i) /\ ~IsActive(i) /\ IsUnknown(i)

InTotals ==
    /\ global = Lines
    /\ \A u \in Uid : by_user[u] = {i \in Lines : read[i].uid = u}

OnePlace ==
    \A i \in Lines : Placed(i) /\ (IsListener(i) <=> read[i].state = "LISTEN")

PassiveOf(e) == passive[e].counted \cup passive[e].listeners

InOwnEntry ==
    \A e \in Entry :
        /\ PassiveOf(e) \subseteq {i \in Lines : <<read[i].uid, PortOf[read[i].local]>> = e}
        /\ active[e].counted
               \subseteq {i \in Lines : <<read[i].uid, PortOf[read[i].remote]>> = e}

MapsAgree ==
    result # "done" => \A a \in Addr :
        /\ local_unknown[a] # NoSocket =>
              /\ local_unknown[a] \in Lines /\ read[local_unknown[a]].local = a
              /\ IsUnknown(local_unknown[a])
        /\ remote_unknown[a] # NoSocket =>
              /\ remote_unknown[a] \in Lines /\ read[remote_unknown[a]].remote = a
              /\ IsUnknown(remote_unknown[a])

EverySocketOnce == InTotals /\ OnePlace /\ InOwnEntry /\ MapsAgree

LocalShared(i)  == \E j \in Lines \ {i} : read[j].local = read[i].local
RemoteShared(i) == \E j \in Lines \ {i} : read[j].remote = read[i].remote

\* A socket of which both addresses are shared looks accepted and opened.
Unambiguous ==
    \A i \in Lines : read[i].state # "LISTEN" => ~(LocalShared(i) /\ RemoteShared(i))

\* The kernel lists sockets that listen first: a socket on an address that is
\* known to listen is accepted, whatever else is in the file.
ByListener ==
    \A i, j \in Lines :
        j < i /\ read[j].state = "LISTEN" /\ read[j].local = read[i].local
            => IsPassive(i) \/ IsListener(i)

\* And where no socket is ambiguous the order of the lines does not matter: at
\* the end the connections that share their local address are passive, all
\* others active.
ByAddress ==
    result = "done" /\ Unambiguous =>
        \A i \in Lines : read[i].state # "LISTEN" =>
            /\ LocalShared(i) => IsPassive(i)
            /\ ~LocalShared(i) => IsActive(i)

Classified == ByListener /\ ByAddress

\* The list of an entry has all of its sockets, or the entry has more than
\* MaxDetails of them and no list: never a part of them.
AllOrNone(listing, counted) ==
    listing = IF Cardinality(counted) <= MaxDetails THEN Some(counted) ELSE None

DetailsWhole ==
    \A e \in Entry :
        /\ AllOrNone(passive[e].clients, passive[e].counted)
        /\ AllOrNone(active[e].connections, active[e].counted)

-----------------------------------------------------------------------------
(* The inductive invariant of ConnectionsProofs                            *)

\* What the sets of known addresses are good for.
AddressesKnown ==
    /\ \A i \in Lines : IsPassive(i) \/ IsListener(i) => read[i].local \in passive_addr
    /\ \A i \in Lines : IsPassive(i) => LocalShared(i)
    /\ result # "done" => \A i \in Lines : IsActive(i) => RemoteShared(i)
    /\ \A a \in passive_addr : \E i \in Lines : read[i].local = a
    /\ \A a \in active_addr : \E i \in Lines : read[i].remote = a
    /\ result # "done" => \A a \in passive_addr : local_unknown[a] = NoSocket

\* A socket that waits or is active shares its local address with nobody, but
\* for ambiguous ones.
AloneOrAmbiguous ==
    Unambiguous => \A i \in Lines : IsActive(i) \/ IsUnknown(i) => ~LocalShared(i)

IInv ==
    /\ TypeOK /\ EverySocketOnce /\ DetailsWhole
    /\ AddressesKnown /\ AloneOrAmbiguous /\ ByListener

=============================================================================

------------------------- MODULE ConnectionsProofs -------------------------
(***************************************************************************)
(* Proofs about Connections: every socket is in one place, lists are whole *)
(* or dropped, and the direction of a socket is what its addresses say.    *)
(* First what adding sockets to entries does, then one lemma for the       *)
(* places of sockets after a line, on which all parts of IInv rest.        *)
(***************************************************************************)
EXTENDS Connections, FiniteSetTheorems, TLAPS

-----------------------------------------------------------------------------
(* Entries                                                                 *)

LEMMA AddedWhole ==
    ASSUME NEW listing, NEW counted, IsFiniteSet(counted),
           NEW lines, IsFiniteSet(lines), AllOrNone(listing, counted)
    PROVE  AllOrNone(Added(listing, lines), counted \cup lines)
  <1>1. IsFiniteSet(counted \cup lines)
    BY FS_Union
  <1>2. Cardinality(counted) <= Cardinality(counted \cup lines)
    BY <1>1, FS_Subset
  <1>3. Cardinality(counted) \in Nat /\ Cardinality(counted \cup lines) \in Nat
    BY <1>1, FS_CardinalityType
  <1>4. CASE Cardinality(counted) <= MaxDetails
    BY <1>4 DEF AllOrNone, Added, Some
  <1>5. CASE ~(Cardinality(counted) <= MaxDetails)
    BY <1>2, <1>3, <1>5, ConnectionsAssumption DEF AllOrNone, Added, None
  <1>6. QED
    BY <1>4, <1>5

LEMMA AddedType ==
    ASSUME NEW listing \in Listing, NEW lines \in SUBSET Nat
    PROVE  Added(listing, lines) \in Listing
  BY DEF Added, Listing, Some, None

\* The entries of both tables after sockets were added.
PassiveAfter(rs, lines) ==
    \A e \in Entry :
        /\ passive'[e].counted = passive[e].counted \cup
             {i \in lines : /\ <<rs[i].uid, PortOf[rs[i].local]>> = e
                            /\ rs[i].state # "LISTEN"}
        /\ passive'[e].listeners = passive[e].listeners \cup
             {i \in lines : /\ <<rs[i].uid, PortOf[rs[i].local]>> = e
                            /\ rs[i].state = "LISTEN"}

ActiveAfter(rs, lines) ==
    \A e \in Entry :
        active'[e].counted = active[e].counted \cup
             {i \in lines : <<rs[i].uid, PortOf[rs[i].remote]>> = e}

WholeAfter ==
    \A e \in Entry :
        /\ AllOrNone(passive'[e].clients, passive'[e].counted)
        /\ AllOrNone(active'[e].connections, active'[e].counted)

PassiveType == [Entry -> [counted : SUBSET Nat, listeners : SUBSET Nat, clients : Listing]]
ActiveType  == [Entry -> [counted : SUBSET Nat, connections : Listing]]

LEMMA PassiveAdded ==
    ASSUME NEW rs, NEW lines \in SUBSET Nat, IsFiniteSet(lines),
           passive \in PassiveType,
           \A e \in Entry : IsFiniteSet(passive[e].counted)
                            /\ AllOrNone(passive[e].clients, passive[e].counted),
           passive' = AddPassive(rs, lines)
    PROVE  /\ passive' \in PassiveType
           /\ PassiveAfter(rs, lines)
           /\ \A e \in Entry : AllOrNone(passive'[e].clients, passive'[e].counted)
  <1> DEFINE Here(e) == {i \in lines : <<rs[i].uid, PortOf[rs[i].local]>> = e}
             Clients(e) == {i \in Here(e) : rs[i].state # "LISTEN"}
             After(e) == [counted   |-> passive[e].counted \cup Clients(e),
                          listeners |-> passive[e].listeners \cup (Here(e) \ Clients(e)),
                          clients   |-> Added(passive[e].clients, Clients(e))]
  <1>1. passive' = [e \in Entry |-> After(e)]
    BY Zenon DEF AddPassive
  <1>2. ASSUME NEW e \in Entry
        PROVE  /\ After(e) \in [counted : SUBSET Nat, listeners : SUBSET Nat, clients : Listing]
               /\ AllOrNone(After(e).clients, After(e).counted)
    <2>1. passive[e] \in [counted : SUBSET Nat, listeners : SUBSET Nat, clients : Listing]
      BY DEF PassiveType
    <2>2. Clients(e) \in SUBSET Nat /\ Clients(e) \subseteq lines
      OBVIOUS
    <2>3. IsFiniteSet(Clients(e))
      BY <2>2, FS_Subset
    <2>4. Added(passive[e].clients, Clients(e)) \in Listing
      BY <2>1, <2>2, AddedType
    <2>5. AllOrNone(Added(passive[e].clients, Clients(e)), passive[e].counted \cup Clients(e))
      BY <2>3, AddedWhole
    <2> HIDE DEF Clients
    <2>6. QED
      BY <2>1, <2>2, <2>4, <2>5
  <1>3. passive' \in PassiveType
    BY <1>1, <1>2 DEF PassiveType
  <1>4. \A e \in Entry : AllOrNone(passive'[e].clients, passive'[e].counted)
    BY <1>1, <1>2
  <1>5. PassiveAfter(rs, lines)
    BY <1>1 DEF PassiveAfter
  <1>6. QED
    BY <1>3, <1>4, <1>5

LEMMA ActiveAdded ==
    ASSUME NEW rs, NEW lines \in SUBSET Nat, IsFiniteSet(lines),
           active \in ActiveType,
           \A e \in Entry : IsFiniteSet(active[e].counted)
                            /\ AllOrNone(active[e].connections, active[e].counted),
           active' = AddActive(rs, lines)
    PROVE  /\ active' \in ActiveType
           /\ ActiveAfter(rs, lines)
           /\ \A e \in Entry : AllOrNone(active'[e].connections, active'[e].counted)
  <1> DEFINE Here(e) == {i \in lines : <<rs[i].uid, PortOf[rs[i].remote]>> = e}
             After(e) == [counted     |-> active[e].counted \cup Here(e),
                          connections |-> Added(active[e].connections, Here(e))]
  <1>1. active' = [e \in Entry |-> After(e)]
    BY Zenon DEF AddActive
  <1>2. ASSUME NEW e \in Entry
        PROVE  /\ After(e) \in [counted : SUBSET Nat, connections : Listing]
               /\ AllOrNone(After(e).connections, After(e).counted)
    <2>1. active[e] \in [counted : SUBSET Nat, connections : Listing]
      BY DEF ActiveType
    <2>2. Here(e) \in SUBSET Nat /\ Here(e) \subseteq lines
      OBVIOUS
    <2>3. IsFiniteSet(Here(e))
      BY <2>2, FS_Subset
    <2>4. Added(active[e].connections, Here(e)) \in Listing
      BY <2>1, <2>2, AddedType
    <2>5. AllOrNone(Added(active[e].connections, Here(e)), active[e].counted \cup Here(e))
      BY <2>3, AddedWhole
    <2> HIDE DEF Here
    <2>6. QED
      BY <2>1, <2>2, <2>4, <2>5
  <1>3. active' \in ActiveType
    BY <1>1, <1>2 DEF ActiveType
  <1>4. \A e \in Entry : AllOrNone(active'[e].connections, active'[e].counted)
    BY <1>1, <1>2
  <1>5. ActiveAfter(rs, lines)
    BY <1>1 DEF ActiveAfter
  <1>6. QED
    BY <1>3, <1>4, <1>5

-----------------------------------------------------------------------------
(* Places                                                                  *)

LEMMA EntryOf ==
    ASSUME NEW s \in Socket
    PROVE  /\ s.local \in Addr /\ s.remote \in Addr \cup {NoAddr} /\ s.uid \in Uid
           /\ s.state # "LISTEN" => s.remote \in Addr
           /\ s.state = "LISTEN" => s.remote = NoAddr
           /\ <<s.uid, PortOf[s.local]>> \in Entry
           /\ <<s.uid, PortOf[s.remote]>> \in Entry
  BY ConnectionsAssumption DEF Socket, Entry

\* A line more: the lines before it are what they were.
LEMMA LineRead ==
    ASSUME read \in Seq(Socket), NEW sock \in Socket, read' = Append(read, sock)
    PROVE  /\ read' \in Seq(Socket)
           /\ Lines' = Lines \cup {Len(read) + 1} /\ Len(read) + 1 \notin Lines
           /\ Len(read) + 1 \in Nat /\ Lines \subseteq Nat \ {0} /\ IsFiniteSet(Lines)
           /\ \A i \in Lines : read'[i] = read[i] /\ read[i] \in Socket
           /\ read'[Len(read) + 1] = sock
  <1>1. IsFiniteSet(Lines)
    BY FS_Interval DEF Lines
  <1>2. QED
    BY <1>1 DEF Lines

\* Where sockets are after a line: those of `toPassive' and `toActive' moved
\* from the unknown, the new one came from nowhere, all others stayed.
Moved(toPassive, toActive) ==
    \A i \in Lines' :
        /\ IsPassive(i)' <=> \/ i \in Lines /\ IsPassive(i)
                             \/ i \in toPassive /\ read'[i].state # "LISTEN"
        /\ IsListener(i)' <=> \/ i \in Lines /\ IsListener(i)
                              \/ i \in toPassive /\ read'[i].state = "LISTEN"
        /\ IsActive(i)' <=> (i \in Lines /\ IsActive(i)) \/ i \in toActive
        /\ i \in Lines => (IsUnknown(i)' <=> IsUnknown(i) /\ i \notin toPassive \cup toActive)
        /\ i \notin Lines => (IsUnknown(i)' <=> i \notin toPassive \cup toActive)

LEMMA TablesMoved ==
    ASSUME TypeOK, InOwnEntry, NEW sock \in Socket, read' = Append(read, sock),
           NEW P \in SUBSET Lines', NEW A \in SUBSET Lines',
           PassiveAfter(read', P), ActiveAfter(read', A)
    PROVE  /\ InOwnEntry'
           /\ \A i \in Lines' :
                 /\ IsPassive(i)' <=> \/ i \in Lines /\ IsPassive(i)
                                      \/ i \in P /\ read'[i].state # "LISTEN"
                 /\ IsListener(i)' <=> \/ i \in Lines /\ IsListener(i)
                                       \/ i \in P /\ read'[i].state = "LISTEN"
                 /\ IsActive(i)' <=> (i \in Lines /\ IsActive(i)) \/ i \in A
  <1>1. read \in Seq(Socket)
    BY DEF TypeOK
  <1>2. /\ Lines' = Lines \cup {Len(read) + 1} /\ Len(read) + 1 \notin Lines
        /\ \A i \in Lines : read'[i] = read[i] /\ read[i] \in Socket
        /\ read'[Len(read) + 1] \in Socket
    BY <1>1, LineRead
  <1>3. InOwnEntry'
    <2> SUFFICES ASSUME NEW e \in Entry
                 PROVE  /\ PassiveOf(e)' \subseteq
                             {i \in Lines' : <<read'[i].uid, PortOf[read'[i].local]>> = e}
                        /\ active'[e].counted \subseteq
                             {i \in Lines' : <<read'[i].uid, PortOf[read'[i].remote]>> = e}
      BY DEF InOwnEntry
    <2>0. /\ passive'[e].counted \subseteq passive[e].counted \cup
                {i \in P : <<read'[i].uid, PortOf[read'[i].local]>> = e}
          /\ passive'[e].listeners \subseteq passive[e].listeners \cup
                {i \in P : <<read'[i].uid, PortOf[read'[i].local]>> = e}
      BY ZenonT(60) DEF PassiveAfter
    <2>1. PassiveOf(e)' \subseteq PassiveOf(e) \cup
              {i \in P : <<read'[i].uid, PortOf[read'[i].local]>> = e}
      BY <2>0 DEF PassiveOf
    <2>2. active'[e].counted = active[e].counted \cup
              {i \in A : <<read'[i].uid, PortOf[read'[i].remote]>> = e}
      BY DEF ActiveAfter
    <2>3. PassiveOf(e) \subseteq {i \in Lines' : <<read'[i].uid, PortOf[read'[i].local]>> = e}
      BY <1>2 DEF InOwnEntry
    <2>4. active[e].counted
              \subseteq {i \in Lines' : <<read'[i].uid, PortOf[read'[i].remote]>> = e}
      BY <1>2 DEF InOwnEntry
    <2>5. QED
      BY <2>1, <2>2, <2>3, <2>4
  <1>4. ASSUME NEW i \in Lines'
        PROVE  /\ IsPassive(i)' <=> \/ i \in Lines /\ IsPassive(i)
                                    \/ i \in P /\ read'[i].state # "LISTEN"
               /\ IsListener(i)' <=> \/ i \in Lines /\ IsListener(i)
                                     \/ i \in P /\ read'[i].state = "LISTEN"
               /\ IsActive(i)' <=> (i \in Lines /\ IsActive(i)) \/ i \in A
    <2> DEFINE e == <<read'[i].uid, PortOf[read'[i].local]>>
               d == <<read'[i].uid, PortOf[read'[i].remote]>>
    <2>1. e \in Entry /\ d \in Entry
      BY <1>2, EntryOf
    <2>2. i \in Lines => /\ IsPassive(i) <=> i \in passive[e].counted
                         /\ IsListener(i) <=> i \in passive[e].listeners
                         /\ IsActive(i) <=> i \in active[d].counted
      BY <1>2 DEF IsPassive, IsListener, IsActive
    <2>3. i \notin Lines => /\ i \notin passive[e].counted /\ i \notin passive[e].listeners
                            /\ i \notin active[d].counted
      BY <2>1 DEF InOwnEntry, PassiveOf
    <2>4. /\ IsPassive(i)' <=> i \in passive'[e].counted
          /\ IsListener(i)' <=> i \in passive'[e].listeners
          /\ IsActive(i)' <=> i \in active'[d].counted
      BY DEF IsPassive, IsListener, IsActive
    <2>5. /\ i \in passive'[e].counted <=>
               i \in passive[e].counted \/ (i \in P /\ read'[i].state # "LISTEN")
          /\ i \in passive'[e].listeners <=>
               i \in passive[e].listeners \/ (i \in P /\ read'[i].state = "LISTEN")
      <3>1. /\ passive'[e].counted = passive[e].counted \cup
                  {j \in P : /\ <<read'[j].uid, PortOf[read'[j].local]>> = e
                             /\ read'[j].state # "LISTEN"}
            /\ passive'[e].listeners = passive[e].listeners \cup
                  {j \in P : /\ <<read'[j].uid, PortOf[read'[j].local]>> = e
                             /\ read'[j].state = "LISTEN"}
        <4> HIDE DEF e
        <4> QED
          BY <2>1, Zenon DEF PassiveAfter
      <3>2. QED
        BY <3>1
    <2>6. i \in active'[d].counted <=> i \in active[d].counted \/ i \in A
      BY <2>1 DEF ActiveAfter
    <2> HIDE DEF e, d
    <2>7. QED
      BY <2>2, <2>3, <2>4, <2>5, <2>6
  <1>5. QED
    BY <1>3, <1>4

-----------------------------------------------------------------------------
(* The maps of unknown sockets                                             *)

\* The socket of line i is in both maps; each map has nothing else.
Waits(rs, lu, ru, i) ==
    rs[i].remote \in Addr /\ lu[rs[i].local] = i /\ ru[rs[i].remote] = i

Agree(rs, lu, ru) ==
    \A a \in Addr :
        /\ lu[a] # NoSocket =>
             lu[a] \in 1..Len(rs) /\ rs[lu[a]].local = a /\ Waits(rs, lu, ru, lu[a])
        /\ ru[a] # NoSocket =>
             ru[a] \in 1..Len(rs) /\ rs[ru[a]].remote = a /\ Waits(rs, lu, ru, ru[a])

LEMMA UnknownWaits ==
    ASSUME result # "done"
    PROVE  /\ MapsAgree <=> Agree(read, local_unknown, remote_unknown)
           /\ \A i : IsUnknown(i) <=> Waits(read, local_unknown, remote_unknown, i)
  BY DEF MapsAgree, Agree, IsUnknown, Waits, Lines

LEMMA LinesAreSockets ==
    ASSUME NEW rs \in Seq(Socket), NEW i \in 1..Len(rs)
    PROVE  rs[i] \in Socket /\ rs[i].local \in Addr /\ i # NoSocket
  <1>1. rs[i] \in Socket
    OBVIOUS
  <1>2. rs[i].local \in Addr
    BY <1>1, EntryOf
  <1>3. i # NoSocket
    BY DEF NoSocket
  <1>4. QED
    BY <1>1, <1>2, <1>3

LEMMA Appended ==
    ASSUME NEW rs \in Seq(Socket), NEW sock \in Socket, NEW n, n = Len(rs) + 1
    PROVE  /\ Append(rs, sock) \in Seq(Socket)
           /\ Len(Append(rs, sock)) = n /\ n \in Nat \ {0}
           /\ 1..n = (1..Len(rs)) \cup {n} /\ n \notin 1..Len(rs)
           /\ 1..Len(rs) \subseteq Nat \ {0}
           /\ \A i \in 1..Len(rs) : Append(rs, sock)[i] = rs[i] /\ rs[i] \in Socket
           /\ Append(rs, sock)[n] = sock
  OBVIOUS

\* A line more and the maps as they were ..
LEMMA WaitsStay ==
    ASSUME NEW rs \in Seq(Socket), NEW sock \in Socket, NEW n, n = Len(rs) + 1,
           NEW lu, NEW ru, Agree(rs, lu, ru),
           NEW rs2, rs2 = Append(rs, sock)
    PROVE  /\ Agree(rs2, lu, ru) /\ ~Waits(rs2, lu, ru, n)
           /\ \A i \in 1..Len(rs) : Waits(rs2, lu, ru, i) <=> Waits(rs, lu, ru, i)
  <1>1. /\ Len(rs2) = n /\ 1..n = (1..Len(rs)) \cup {n} /\ n \notin 1..Len(rs)
        /\ n # NoSocket
        /\ \A i \in 1..Len(rs) : rs2[i] = rs[i]
        /\ rs2[n] = sock /\ sock.local \in Addr
    <2>1. sock.local \in Addr
      BY EntryOf
    <2>2. QED
      BY <2>1, Appended DEF NoSocket
  <1>2. \A i \in 1..Len(rs) : Waits(rs2, lu, ru, i) <=> Waits(rs, lu, ru, i)
    BY <1>1 DEF Waits
  <1>3. ~Waits(rs2, lu, ru, n)
    BY <1>1 DEF Waits, Agree
  <1>4. Agree(rs2, lu, ru)
    BY <1>1, <1>2 DEF Agree
  <1>5. QED
    BY <1>2, <1>3, <1>4

\* .. without one that waited ..
LEMMA WaitsLess ==
    ASSUME NEW rs \in Seq(Socket), NEW lu, NEW ru,
           Agree(rs, lu, ru), NEW old \in 1..Len(rs), Waits(rs, lu, ru, old),
           NEW lu2, NEW ru2,
           \A a \in Addr :
               /\ lu2[a] = IF a = rs[old].local THEN NoSocket ELSE lu[a]
               /\ ru2[a] = IF a = rs[old].remote THEN NoSocket ELSE ru[a]
    PROVE  /\ Agree(rs, lu2, ru2)
           /\ \A i \in 1..Len(rs) : Waits(rs, lu2, ru2, i) <=> Waits(rs, lu, ru, i) /\ i # old
  <1> DEFINE l == rs[old].local
             r == rs[old].remote
  <1>1. /\ lu[l] = old /\ ru[r] = old /\ l \in Addr /\ r \in Addr
        /\ \A i \in 1..Len(rs) : rs[i].local \in Addr /\ i # NoSocket
    <2>1. \A i \in 1..Len(rs) : rs[i].local \in Addr /\ i # NoSocket
      BY LinesAreSockets
    <2>2. QED
      BY <2>1 DEF Waits
  <1>2. \A a \in Addr : /\ lu2[a] = IF a = l THEN NoSocket ELSE lu[a]
                        /\ ru2[a] = IF a = r THEN NoSocket ELSE ru[a]
    BY <1>1
  <1> HIDE DEF l, r
  <1>3. \A i \in 1..Len(rs) : Waits(rs, lu2, ru2, i) <=> Waits(rs, lu, ru, i) /\ i # old
    BY <1>1, <1>2 DEF Waits, l, r
  <1>4. ASSUME NEW a \in Addr, lu2[a] # NoSocket
        PROVE  lu2[a] \in 1..Len(rs) /\ rs[lu2[a]].local = a /\ Waits(rs, lu2, ru2, lu2[a])
    <2>1. lu2[a] = lu[a] /\ lu[a] # NoSocket /\ a # l
      BY <1>2, <1>4
    <2>2. lu[a] \in 1..Len(rs) /\ rs[lu[a]].local = a /\ Waits(rs, lu, ru, lu[a])
      BY <2>1 DEF Agree
    <2>3. lu[a] # old
      BY <2>1, <2>2 DEF l
    <2>4. Waits(rs, lu2, ru2, lu[a])
      BY <1>3, <2>2, <2>3
    <2>5. QED
      BY <2>1, <2>2, <2>4
  <1>5. ASSUME NEW a \in Addr, ru2[a] # NoSocket
        PROVE  ru2[a] \in 1..Len(rs) /\ rs[ru2[a]].remote = a /\ Waits(rs, lu2, ru2, ru2[a])
    <2>1. ru2[a] = ru[a] /\ ru[a] # NoSocket /\ a # r
      BY <1>2, <1>5
    <2>2. ru[a] \in 1..Len(rs) /\ rs[ru[a]].remote = a /\ Waits(rs, lu, ru, ru[a])
      BY <2>1 DEF Agree
    <2>3. ru[a] # old
      BY <2>1, <2>2 DEF r
    <2>4. Waits(rs, lu2, ru2, ru[a])
      BY <1>3, <2>2, <2>3
    <2>5. QED
      BY <2>1, <2>2, <2>4
  <1>6. QED
    BY <1>3, <1>4, <1>5 DEF Agree

\* .. and with one that did not.
LEMMA WaitsMore ==
    ASSUME NEW rs \in Seq(Socket), NEW lu, NEW ru,
           Agree(rs, lu, ru), NEW n \in 1..Len(rs), rs[n].remote \in Addr,
           lu[rs[n].local] = NoSocket, ru[rs[n].remote] = NoSocket,
           NEW lu2, NEW ru2,
           \A a \in Addr :
               /\ lu2[a] = IF a = rs[n].local THEN n ELSE lu[a]
               /\ ru2[a] = IF a = rs[n].remote THEN n ELSE ru[a]
    PROVE  /\ Agree(rs, lu2, ru2) /\ Waits(rs, lu2, ru2, n)
           /\ \A i \in 1..Len(rs) : i # n => (Waits(rs, lu2, ru2, i) <=> Waits(rs, lu, ru, i))
  <1> DEFINE l == rs[n].local
             r == rs[n].remote
  <1>1. /\ l \in Addr /\ r \in Addr /\ lu[l] = NoSocket /\ ru[r] = NoSocket
        /\ \A i \in 1..Len(rs) : rs[i].local \in Addr /\ i # NoSocket
    BY LinesAreSockets
  <1>2. \A a \in Addr : /\ lu2[a] = IF a = l THEN n ELSE lu[a]
                        /\ ru2[a] = IF a = r THEN n ELSE ru[a]
    OBVIOUS
  <1>3. Waits(rs, lu2, ru2, n)
    BY <1>1, <1>2 DEF Waits
  <1> HIDE DEF l, r
  <1>4. \A i \in 1..Len(rs) : i # n => (Waits(rs, lu2, ru2, i) <=> Waits(rs, lu, ru, i))
    BY <1>1, <1>2 DEF Waits
  <1>5. ASSUME NEW a \in Addr, lu2[a] # NoSocket
        PROVE  lu2[a] \in 1..Len(rs) /\ rs[lu2[a]].local = a /\ Waits(rs, lu2, ru2, lu2[a])
    <2>1. CASE a = l
      BY <1>2, <1>3, <2>1 DEF l
    <2>2. CASE a # l
      <3>1. lu2[a] = lu[a] /\ lu[a] # NoSocket
        BY <1>2, <1>5, <2>2
      <3>2. lu[a] \in 1..Len(rs) /\ rs[lu[a]].local = a /\ Waits(rs, lu, ru, lu[a])
        BY <3>1 DEF Agree
      <3>3. lu[a] # n
        BY <2>2, <3>2 DEF l
      <3>4. Waits(rs, lu2, ru2, lu[a])
        BY <1>4, <3>2, <3>3
      <3>5. QED
        BY <3>1, <3>2, <3>4
    <2>3. QED
      BY <2>1, <2>2
  <1>6. ASSUME NEW a \in Addr, ru2[a] # NoSocket
        PROVE  ru2[a] \in 1..Len(rs) /\ rs[ru2[a]].remote = a /\ Waits(rs, lu2, ru2, ru2[a])
    <2>1. CASE a = r
      BY <1>2, <1>3, <2>1 DEF r
    <2>2. CASE a # r
      <3>1. ru2[a] = ru[a] /\ ru[a] # NoSocket
        BY <1>2, <1>6, <2>2
      <3>2. ru[a] \in 1..Len(rs) /\ rs[ru[a]].remote = a /\ Waits(rs, lu, ru, ru[a])
        BY <3>1 DEF Agree
      <3>3. ru[a] # n
        BY <2>2, <3>2 DEF r
      <3>4. Waits(rs, lu2, ru2, ru[a])
        BY <1>4, <3>2, <3>3
      <3>5. QED
        BY <3>1, <3>2, <3>4
    <2>3. QED
      BY <2>1, <2>2
  <1>7. QED
    BY <1>3, <1>4, <1>5, <1>6 DEF Agree

-----------------------------------------------------------------------------
(* One line                                                                *)

\* What a line does: the sockets of P become passive, those of A active.
LineStep(P, A, n) ==
    /\ P \subseteq Lines' /\ A \subseteq Lines' /\ P \cap A = {}
    /\ \A i \in P \cup A : i \in Lines => IsUnknown(i)
    /\ n \notin P => read'[n].local \notin passive_addr
    /\ Moved(P, A) /\ InOwnEntry' /\ MapsAgree' /\ DetailsWhole' /\ TypeOK'
    /\ passive_addr' = passive_addr \cup {read'[i].local : i \in P}
    /\ active_addr' = active_addr \cup {read'[i].remote : i \in A}
    /\ \A i \in P : read'[i].state # "LISTEN" => LocalShared(i)'
    /\ \A i \in A : RemoteShared(i)'
    /\ \A a \in passive_addr' : local_unknown'[a] = NoSocket

\* The tables after sockets were added to both, or to one of them.
Changed(rs, P, A) ==
    /\ passive' = AddPassive(rs, P) \/ (P = {} /\ passive' = passive)
    /\ active' = AddActive(rs, A) \/ (A = {} /\ active' = active)

LEMMA Finite ==
    ASSUME InOwnEntry, NEW e \in Entry
    PROVE  IsFiniteSet(passive[e].counted) /\ IsFiniteSet(active[e].counted)
  <1>1. IsFiniteSet(Lines)
    BY FS_Interval DEF Lines
  <1>2. passive[e].counted \subseteq Lines /\ active[e].counted \subseteq Lines
    BY DEF InOwnEntry, PassiveOf
  <1>3. QED
    BY <1>1, <1>2, FS_Subset

LEMMA TablesChanged ==
    ASSUME TypeOK, InOwnEntry, DetailsWhole, NEW rs,
           NEW P \in SUBSET Nat, NEW A \in SUBSET Nat, IsFiniteSet(P), IsFiniteSet(A),
           Changed(rs, P, A)
    PROVE  /\ passive' \in PassiveType /\ active' \in ActiveType
           /\ PassiveAfter(rs, P) /\ ActiveAfter(rs, A) /\ DetailsWhole'
  <1>1. /\ passive \in PassiveType /\ active \in ActiveType
        /\ \A e \in Entry : /\ IsFiniteSet(passive[e].counted)
                            /\ IsFiniteSet(active[e].counted)
                            /\ AllOrNone(passive[e].clients, passive[e].counted)
                            /\ AllOrNone(active[e].connections, active[e].counted)
    BY Finite DEF TypeOK, PassiveType, ActiveType, DetailsWhole
  <1>2. /\ passive' \in PassiveType /\ PassiveAfter(rs, P)
        /\ \A e \in Entry : AllOrNone(passive'[e].clients, passive'[e].counted)
    <2>1. CASE passive' = AddPassive(rs, P)
      BY <1>1, <2>1, PassiveAdded
    <2>2. CASE P = {} /\ passive' = passive
      BY <1>1, <2>2 DEF PassiveAfter
    <2>3. QED
      BY <2>1, <2>2 DEF Changed
  <1>3. /\ active' \in ActiveType /\ ActiveAfter(rs, A)
        /\ \A e \in Entry : AllOrNone(active'[e].connections, active'[e].counted)
    <2>1. CASE active' = AddActive(rs, A)
      BY <1>1, <2>1, ActiveAdded
    <2>2. CASE A = {} /\ active' = active
      BY <1>1, <2>2 DEF ActiveAfter
    <2>3. QED
      BY <2>1, <2>2 DEF Changed
  <1>4. DetailsWhole'
    BY <1>2, <1>3 DEF DetailsWhole
  <1>5. QED
    BY <1>2, <1>3, <1>4

LEMMA LineGeneral ==
    ASSUME IInv, NEW sock \in Socket, ReadLine(sock), NEW n, n = Len(read) + 1,
           NEW P \in SUBSET Lines', NEW A \in SUBSET Lines', P \cap A = {},
           \A i \in P \cup A : i \in Lines => IsUnknown(i),
           Changed(read', P, A),
           NEW lu, lu = local_unknown', NEW ru, ru = remote_unknown',
           lu \in [Addr -> Nat], ru \in [Addr -> Nat], Agree(read', lu, ru),
           \A i \in Lines : Waits(read', lu, ru, i)
                                <=> IsUnknown(i) /\ i \notin P \cup A,
           Waits(read', lu, ru, n) <=> n \notin P \cup A,
           passive_addr' = passive_addr \cup {read'[i].local : i \in P},
           active_addr' = active_addr \cup {read'[i].remote : i \in A},
           passive_addr' \subseteq Addr, active_addr' \subseteq Addr,
           n \notin P => sock.local \notin passive_addr,
           \A i \in P : read'[i].state # "LISTEN" => LocalShared(i)',
           \A i \in A : RemoteShared(i)',
           \A a \in passive_addr' : lu[a] = NoSocket
    PROVE  LineStep(P, A, n)
  <1>1. /\ TypeOK /\ InOwnEntry /\ DetailsWhole /\ read \in Seq(Socket)
        /\ read' = Append(read, sock) /\ result = "reading" /\ result' = result
    BY DEF IInv, EverySocketOnce, TypeOK, ReadLine
  <1>2. /\ read' \in Seq(Socket) /\ read'[n] = sock
        /\ Lines' = Lines \cup {n} /\ n \notin Lines /\ n \in Nat /\ Lines \subseteq Nat
        /\ IsFiniteSet(Lines)
    BY <1>1, LineRead
  <1>3. P \in SUBSET Nat /\ A \in SUBSET Nat /\ IsFiniteSet(P) /\ IsFiniteSet(A)
    <2>1. IsFiniteSet(Lines \cup {n})
      BY <1>2, FS_AddElement
    <2>2. QED
      BY <1>2, <2>1, FS_Subset
  <1>4. /\ passive' \in PassiveType /\ active' \in ActiveType
        /\ PassiveAfter(read', P) /\ ActiveAfter(read', A) /\ DetailsWhole'
    BY <1>1, <1>3, TablesChanged
  <1>5. /\ InOwnEntry'
        /\ \A i \in Lines' :
              /\ IsPassive(i)' <=> \/ i \in Lines /\ IsPassive(i)
                                   \/ i \in P /\ read'[i].state # "LISTEN"
              /\ IsListener(i)' <=> \/ i \in Lines /\ IsListener(i)
                                    \/ i \in P /\ read'[i].state = "LISTEN"
              /\ IsActive(i)' <=> (i \in Lines /\ IsActive(i)) \/ i \in A
    BY <1>1, <1>4, TablesMoved
  <1>6. \A i : IsUnknown(i)' <=> Waits(read', lu, ru, i)
    BY <1>1 DEF IsUnknown, Waits
  <1>7. Moved(P, A)
    BY <1>2, <1>5, <1>6 DEF Moved
  <1>8. MapsAgree'
    BY <1>6 DEF MapsAgree, Agree, IsUnknown, Waits, Lines
  <1>9. TypeOK'
    <2>1. global' \subseteq Nat
      BY <1>1, <1>2 DEF ReadLine, TypeOK
    <2>2. by_user' \in [Uid -> SUBSET Nat]
      BY <1>1, <1>2, EntryOf DEF ReadLine, TypeOK
    <2>3. QED
      BY <1>1, <1>2, <1>4, <2>1, <2>2 DEF TypeOK, PassiveType, ActiveType
  <1>10. QED
    BY <1>2, <1>4, <1>5, <1>7, <1>8, <1>9 DEF LineStep

LEMMA LineMoves ==
    ASSUME IInv, NEW sock \in Socket, ReadLine(sock), NEW n, n = Len(read) + 1
    PROVE  \E P, A : LineStep(P, A, n)
  <1>0. PICK rs0, rs1, lu0, ru0, lu, ru :
            /\ rs0 = read /\ rs1 = read' /\ lu0 = local_unknown /\ ru0 = remote_unknown
            /\ lu = local_unknown' /\ ru = remote_unknown'
    OBVIOUS
  <1>1. /\ read \in Seq(Socket) /\ result = "reading" /\ result # "done"
        /\ read' = Append(read, sock)
        /\ local_unknown \in [Addr -> Nat] /\ remote_unknown \in [Addr -> Nat]
        /\ passive_addr \subseteq Addr /\ active_addr \subseteq Addr
    BY DEF IInv, TypeOK, ReadLine
  <1>2. /\ read' \in Seq(Socket) /\ read'[n] = sock
        /\ Lines' = Lines \cup {n} /\ n \notin Lines /\ n \in Nat \ {0}
        /\ Lines = 1..Len(read) /\ Lines' = 1..Len(read')
        /\ \A i \in Lines : read'[i] = read[i] /\ read[i] \in Socket
    BY <1>1, LineRead DEF Lines
  <1>3. /\ sock.local \in Addr
        /\ sock.state = "LISTEN" => sock.remote = NoAddr /\ sock.remote \notin Addr
        /\ sock.state # "LISTEN" => sock.remote \in Addr
    BY EntryOf, ConnectionsAssumption
  <1>4. /\ Agree(read, local_unknown, remote_unknown)
        /\ \A i : IsUnknown(i) <=> Waits(read, local_unknown, remote_unknown, i)
    BY <1>1, UnknownWaits DEF IInv, EverySocketOnce
  <1>5. /\ Agree(read', local_unknown, remote_unknown)
        /\ ~Waits(read', local_unknown, remote_unknown, n)
        /\ \A i \in Lines : Waits(read', local_unknown, remote_unknown, i) <=> IsUnknown(i)
    <2>1. rs0 \in Seq(Socket) /\ rs1 = Append(rs0, sock) /\ Agree(rs0, lu0, ru0)
          /\ n = Len(rs0) + 1
      BY <1>0, <1>1, <1>4
    <2>2. /\ Agree(rs1, lu0, ru0) /\ ~Waits(rs1, lu0, ru0, n)
          /\ \A i \in 1..Len(rs0) : Waits(rs1, lu0, ru0, i) <=> Waits(rs0, lu0, ru0, i)
      BY <2>1, WaitsStay
    <2>3. QED
      BY <1>0, <1>2, <1>4, <2>2
  <1>6. /\ \A a \in passive_addr : /\ local_unknown[a] = NoSocket
                                   /\ \E i \in Lines : read[i].local = a
        /\ \A a \in active_addr : \E i \in Lines : read[i].remote = a
    BY <1>1 DEF IInv, AddressesKnown
  <1>7. ASSUME NEW i \in Lines', NEW j \in Lines', i # j
        PROVE  /\ read'[i].local = read'[j].local => LocalShared(i)'
               /\ read'[i].remote = read'[j].remote => RemoteShared(i)'
    BY <1>7 DEF LocalShared, RemoteShared
  <1>8. CASE ToPassive(read', n)
    <2>1. sock.local \in passive_addr /\ Changed(read', {n}, {})
          /\ lu = local_unknown /\ ru = remote_unknown
          /\ passive_addr' = passive_addr /\ active_addr' = active_addr
      BY <1>0, <1>2, <1>8 DEF ToPassive, KnownPassive, Unmoved, Changed
    <2>2. LocalShared(n)'
      <3>1. PICK i \in Lines : read[i].local = sock.local
        BY <1>6, <2>1
      <3>2. QED
        BY <1>2, <1>7, <3>1
    <2>3. LineStep({n}, {}, n)
      <3>1. lu = local_unknown' /\ ru = remote_unknown'
        BY <1>0
      <3>2. passive_addr' = passive_addr \cup {read'[i].local : i \in {n}}
        BY <1>2, <2>1
      <3>3. active_addr' = active_addr \cup {read'[i].remote : i \in {}}
        BY <2>1
      <3>4. {n} \in SUBSET Lines' /\ {} \in SUBSET Lines' /\ {n} \cap {} = {}
        BY <1>2
      <3>5. /\ \A i \in {n} \cup {} : i \in Lines => IsUnknown(i)
            /\ \A i \in Lines : Waits(read', lu, ru, i) <=> IsUnknown(i) /\ i \notin {n} \cup {}
            /\ Waits(read', lu, ru, n) <=> n \notin {n} \cup {}
            /\ Agree(read', lu, ru) /\ lu \in [Addr -> Nat] /\ ru \in [Addr -> Nat]
        BY <1>1, <1>2, <1>5, <2>1
      <3>6. /\ n \notin {n} => sock.local \notin passive_addr
            /\ \A i \in {n} : read'[i].state # "LISTEN" => LocalShared(i)'
            /\ \A i \in {} : RemoteShared(i)'
            /\ \A a \in passive_addr' : lu[a] = NoSocket
            /\ passive_addr' \subseteq Addr /\ active_addr' \subseteq Addr
        BY <1>1, <1>6, <2>1, <2>2
      <3>7. QED
        BY <2>1, <3>1, <3>2, <3>3, <3>4, <3>5, <3>6, LineGeneral
    <2>4. QED
      BY <2>3
  <1>9. CASE ToActive(read', n)
    <2>1. /\ sock.local \notin passive_addr /\ sock.remote \in active_addr
          /\ Changed(read', {}, {n})
          /\ lu = local_unknown /\ ru = remote_unknown
          /\ passive_addr' = passive_addr /\ active_addr' = active_addr
      BY <1>0, <1>2, <1>9 DEF ToActive, KnownPassive, KnownActive, Unmoved, Changed
    <2>2. RemoteShared(n)'
      <3>1. PICK i \in Lines : read[i].remote = sock.remote
        BY <1>6, <2>1
      <3>2. QED
        BY <1>2, <1>7, <3>1
    <2>3. LineStep({}, {n}, n)
      <3>1. lu = local_unknown' /\ ru = remote_unknown'
        BY <1>0
      <3>2. passive_addr' = passive_addr \cup {read'[i].local : i \in {}}
        BY <2>1
      <3>3. active_addr' = active_addr \cup {read'[i].remote : i \in {n}}
        BY <1>2, <2>1
      <3>4. {n} \in SUBSET Lines' /\ {} \in SUBSET Lines' /\ {} \cap {n} = {}
        BY <1>2
      <3>5. /\ \A i \in {} \cup {n} : i \in Lines => IsUnknown(i)
            /\ \A i \in Lines : Waits(read', lu, ru, i) <=> IsUnknown(i) /\ i \notin {} \cup {n}
            /\ Waits(read', lu, ru, n) <=> n \notin {} \cup {n}
            /\ Agree(read', lu, ru) /\ lu \in [Addr -> Nat] /\ ru \in [Addr -> Nat]
        BY <1>1, <1>2, <1>5, <2>1
      <3>6. /\ n \notin {} => sock.local \notin passive_addr
            /\ \A i \in {} : read'[i].state # "LISTEN" => LocalShared(i)'
            /\ \A i \in {n} : RemoteShared(i)'
            /\ \A a \in passive_addr' : lu[a] = NoSocket
            /\ passive_addr' \subseteq Addr /\ active_addr' \subseteq Addr
        BY <1>1, <1>6, <2>1, <2>2
      <3>7. QED
        BY <2>1, <3>1, <3>2, <3>3, <3>4, <3>5, <3>6, LineGeneral
    <2>4. QED
      BY <2>3
  <1>10. CASE SecondOnLocal(read', n)
    <2>0. PICK old : old = local_unknown[sock.local]
      OBVIOUS
    <2>1. /\ sock.local \notin passive_addr /\ old # NoSocket
          /\ Changed(read', {old, n}, {})
          /\ lu = [local_unknown EXCEPT ![sock.local] = NoSocket]
          /\ ru = [remote_unknown EXCEPT ![read'[old].remote] = NoSocket]
          /\ passive_addr' = passive_addr \cup {sock.local} /\ active_addr' = active_addr
      BY <1>0, <1>2, <1>10, <2>0 DEF SecondOnLocal, KnownPassive, SameLocal, Changed
    <2>2. old \in Lines /\ read'[old].local = sock.local /\ IsUnknown(old)
      BY <1>2, <1>3, <1>4, <2>0, <2>1 DEF Agree
    <2>3. Waits(read', local_unknown, remote_unknown, old)
      BY <1>5, <2>2
    <2>4. LocalShared(n)' /\ LocalShared(old)'
      BY <1>2, <1>7, <2>2
    <2>5. lu \in [Addr -> Nat] /\ ru \in [Addr -> Nat]
      <3>1. NoSocket \in Nat
        BY DEF NoSocket
      <3>2. QED
        BY <1>1, <2>1, <3>1
    <2>6. \A a \in passive_addr' : lu[a] = NoSocket
      BY <1>1, <1>3, <1>6, <2>1
    <2>7. /\ Agree(read', lu, ru)
          /\ \A i \in Lines' : Waits(read', lu, ru, i)
                <=> Waits(read', local_unknown, remote_unknown, i) /\ i # old
      <3>1. /\ \A a \in Addr :
                  /\ lu[a] = IF a = rs1[old].local THEN NoSocket ELSE lu0[a]
                  /\ ru[a] = IF a = rs1[old].remote THEN NoSocket ELSE ru0[a]
            /\ old \in 1..Len(rs1) /\ rs1 \in Seq(Socket)
            /\ Agree(rs1, lu0, ru0) /\ Waits(rs1, lu0, ru0, old)
        BY <1>0, <1>1, <1>2, <1>5, <2>1, <2>2, <2>3
      <3>2. /\ Agree(rs1, lu, ru)
            /\ \A i \in 1..Len(rs1) : Waits(rs1, lu, ru, i) <=> Waits(rs1, lu0, ru0, i) /\ i # old
        BY <3>1, WaitsLess
      <3>3. QED
        BY <1>0, <1>2, <3>2
    <2>8. LineStep({old, n}, {}, n)
      <3>1. lu = local_unknown' /\ ru = remote_unknown'
        BY <1>0
      <3>2. passive_addr' = passive_addr \cup {read'[i].local : i \in {old, n}}
        BY <1>2, <2>1, <2>2
      <3>3. active_addr' = active_addr \cup {read'[i].remote : i \in {}}
        BY <2>1
      <3>4. {old, n} \in SUBSET Lines' /\ {} \in SUBSET Lines' /\ {old, n} \cap {} = {}
        BY <1>2, <2>2
      <3>5. /\ \A i \in {old, n} \cup {} : i \in Lines => IsUnknown(i)
            /\ \A i \in Lines : Waits(read', lu, ru, i) <=> IsUnknown(i) /\ i \notin {old, n} \cup {}
            /\ Waits(read', lu, ru, n) <=> n \notin {old, n} \cup {}
        BY <1>2, <1>5, <2>2, <2>7
      <3>6. /\ n \notin {old, n} => sock.local \notin passive_addr
            /\ \A i \in {old, n} : read'[i].state # "LISTEN" => LocalShared(i)'
            /\ \A i \in {} : RemoteShared(i)'
            /\ passive_addr' \subseteq Addr /\ active_addr' \subseteq Addr
        <4>1. \A i \in {old, n} : LocalShared(i)'
          BY <2>4
        <4>2. QED
          BY <1>1, <1>3, <2>1, <4>1
      <3>7. QED
        BY <2>1, <2>5, <2>6, <2>7, <3>1, <3>2, <3>3, <3>4, <3>5, <3>6, LineGeneral
    <2>9. QED
      BY <2>8
  <1>11. CASE SecondOnRemote(read', n)
    <2>0. PICK other : other = remote_unknown[sock.remote]
      OBVIOUS
    <2>1. /\ sock.local \notin passive_addr /\ other # NoSocket /\ sock.remote \in Addr
          /\ local_unknown[sock.local] = NoSocket
          /\ Changed(read', {}, {other, n})
          /\ ru = [remote_unknown EXCEPT ![sock.remote] = NoSocket]
          /\ lu = [local_unknown EXCEPT ![read'[other].local] = NoSocket]
          /\ active_addr' = active_addr \cup {sock.remote} /\ passive_addr' = passive_addr
      BY <1>0, <1>2, <1>11, <2>0 DEF SecondOnRemote, KnownPassive, SameLocal, SameRemote, Changed
    <2>2. other \in Lines /\ read'[other].remote = sock.remote /\ IsUnknown(other)
      BY <1>2, <1>3, <1>4, <2>0, <2>1 DEF Agree
    <2>3. Waits(read', local_unknown, remote_unknown, other)
      BY <1>5, <2>2
    <2>4. RemoteShared(n)' /\ RemoteShared(other)'
      BY <1>2, <1>7, <2>2
    <2>5. lu \in [Addr -> Nat] /\ ru \in [Addr -> Nat]
      <3>1. NoSocket \in Nat
        BY DEF NoSocket
      <3>2. QED
        BY <1>1, <2>1, <3>1
    <2>6. \A a \in passive_addr' : lu[a] = NoSocket
      BY <1>1, <1>3, <1>6, <2>1
    <2>7. /\ Agree(read', lu, ru)
          /\ \A i \in Lines' : Waits(read', lu, ru, i)
                <=> Waits(read', local_unknown, remote_unknown, i) /\ i # other
      <3>1. /\ \A a \in Addr :
                  /\ lu[a] = IF a = rs1[other].local THEN NoSocket ELSE lu0[a]
                  /\ ru[a] = IF a = rs1[other].remote THEN NoSocket ELSE ru0[a]
            /\ other \in 1..Len(rs1) /\ rs1 \in Seq(Socket)
            /\ Agree(rs1, lu0, ru0) /\ Waits(rs1, lu0, ru0, other)
        BY <1>0, <1>1, <1>2, <1>5, <2>1, <2>2, <2>3
      <3>2. /\ Agree(rs1, lu, ru)
            /\ \A i \in 1..Len(rs1) : Waits(rs1, lu, ru, i) <=> Waits(rs1, lu0, ru0, i) /\ i # other
        BY <3>1, WaitsLess
      <3>3. QED
        BY <1>0, <1>2, <3>2
    <2>8. LineStep({}, {other, n}, n)
      <3>1. lu = local_unknown' /\ ru = remote_unknown'
        BY <1>0
      <3>2. active_addr' = active_addr \cup {read'[i].remote : i \in {other, n}}
        BY <1>2, <2>1, <2>2
      <3>3. passive_addr' = passive_addr \cup {read'[i].local : i \in {}}
        BY <2>1
      <3>4. {other, n} \in SUBSET Lines' /\ {} \in SUBSET Lines' /\ {} \cap {other, n} = {}
        BY <1>2, <2>2
      <3>5. /\ \A i \in {} \cup {other, n} : i \in Lines => IsUnknown(i)
            /\ \A i \in Lines : Waits(read', lu, ru, i) <=> IsUnknown(i) /\ i \notin {} \cup {other, n}
            /\ Waits(read', lu, ru, n) <=> n \notin {} \cup {other, n}
        BY <1>2, <1>5, <2>2, <2>7
      <3>6. /\ n \notin {} => sock.local \notin passive_addr
            /\ \A i \in {} : read'[i].state # "LISTEN" => LocalShared(i)'
            /\ \A i \in {other, n} : RemoteShared(i)'
            /\ passive_addr' \subseteq Addr /\ active_addr' \subseteq Addr
        <4>1. \A i \in {other, n} : RemoteShared(i)'
          BY <2>4
        <4>2. QED
          BY <1>1, <1>3, <2>1, <4>1
      <3>7. QED
        BY <2>1, <2>5, <2>6, <2>7, <3>1, <3>2, <3>3, <3>4, <3>5, <3>6, LineGeneral
    <2>9. QED
      BY <2>8
  <1>12. CASE Listens(read', n)
    <2>1. /\ local_unknown[sock.local] = NoSocket /\ sock.state = "LISTEN"
          /\ Changed(read', {n}, {})
          /\ lu = local_unknown /\ ru = remote_unknown
          /\ passive_addr' = passive_addr \cup {sock.local} /\ active_addr' = active_addr
      BY <1>0, <1>2, <1>12 DEF Listens, Fresh, SameLocal, Unmoved, Changed
    <2>2. LineStep({n}, {}, n)
      <3>1. lu = local_unknown' /\ ru = remote_unknown'
        BY <1>0
      <3>2. passive_addr' = passive_addr \cup {read'[i].local : i \in {n}}
        BY <1>2, <2>1
      <3>3. active_addr' = active_addr \cup {read'[i].remote : i \in {}}
        BY <2>1
      <3>4. {n} \in SUBSET Lines' /\ {} \in SUBSET Lines' /\ {n} \cap {} = {}
        BY <1>2
      <3>5. /\ \A i \in {n} \cup {} : i \in Lines => IsUnknown(i)
            /\ \A i \in Lines : Waits(read', lu, ru, i) <=> IsUnknown(i) /\ i \notin {n} \cup {}
            /\ Waits(read', lu, ru, n) <=> n \notin {n} \cup {}
            /\ Agree(read', lu, ru) /\ lu \in [Addr -> Nat] /\ ru \in [Addr -> Nat]
        BY <1>1, <1>2, <1>5, <2>1
      <3>6. /\ n \notin {n} => sock.local \notin passive_addr
            /\ \A i \in {n} : read'[i].state # "LISTEN" => LocalShared(i)'
            /\ \A i \in {} : RemoteShared(i)'
            /\ \A a \in passive_addr' : lu[a] = NoSocket
            /\ passive_addr' \subseteq Addr /\ active_addr' \subseteq Addr
        BY <1>1, <1>2, <1>3, <1>6, <2>1
      <3>7. QED
        BY <2>1, <3>1, <3>2, <3>3, <3>4, <3>5, <3>6, LineGeneral
    <2>3. QED
      BY <2>2
  <1>13. CASE Unknown(read', n)
    <2>1. /\ sock.local \notin passive_addr /\ sock.state # "LISTEN"
          /\ local_unknown[sock.local] = NoSocket
          /\ (sock.remote \in Addr => remote_unknown[sock.remote] = NoSocket)
          /\ Changed(read', {}, {})
          /\ lu = [local_unknown EXCEPT ![sock.local] = n]
          /\ ru = [remote_unknown EXCEPT ![sock.remote] = n]
          /\ passive_addr' = passive_addr /\ active_addr' = active_addr
      BY <1>0, <1>2, <1>13 DEF Unknown, Fresh, KnownPassive, SameLocal, SameRemote, Changed
    <2>2. lu \in [Addr -> Nat] /\ ru \in [Addr -> Nat]
      BY <1>1, <1>2, <2>1
    <2>3. \A a \in passive_addr' : lu[a] = NoSocket
      BY <1>1, <1>3, <1>6, <2>1
    <2>4. /\ Agree(read', lu, ru) /\ Waits(read', lu, ru, n)
          /\ \A i \in Lines : Waits(read', lu, ru, i)
                <=> Waits(read, local_unknown, remote_unknown, i)
      <3>1. /\ rs1 \in Seq(Socket) /\ n \in 1..Len(rs1) /\ rs1[n].remote \in Addr
            /\ Agree(rs1, lu0, ru0)
            /\ lu0[rs1[n].local] = NoSocket /\ ru0[rs1[n].remote] = NoSocket
            /\ \A a \in Addr : /\ lu[a] = IF a = rs1[n].local THEN n ELSE lu0[a]
                            /\ ru[a] = IF a = rs1[n].remote THEN n ELSE ru0[a]
        BY <1>0, <1>1, <1>2, <1>3, <1>5, <2>1
      <3>2. /\ Agree(rs1, lu, ru) /\ Waits(rs1, lu, ru, n)
            /\ \A i \in 1..Len(rs1) : i # n =>
                  (Waits(rs1, lu, ru, i) <=> Waits(rs1, lu0, ru0, i))
        BY <3>1, WaitsMore
      <3>3. QED
        BY <1>0, <1>2, <1>4, <1>5, <3>2
    <2>5. LineStep({}, {}, n)
      <3>1. lu = local_unknown' /\ ru = remote_unknown'
        BY <1>0
      <3>2. passive_addr' = passive_addr \cup {read'[i].local : i \in {}}
        BY <2>1
      <3>3. active_addr' = active_addr \cup {read'[i].remote : i \in {}}
        BY <2>1
      <3>4. {} \in SUBSET Lines' /\ {} \cap {} = {}
        OBVIOUS
      <3>5. /\ \A i \in {} \cup {} : i \in Lines => IsUnknown(i)
            /\ \A i \in Lines : Waits(read', lu, ru, i) <=> IsUnknown(i) /\ i \notin {} \cup {}
            /\ Waits(read', lu, ru, n) <=> n \notin {} \cup {}
        BY <1>4, <2>4
      <3>6. /\ n \notin {} => sock.local \notin passive_addr
            /\ \A i \in {} : read'[i].state # "LISTEN" => LocalShared(i)'
            /\ \A i \in {} : RemoteShared(i)'
            /\ passive_addr' \subseteq Addr /\ active_addr' \subseteq Addr
        BY <1>1, <2>1
      <3>7. QED
        BY <2>1, <2>2, <2>3, <2>4, <3>1, <3>2, <3>3, <3>4, <3>5, <3>6, LineGeneral
    <2>6. QED
      BY <2>5
  <1>14. QED
    <2>1. \/ ToPassive(read', n) \/ ToActive(read', n) \/ SecondOnLocal(read', n)
          \/ SecondOnRemote(read', n) \/ Listens(read', n) \/ Unknown(read', n)
      BY <1>1 DEF ReadLine
    <2>2. QED
      BY <1>8, <1>9, <1>10, <1>11, <1>12, <1>13, <2>1

LEMMA ReadLineKeeps ==
    ASSUME IInv, NEW sock \in Socket, ReadLine(sock)
    PROVE  IInv'
  <1>1. PICK n : n = Len(read) + 1
    OBVIOUS
  <1>2. PICK P, A : LineStep(P, A, n)
    BY <1>1, LineMoves
  <1>3. /\ read \in Seq(Socket) /\ result = "reading" /\ result' = "reading"
        /\ read' = Append(read, sock)
        /\ global' = global \cup {n} /\ by_user' = [by_user EXCEPT ![sock.uid] = @ \cup {n}]
    BY <1>1 DEF IInv, TypeOK, ReadLine
  <1>4. /\ read' \in Seq(Socket) /\ read'[n] = sock
        /\ Lines' = Lines \cup {n} /\ n \notin Lines
        /\ \A i \in Lines : read'[i] = read[i] /\ read[i] \in Socket /\ i < n
    <2>1. \A i \in Lines : i < n
      BY <1>1, <1>3 DEF Lines
    <2>2. QED
      BY <1>1, <1>3, <2>1, LineRead
  <1>5. /\ P \subseteq Lines' /\ A \subseteq Lines' /\ P \cap A = {}
        /\ \A i \in P \cup A : i \in Lines => IsUnknown(i)
    BY <1>2 DEF LineStep
  <1>6. /\ TypeOK' /\ InOwnEntry' /\ MapsAgree' /\ DetailsWhole'
    BY <1>2 DEF LineStep
  <1>7. InTotals'
    <2>1. global' = Lines'
      BY <1>3, <1>4 DEF IInv, EverySocketOnce, InTotals
    <2>2. ASSUME NEW u \in Uid
          PROVE  by_user'[u] = {i \in Lines' : read'[i].uid = u}
      <3>1. by_user[u] = {i \in Lines : read[i].uid = u}
        BY DEF IInv, EverySocketOnce, InTotals
      <3>2. by_user'[u] = IF u = sock.uid THEN by_user[u] \cup {n} ELSE by_user[u]
        BY <1>3 DEF IInv, TypeOK
      <3>3. {i \in Lines' : read'[i].uid = u} =
              {i \in Lines : read[i].uid = u} \cup (IF u = sock.uid THEN {n} ELSE {})
        BY <1>4
      <3>4. QED
        BY <3>1, <3>2, <3>3
    <2>3. QED
      BY <2>1, <2>2 DEF InTotals
  <1>8. \A i \in Lines : Placed(i) /\ (IsListener(i) <=> read[i].state = "LISTEN")
    BY DEF IInv, EverySocketOnce, OnePlace
  <1>9. ASSUME NEW i \in Lines'
        PROVE  /\ IsPassive(i)' <=> \/ i \in Lines /\ IsPassive(i)
                                    \/ i \in P /\ read'[i].state # "LISTEN"
               /\ IsListener(i)' <=> \/ i \in Lines /\ IsListener(i)
                                     \/ i \in P /\ read'[i].state = "LISTEN"
               /\ IsActive(i)' <=> (i \in Lines /\ IsActive(i)) \/ i \in A
               /\ i \in Lines => (IsUnknown(i)' <=> IsUnknown(i) /\ i \notin P \cup A)
               /\ i \notin Lines => (IsUnknown(i)' <=> i \notin P \cup A)
    BY <1>2 DEF LineStep, Moved
  <1>10. OnePlace'
    <2> SUFFICES ASSUME NEW i \in Lines'
                 PROVE  Placed(i)' /\ (IsListener(i)' <=> read'[i].state = "LISTEN")
      BY DEF OnePlace
    <2>1. i \in A => read'[i].state # "LISTEN"
      <3>1. CASE i \in Lines
        BY <1>4, <1>5, <1>8, <3>1 DEF Placed
      <3>2. CASE i = n
        <4> SUFFICES ASSUME i \in A, read'[i].state = "LISTEN"
                     PROVE  FALSE
          OBVIOUS
        <4>1. active_addr' \subseteq Addr /\ read'[i].remote \in active_addr'
          BY <1>2, <1>6 DEF LineStep, TypeOK
        <4>2. sock.remote \notin Addr
          BY <1>4, <3>2, EntryOf, ConnectionsAssumption
        <4>3. QED
          BY <1>4, <3>2, <4>1, <4>2
      <3>3. QED
        BY <1>4, <3>1, <3>2
    <2>2. CASE i \in Lines
      <3>1. Placed(i) /\ (IsListener(i) <=> read'[i].state = "LISTEN")
        BY <1>4, <1>8, <2>2
      <3>2. CASE i \in P
        BY <1>5, <1>9, <2>2, <3>1, <3>2 DEF Placed
      <3>3. CASE i \in A
        BY <1>5, <1>9, <2>1, <2>2, <3>1, <3>3 DEF Placed
      <3>4. CASE i \notin P \cup A
        BY <1>9, <2>2, <3>1, <3>4 DEF Placed
      <3>5. QED
        BY <3>2, <3>3, <3>4
    <2>3. CASE i = n
      <3>1. i \notin P \cup A => read'[i].state # "LISTEN"
        <4> SUFFICES ASSUME i \notin P \cup A, read'[i].state = "LISTEN"
                     PROVE  FALSE
          OBVIOUS
        <4>1. IsUnknown(i)'
          BY <1>4, <1>9, <2>3
        <4>2. read'[i].remote \in Addr
          BY <4>1 DEF IsUnknown
        <4>3. QED
          BY <1>4, <2>3, <4>2, EntryOf, ConnectionsAssumption
      <3>2. QED
        BY <1>4, <1>5, <1>9, <2>1, <2>3, <3>1 DEF Placed
    <2>4. QED
      BY <1>4, <2>2, <2>3
  <1>11. /\ \A i \in Lines : LocalShared(i) => LocalShared(i)'
         /\ \A i \in Lines : RemoteShared(i) => RemoteShared(i)'
    BY <1>4 DEF LocalShared, RemoteShared
  <1>12. /\ \A i \in Lines : IsPassive(i) \/ IsListener(i) => read[i].local \in passive_addr
         /\ \A i \in Lines : IsPassive(i) => LocalShared(i)
         /\ \A i \in Lines : IsActive(i) => RemoteShared(i)
         /\ \A a \in passive_addr : \E i \in Lines : read[i].local = a
         /\ \A a \in active_addr : \E i \in Lines : read[i].remote = a
    BY <1>3 DEF IInv, AddressesKnown
  <1>13. /\ passive_addr' = passive_addr \cup {read'[i].local : i \in P}
         /\ active_addr' = active_addr \cup {read'[i].remote : i \in A}
         /\ \A i \in P : read'[i].state # "LISTEN" => LocalShared(i)'
         /\ \A i \in A : RemoteShared(i)'
         /\ \A a \in passive_addr' : local_unknown'[a] = NoSocket
         /\ n \notin P => sock.local \notin passive_addr
    BY <1>2, <1>4 DEF LineStep
  <1>14. ASSUME NEW i \in Lines', IsPassive(i)' \/ IsListener(i)'
         PROVE  read'[i].local \in passive_addr'
    BY <1>4, <1>9, <1>12, <1>13, <1>14
  <1>15. ASSUME NEW i \in Lines'
         PROVE  /\ IsPassive(i)' => LocalShared(i)'
                /\ IsActive(i)' => RemoteShared(i)'
    BY <1>9, <1>11, <1>12, <1>13
  <1>16. AddressesKnown'
    <2>1. \A a \in passive_addr' : \E i \in Lines' : read'[i].local = a
      BY <1>4, <1>5, <1>12, <1>13
    <2>2. \A a \in active_addr' : \E i \in Lines' : read'[i].remote = a
      BY <1>4, <1>5, <1>12, <1>13
    <2>3. QED
      BY <1>13, <1>14, <1>15, <2>1, <2>2 DEF AddressesKnown
  <1>17. AloneOrAmbiguous'
    <2> SUFFICES ASSUME Unambiguous', NEW i \in Lines', IsActive(i)' \/ IsUnknown(i)',
                        NEW j \in Lines' \ {i}, read'[j].local = read'[i].local
                 PROVE  FALSE
      BY DEF AloneOrAmbiguous, LocalShared
    <2>1. LocalShared(i)' /\ LocalShared(j)'
      BY DEF LocalShared
    <2>2. ~IsActive(i)' /\ ~IsActive(j)'
      BY <1>10, <1>15, <2>1 DEF OnePlace, Placed, Unambiguous
    <2>3. local_unknown'[read'[i].local] = i
      BY <2>2 DEF IsUnknown
    <2>4. ~IsUnknown(j)'
      BY <2>3 DEF IsUnknown
    <2>5. read'[j].local \in passive_addr'
      BY <1>10, <1>14, <2>2, <2>4 DEF OnePlace, Placed
    <2>6. i # NoSocket
      BY <1>4 DEF NoSocket, Lines
    <2>7. QED
      BY <1>13, <2>3, <2>5, <2>6
  <1>18. ByListener'
    <2> SUFFICES ASSUME NEW i \in Lines', NEW j \in Lines', j < i,
                        read'[j].state = "LISTEN", read'[j].local = read'[i].local
                 PROVE  IsPassive(i)' \/ IsListener(i)'
      BY DEF ByListener
    <2>1. CASE i \in Lines
      <3>1. j \in Lines
        BY <1>1, <1>3, <1>4, <2>1 DEF Lines
      <3>2. IsPassive(i) \/ IsListener(i)
        BY <1>4, <2>1, <3>1 DEF IInv, ByListener
      <3>3. QED
        BY <1>9, <2>1, <3>2
    <2>2. CASE i = n
      <3>1. j \in Lines
        BY <1>1, <1>3, <1>4, <2>2 DEF Lines
      <3>2. sock.local \in passive_addr
        BY <1>4, <1>8, <1>12, <2>2, <3>1
      <3>3. n \in P
        BY <1>13, <3>2
      <3>4. QED
        BY <1>9, <2>2, <3>3
    <2>3. QED
      BY <1>4, <2>1, <2>2
  <1>19. QED
    BY <1>6, <1>7, <1>10, <1>16, <1>17, <1>18 DEF IInv, EverySocketOnce

-----------------------------------------------------------------------------
(* The end of the file, and the theorems                                   *)

LEMMA FinishKeeps ==
    ASSUME IInv, Finish
    PROVE  IInv'
  <1>1. /\ result = "reading" /\ result' = "done" /\ read \in Seq(Socket)
        /\ active' = AddActive(read, Remaining)
        /\ UNCHANGED <<read, global, by_user, passive, passive_addr, active_addr,
                       local_unknown, remote_unknown>>
    BY DEF Finish, IInv, TypeOK
  <1>2. Lines' = Lines /\ IsFiniteSet(Lines) /\ Lines \subseteq Nat
    BY <1>1, FS_Interval DEF Lines
  <1>3. /\ TypeOK /\ OnePlace /\ InOwnEntry /\ MapsAgree /\ DetailsWhole
        /\ \A i \in Lines : read[i] \in Socket
    BY <1>1 DEF IInv, EverySocketOnce, Lines
  <1>4. Remaining = {i \in Lines : IsUnknown(i)}
    <2>1. ASSUME NEW i \in Remaining
          PROVE  i \in Lines /\ IsUnknown(i)
      BY <1>1, <1>3 DEF Remaining, MapsAgree
    <2>2. ASSUME NEW i \in Lines, IsUnknown(i)
          PROVE  i \in Remaining
      BY <2>2 DEF IsUnknown, Remaining, Lines, NoSocket
    <2>3. QED
      BY <2>1, <2>2
  <1>5. PICK W : W = Remaining
    OBVIOUS
  <1>6. W \in SUBSET Nat /\ IsFiniteSet(W) /\ W \subseteq Lines
    BY <1>2, <1>4, <1>5, FS_Subset
  <1>7. /\ passive' \in PassiveType /\ active' \in ActiveType
        /\ ActiveAfter(read, W) /\ DetailsWhole'
    <2>1. PICK rs : rs = read
      OBVIOUS
    <2>2. Changed(rs, {}, W)
      BY <1>1, <1>5, <2>1 DEF Changed
    <2>3. /\ passive' \in PassiveType /\ active' \in ActiveType
          /\ ActiveAfter(rs, W) /\ DetailsWhole'
      BY <1>3, <1>6, <2>2, FS_EmptySet, TablesChanged
    <2>4. QED
      BY <2>1, <2>3
  <1>8. TypeOK'
    BY <1>1, <1>3, <1>7 DEF TypeOK, PassiveType, ActiveType
  <1>9. ASSUME NEW i \in Lines
        PROVE  /\ IsPassive(i)' <=> IsPassive(i)
               /\ IsListener(i)' <=> IsListener(i)
               /\ IsActive(i)' <=> IsActive(i) \/ IsUnknown(i)
               /\ ~IsUnknown(i)'
    <2>1. <<read[i].uid, PortOf[read[i].remote]>> \in Entry
      BY <1>3, EntryOf
    <2>2. IsActive(i)' <=> IsActive(i) \/ i \in W
      BY <1>1, <1>7, <2>1 DEF IsActive, ActiveAfter
    <2>3. QED
      BY <1>1, <1>4, <1>5, <2>2 DEF IsPassive, IsListener, IsUnknown
  <1>10. OnePlace'
    BY <1>1, <1>2, <1>3, <1>9 DEF OnePlace, Placed
  <1>11. InOwnEntry'
    <2> SUFFICES ASSUME NEW e \in Entry
                 PROVE  /\ PassiveOf(e)' \subseteq
                             {i \in Lines' : <<read'[i].uid, PortOf[read'[i].local]>> = e}
                        /\ active'[e].counted \subseteq
                             {i \in Lines' : <<read'[i].uid, PortOf[read'[i].remote]>> = e}
      BY DEF InOwnEntry
    <2>1. active'[e].counted = active[e].counted \cup
              {i \in W : <<read[i].uid, PortOf[read[i].remote]>> = e}
      BY <1>7 DEF ActiveAfter
    <2>2. PassiveOf(e)' = PassiveOf(e)
      BY <1>1 DEF PassiveOf
    <2>3. QED
      BY <1>1, <1>2, <1>3, <1>6, <2>1, <2>2 DEF InOwnEntry
  <1>12. InTotals' /\ MapsAgree'
    BY <1>1, <1>2 DEF IInv, EverySocketOnce, InTotals, MapsAgree
  <1>13. /\ \A i \in Lines : LocalShared(i)' <=> LocalShared(i)
         /\ \A i \in Lines : RemoteShared(i)' <=> RemoteShared(i)
         /\ Unambiguous' <=> Unambiguous
    BY <1>1, <1>2 DEF LocalShared, RemoteShared, Unambiguous
  <1>14. AddressesKnown'
    BY <1>1, <1>2, <1>9, <1>13 DEF IInv, AddressesKnown
  <1>15. AloneOrAmbiguous'
    BY <1>2, <1>9, <1>13 DEF IInv, AloneOrAmbiguous
  <1>16. ByListener'
    BY <1>1, <1>2, <1>9 DEF IInv, ByListener
  <1>17. QED
    BY <1>7, <1>8, <1>10, <1>11, <1>12, <1>14, <1>15, <1>16 DEF IInv, EverySocketOnce

LEMMA InitInv == Init => IInv
  <1> SUFFICES ASSUME Init PROVE IInv
    OBVIOUS
  <1>1. Lines = {}
    BY DEF Init, Lines
  <1>2. TypeOK
    BY DEF Init, TypeOK, Listing, Some, NoSocket
  <1>3. DetailsWhole
    <2>1. Cardinality({}) <= MaxDetails
      BY FS_EmptySet, ConnectionsAssumption
    <2>2. AllOrNone(Some({}), {})
      BY <2>1 DEF AllOrNone
    <2>3. QED
      BY <2>2 DEF Init, DetailsWhole
  <1>4. EverySocketOnce
    BY <1>1 DEF Init, EverySocketOnce, InTotals, OnePlace, InOwnEntry, MapsAgree, PassiveOf
  <1>5. AddressesKnown /\ AloneOrAmbiguous /\ ByListener
    BY <1>1 DEF Init, AddressesKnown, AloneOrAmbiguous, ByListener
  <1>6. QED
    BY <1>2, <1>3, <1>4, <1>5 DEF IInv

LEMMA NextInv == IInv /\ [Next]_vars => IInv'
  <1> SUFFICES ASSUME IInv, [Next]_vars PROVE IInv'
    OBVIOUS
  <1>1. ASSUME NEW sock \in Socket, ReadLine(sock) PROVE IInv'
    BY <1>1, ReadLineKeeps
  <1>2. CASE Finish
    BY <1>2, FinishKeeps
  <1>3. CASE Fail
    <2>1. /\ result = "reading" /\ result' = "failed"
          /\ UNCHANGED <<read, global, by_user, passive, active, passive_addr,
                         active_addr, local_unknown, remote_unknown>>
      BY <1>3 DEF Fail
    <2>2. Lines' = Lines
      BY <2>1 DEF Lines
    <2>3. \A i : /\ IsPassive(i)' <=> IsPassive(i)
                 /\ IsListener(i)' <=> IsListener(i)
                 /\ IsActive(i)' <=> IsActive(i)
                 /\ IsUnknown(i)' <=> IsUnknown(i)
      BY <2>1 DEF IsPassive, IsListener, IsActive, IsUnknown
    <2>4. /\ \A i : LocalShared(i)' <=> LocalShared(i)
          /\ \A i : RemoteShared(i)' <=> RemoteShared(i)
          /\ Unambiguous' <=> Unambiguous
      BY <2>1, <2>2 DEF LocalShared, RemoteShared, Unambiguous
    <2>5. TypeOK' /\ DetailsWhole'
      BY <2>1 DEF IInv, TypeOK, DetailsWhole
    <2>6. InTotals' /\ InOwnEntry'
      BY <2>1, <2>2 DEF IInv, EverySocketOnce, InTotals, InOwnEntry, PassiveOf
    <2>7. OnePlace'
      BY <2>1, <2>2, <2>3 DEF IInv, EverySocketOnce, OnePlace, Placed
    <2>8. MapsAgree'
      BY <2>1, <2>2 DEF IInv, EverySocketOnce, MapsAgree, IsUnknown
    <2>9. AddressesKnown' /\ AloneOrAmbiguous' /\ ByListener'
      BY <2>1, <2>2, <2>3, <2>4 DEF IInv, AddressesKnown, AloneOrAmbiguous, ByListener
    <2>10. QED
      BY <2>5, <2>6, <2>7, <2>8, <2>9 DEF IInv, EverySocketOnce
  <1>4. CASE UNCHANGED vars
    <2>1. UNCHANGED <<read, result, global, by_user, passive, active, passive_addr,
                      active_addr, local_unknown, remote_unknown>>
      BY <1>4 DEF vars
    <2>2. Lines' = Lines
      BY <2>1 DEF Lines
    <2>3. \A i : /\ IsPassive(i)' <=> IsPassive(i)
                 /\ IsListener(i)' <=> IsListener(i)
                 /\ IsActive(i)' <=> IsActive(i)
                 /\ IsUnknown(i)' <=> IsUnknown(i)
      BY <2>1 DEF IsPassive, IsListener, IsActive, IsUnknown
    <2>4. /\ \A i : LocalShared(i)' <=> LocalShared(i)
          /\ \A i : RemoteShared(i)' <=> RemoteShared(i)
          /\ Unambiguous' <=> Unambiguous
      BY <2>1, <2>2 DEF LocalShared, RemoteShared, Unambiguous
    <2>5. TypeOK' /\ DetailsWhole' /\ InTotals' /\ InOwnEntry'
      BY <2>1, <2>2 DEF IInv, TypeOK, DetailsWhole, EverySocketOnce, InTotals, InOwnEntry, PassiveOf
    <2>6. OnePlace'
      BY <2>1, <2>2, <2>3 DEF IInv, EverySocketOnce, OnePlace, Placed
    <2>7. MapsAgree'
      BY <2>1, <2>2 DEF IInv, EverySocketOnce, MapsAgree, IsUnknown
    <2>8. AddressesKnown' /\ AloneOrAmbiguous' /\ ByListener'
      BY <2>1, <2>2, <2>3, <2>4 DEF IInv, AddressesKnown, AloneOrAmbiguous, ByListener
    <2>9. QED
      BY <2>5, <2>6, <2>7, <2>8 DEF IInv, EverySocketOnce
  <1>5. QED
    BY <1>1, <1>2, <1>3, <1>4 DEF Next

LEMMA Invariant == Spec => []IInv
  BY InitInv, NextInv, PTL DEF Spec

\* The state of the reader has its types (TypeOK).
THEOREM TypeCorrect == Spec => []TypeOK
  <1>1. IInv => TypeOK
    BY DEF IInv
  <1>2. QED
    BY <1>1, Invariant, PTL

\* Each socket of the totals is counted in one place, whatever the order of
\* the lines: the branches of _read and the two maps lose and double nothing.
THEOREM SocketsCountedOnce == Spec => []EverySocketOnce
  <1>1. IInv => EverySocketOnce
    BY DEF IInv
  <1>2. QED
    BY <1>1, Invariant, PTL

\* A list of sockets is all of them or nothing, for any limit.
THEOREM ListsWhole == Spec => []DetailsWhole
  <1>1. IInv => DetailsWhole
    BY DEF IInv
  <1>2. QED
    BY <1>1, Invariant, PTL

\* The direction of a socket: behind a listener always passive, and without
\* ambiguous sockets what the addresses say, whatever the order of the lines.
THEOREM DirectionByAddress == Spec => []Classified
  <1>1. IInv => Classified
    <2> SUFFICES ASSUME IInv PROVE Classified
      OBVIOUS
    <2>1. ByListener
      BY DEF IInv
    <2>2. ASSUME result = "done", Unambiguous, NEW i \in Lines, read[i].state # "LISTEN"
          PROVE  /\ LocalShared(i) => IsPassive(i)
                 /\ ~LocalShared(i) => IsActive(i)
      <3>1. ~IsUnknown(i) /\ ~IsListener(i) /\ Placed(i)
        BY <2>2 DEF IsUnknown, IInv, EverySocketOnce, OnePlace
      <3>2. IsPassive(i) => LocalShared(i)
        BY DEF IInv, AddressesKnown
      <3>3. IsActive(i) => ~LocalShared(i)
        BY <2>2 DEF IInv, AloneOrAmbiguous
      <3>4. QED
        BY <3>1, <3>2, <3>3 DEF Placed
    <2>3. ByAddress
      BY <2>2 DEF ByAddress
    <2>4. QED
      BY <2>1, <2>3 DEF Classified
  <1>2. QED
    BY <1>1, Invariant, PTL

=============================================================================

--------------------------- MODULE IncomingProofs ---------------------------
(***************************************************************************)
(* Proofs about Incoming, for every set of connections and requests and    *)
(* all queries.                                                            *)
(***************************************************************************)
EXTENDS Incoming, TLAPS

-----------------------------------------------------------------------------
(* Lemmas                                                                  *)

\* A trigger covers its own topic, and only topics.
LEMMA InsertTopics ==
    \A t \in Topic : t \in Insert(t) /\ Insert(t) \subseteq Topic
BY DEF Insert, Topic

\* What is subscribed after a start.
LEMMA StartSubscribes ==
    ASSUME IInv, NEW c \in Connection, NEW r \in Request, NEW query \in Query, Start(c, r, query)
    PROVE  /\ subscriptions' \in [Connection -> [Topic -> [Request -> Query \cup {NoQuery}]]]
           /\ \A d \in Connection, t \in Topic, q \in Request :
                 subscriptions'[d][t][q] =
                    IF d = c /\ q = r /\ t \in query THEN query ELSE subscriptions[d][t][q]
<1> DEFINE new == [t \in Topic |-> IF t \in query THEN [subscriptions[c][t] EXCEPT ![r] = query]
                                                  ELSE subscriptions[c][t]]
<1>1. subscriptions \in [Connection -> [Topic -> [Request -> Query \cup {NoQuery}]]]
  BY DEF IInv, TypeOK
<1>2. subscriptions' = [subscriptions EXCEPT ![c] = new]
  BY DEF Start
<1>3. new \in [Topic -> [Request -> Query \cup {NoQuery}]]
  BY <1>1
<1>4. \A t \in Topic, q \in Request :
         new[t][q] = IF q = r /\ t \in query THEN query ELSE subscriptions[c][t][q]
  BY <1>1
<1> HIDE DEF new
<1> QED BY <1>1, <1>2, <1>3, <1>4

\* What is subscribed after a stop, which found some topic t.
LEMMA StopUnsubscribes ==
    ASSUME IInv, NEW c \in Connection, NEW r \in Request, Stop(c, r)
    PROVE  \E t \in Topic :
              /\ Subscribed(c, t, r)
              /\ subscriptions' \in [Connection -> [Topic -> [Request -> Query \cup {NoQuery}]]]
              /\ \A d \in Connection, s \in Topic, q \in Request :
                    subscriptions'[d][s][q] =
                       IF d = c /\ s = t /\ q = r THEN NoQuery ELSE subscriptions[d][s][q]
              /\ subscribers' = IF LastOf(c, t, r)
                                THEN [subscribers EXCEPT ![t] = @ \ {c}] ELSE subscribers
              /\ missed' = missed \ {<<c, t, r>>}
<1>1. subscriptions \in [Connection -> [Topic -> [Request -> Query \cup {NoQuery}]]]
  BY DEF IInv, TypeOK
<1>2. PICK t \in Topic :
         /\ Subscribed(c, t, r)
         /\ subscriptions' = [subscriptions EXCEPT ![c][t][r] = NoQuery]
         /\ subscribers' = IF LastOf(c, t, r)
                           THEN [subscribers EXCEPT ![t] = @ \ {c}] ELSE subscribers
         /\ missed' = missed \ {<<c, t, r>>}
  BY DEF Stop
<1>3. subscriptions' \in [Connection -> [Topic -> [Request -> Query \cup {NoQuery}]]]
  BY <1>1, <1>2
<1>4. \A d \in Connection, s \in Topic, q \in Request :
         subscriptions'[d][s][q] =
            IF d = c /\ s = t /\ q = r THEN NoQuery ELSE subscriptions[d][s][q]
  BY <1>1, <1>2
<1> QED BY <1>2, <1>3, <1>4

\* What is subscribed after a connection went.
LEMMA DisconnectUnsubscribes ==
    ASSUME IInv, NEW c \in Connection, Disconnect(c)
    PROVE  /\ subscriptions' \in [Connection -> [Topic -> [Request -> Query \cup {NoQuery}]]]
           /\ \A d \in Connection, t \in Topic, q \in Request :
                 subscriptions'[d][t][q] = IF d = c THEN NoQuery ELSE subscriptions[d][t][q]
BY DEF IInv, TypeOK, Disconnect, NoSubscriptions

-----------------------------------------------------------------------------
(* The invariant holds at first, and every step keeps it                   *)

LEMMA InitInv == Init => IInv
<1> SUFFICES ASSUME Init PROVE IInv
  OBVIOUS
<1>1. \A c \in Connection, t \in Topic, r \in Request : ~Subscribed(c, t, r)
  BY DEF Init, Subscribed, NoSubscriptions
<1>2. TypeOK
  BY DEF Init, TypeOK, NoSubscriptions, Topic
<1>3. Registered
  BY <1>1 DEF Init, Registered
<1>4. NoTriggerLost /\ MissedOK /\ ReceiverOK
  BY DEF Init, NoTriggerLost, MissedOK, ReceiverOK
<1>5. Stopped /\ QueryOK
  BY <1>1 DEF Init, Stopped, QueryOK
<1>6. ClosedOK
  BY <1>1 DEF ClosedOK
<1> QED BY <1>6, <1>2, <1>3, <1>4, <1>5 DEF IInv

LEMMA TypeStep == IInv /\ [Next]_vars => TypeOK'
<1> SUFFICES ASSUME IInv, [Next]_vars PROVE TypeOK'
  OBVIOUS
<1> USE DEF IInv
<1>1. ASSUME NEW c \in Connection, Connect(c) PROVE TypeOK'
  BY <1>1 DEF TypeOK, Connect, receiver
<1>2. ASSUME NEW c \in Connection, Disconnect(c) PROVE TypeOK'
  <2>1. todo = {}
    BY <1>2 DEF Disconnect, ReceiverOK
  <2> QED BY <1>2, <2>1, DisconnectUnsubscribes DEF TypeOK, Disconnect, receiver
<1>3. ASSUME NEW c \in Connection, NEW r \in Request, Stop(c, r) PROVE TypeOK'
  <2>1. PICK t \in Topic : subscribers' \in {subscribers, [subscribers EXCEPT ![t] = @ \ {c}]}
    BY <1>3 DEF Stop
  <2>2. /\ subscriptions' \in [Connection -> [Topic -> [Request -> Query \cup {NoQuery}]]]
        /\ missed' \subseteq missed
    BY <1>3, StopUnsubscribes
  <2>3. requests' \in [Connection -> [Request -> {"new", "started", "stopped"}]]
    BY <1>3 DEF Stop, TypeOK
  <2>4. subscribers' \in [Topic -> SUBSET Connection]
    BY <2>1 DEF TypeOK
  <2> QED BY <1>3, <2>1, <2>2, <2>3, <2>4 DEF TypeOK, Stop, receiver
<1>4. ASSUME NEW c \in Connection, NEW r \in Request, NEW query \in Query, Start(c, r, query)
      PROVE  TypeOK'
  <2>1. subscriptions' \in [Connection -> [Topic -> [Request -> Query \cup {NoQuery}]]]
    BY <1>4, StartSubscribes
  <2>2. requests' \in [Connection -> [Request -> {"new", "started", "stopped"}]]
    BY <1>4 DEF Start, TypeOK
  <2>3. subscribers' \in [Topic -> SUBSET Connection]
    BY <1>4 DEF Start, TypeOK
  <2> QED BY <1>4, <2>1, <2>2, <2>3 DEF TypeOK, Start, receiver
<1>5. CASE ScanUpdates
  BY <1>5 DEF ScanUpdates, Change, TypeOK, clients, receiver, Topic
<1>6. CASE ScanTriggers
  BY <1>6 DEF ScanTriggers, TypeOK, clients, receiver, Topic
<1>7. CASE GossipChanges
  BY <1>7 DEF GossipChanges, Change, TypeOK, clients, receiver, Topic
<1>8. CASE FirstTrigger
  BY <1>8, InsertTopics DEF FirstTrigger, TypeOK, clients
<1>9. CASE Gathered
  BY <1>9, InsertTopics DEF Gathered, TypeOK, clients
<1>10. CASE Trigger
  BY <1>10 DEF Trigger, TypeOK, Registered, clients
<1>11. ASSUME NEW c \in Connection, Send(c) PROVE TypeOK'
  BY <1>11 DEF Send, TypeOK, clients
<1>12. CASE Sent
  BY <1>12 DEF Sent, TypeOK, clients
<1>13. CASE Rested
  BY <1>13 DEF Rested, TypeOK, clients
<1>14. CASE UNCHANGED vars
  BY <1>14 DEF TypeOK, vars
<1> QED
  BY <1>1, <1>2, <1>3, <1>4, <1>5, <1>6, <1>7, <1>8, <1>9, <1>10, <1>11, <1>12, <1>13, <1>14
  DEF Next, ReceiverStep

\* The two tables stay in step.
LEMMA RegisteredStep == IInv /\ [Next]_vars => Registered'
<1> SUFFICES ASSUME IInv, [Next]_vars PROVE Registered'
  OBVIOUS
<1>1. ASSUME NEW c \in Connection, Connect(c) PROVE Registered'
  <2> SUFFICES ASSUME NEW d \in Connection, NEW t \in Topic
               PROVE  d \in subscribers[t] <=>
                         d \in connections \cup {c} /\ \E r \in Request : Subscribed(d, t, r)
    BY <1>1 DEF Connect, Registered, Subscribed
  <2>1. CASE d # c
    BY <2>1 DEF IInv, Registered
  <2>2. CASE d = c
    <3>1. c \notin connections
      BY <1>1 DEF Connect
    <3>2. ~ \E r \in Request : Subscribed(c, t, r)
      BY <3>1 DEF IInv, ClosedOK
    <3> QED BY <2>2, <3>1, <3>2 DEF IInv, Registered
  <2> QED BY <2>1, <2>2
<1>2. ASSUME NEW c \in Connection, Disconnect(c) PROVE Registered'
  BY <1>2, DisconnectUnsubscribes DEF IInv, TypeOK, Registered, Disconnect, Subscribed
<1>3. ASSUME NEW c \in Connection, NEW r \in Request, Stop(c, r) PROVE Registered'
  <2>1. PICK t \in Topic :
           /\ \A d \in Connection, s \in Topic, q \in Request :
                 subscriptions'[d][s][q] =
                    IF d = c /\ s = t /\ q = r THEN NoQuery ELSE subscriptions[d][s][q]
           /\ subscribers' = IF LastOf(c, t, r)
                             THEN [subscribers EXCEPT ![t] = @ \ {c}] ELSE subscribers
           /\ Subscribed(c, t, r)
    BY <1>3, StopUnsubscribes
  <2>2. \A d \in Connection, s \in Topic, q \in Request :
           Subscribed(d, s, q)' <=> Subscribed(d, s, q) /\ ~(d = c /\ s = t /\ q = r)
    BY <2>1 DEF Subscribed
  <2>3. subscribers \in [Topic -> SUBSET Connection]
    BY DEF IInv, TypeOK
  <2>4. connections' = connections /\ c \in connections
    BY <1>3 DEF Stop
  <2> SUFFICES ASSUME NEW d \in Connection, NEW s \in Topic
               PROVE  d \in subscribers'[s] <=>
                         d \in connections /\ \E q \in Request : Subscribed(d, s, q)'
    BY <2>4 DEF Registered
  <2>5. d \in subscribers[s] <=> d \in connections /\ \E q \in Request : Subscribed(d, s, q)
    BY DEF IInv, Registered
  <2>6. CASE d = c /\ s = t
    <3>1. CASE LastOf(c, t, r)
      BY <2>1, <2>2, <2>3, <2>6, <3>1 DEF LastOf
    <3>2. CASE ~LastOf(c, t, r)
      <4>1. PICK q \in Request \ {r} : Subscribed(c, t, q)
        BY <3>2 DEF LastOf
      <4>2. Subscribed(c, t, q)'
        BY <2>2, <4>1
      <4>3. c \in subscribers'[t]
        BY <2>1, <2>4, <2>5, <2>6, <3>2, <4>1
      <4> QED BY <2>4, <2>6, <4>2, <4>3
    <3> QED BY <3>1, <3>2
  <2>7. CASE ~(d = c /\ s = t)
    BY <2>1, <2>2, <2>3, <2>5, <2>7
  <2> QED BY <2>6, <2>7
<1>4. ASSUME NEW c \in Connection, NEW r \in Request, NEW query \in Query, Start(c, r, query)
      PROVE  Registered'
  <2>1. query # NoQuery
    BY IncomingAssumption
  <2>2. \A d \in Connection, t \in Topic, q \in Request :
           Subscribed(d, t, q)' <=> Subscribed(d, t, q) \/ (d = c /\ q = r /\ t \in query)
    BY <1>4, <2>1, StartSubscribes DEF Subscribed
  <2>3. \A t \in Topic : subscribers'[t] = IF t \in query THEN subscribers[t] \cup {c}
                                                          ELSE subscribers[t]
    BY <1>4 DEF Start
  <2>4. connections' = connections /\ c \in connections
    BY <1>4 DEF Start
  <2> SUFFICES ASSUME NEW d \in Connection, NEW t \in Topic
               PROVE  d \in subscribers'[t] <=>
                         d \in connections /\ \E q \in Request : Subscribed(d, t, q)'
    BY <2>4 DEF Registered
  <2>5. d \in subscribers[t] <=> d \in connections /\ \E q \in Request : Subscribed(d, t, q)
    BY DEF IInv, Registered
  <2>6. CASE d = c /\ t \in query
    BY <2>2, <2>3, <2>4, <2>6
  <2>7. CASE ~(d = c /\ t \in query)
    <3>1. \A q \in Request : Subscribed(d, t, q)' <=> Subscribed(d, t, q)
      BY <2>2, <2>7
    <3>2. d \in subscribers'[t] <=> d \in subscribers[t]
      BY <2>3, <2>7
    <3> QED BY <2>5, <3>1, <3>2
  <2> QED BY <2>6, <2>7
<1>5. CASE UNCHANGED clients
  BY <1>5 DEF IInv, Registered, clients, Subscribed
<1> QED
  BY <1>1, <1>2, <1>3, <1>4, <1>5
  DEF Next, ReceiverStep, ScanUpdates, ScanTriggers, GossipChanges, FirstTrigger, Gathered,
      Trigger, Send, Sent, Rested, vars, clients

\* What clients do leaves the triggers alone.
LEMMA NothingNewMissed ==
    ASSUME NoTriggerLost, missed' \subseteq missed, UNCHANGED <<triggered, receiver, scan>>
    PROVE  NoTriggerLost'
BY DEF NoTriggerLost, Coming, receiver

\* No step of either thread loses a trigger.
LEMMA TriggerStep == IInv /\ [Next]_vars => NoTriggerLost'
<1> SUFFICES ASSUME IInv, [Next]_vars PROVE NoTriggerLost'
  OBVIOUS
<1>a. NoTriggerLost /\ missed \subseteq Connection \X Topic \X Request
  BY DEF IInv, TypeOK
<1>1. ASSUME NEW c \in Connection, Connect(c) PROVE NoTriggerLost'
  BY <1>1, <1>a, NothingNewMissed DEF Connect
<1>2. ASSUME NEW c \in Connection, Disconnect(c) PROVE NoTriggerLost'
  <2>1. missed' \subseteq missed /\ UNCHANGED <<triggered, receiver, scan>>
    BY <1>2 DEF Disconnect
  <2> QED BY <1>a, <2>1, NothingNewMissed
<1>3. ASSUME NEW c \in Connection, NEW r \in Request, Stop(c, r) PROVE NoTriggerLost'
  <2>1. missed' \subseteq missed /\ UNCHANGED <<triggered, receiver, scan>>
    BY <1>3 DEF Stop
  <2> QED BY <1>a, <2>1, NothingNewMissed
<1>4. ASSUME NEW c \in Connection, NEW r \in Request, NEW query \in Query, Start(c, r, query)
      PROVE  NoTriggerLost'
  <2>1. missed' \subseteq missed /\ UNCHANGED <<triggered, receiver, scan>>
    BY <1>4 DEF Start
  <2> QED BY <1>a, <2>1, NothingNewMissed
<1>5. CASE ScanUpdates
  <2> SUFFICES ASSUME NEW m \in missed' PROVE Coming(m[1], m[2])'
    BY DEF NoTriggerLost
  <2>1. CASE m \in missed
    BY <1>5, <1>a, <2>1 DEF ScanUpdates, NoTriggerLost, Coming, receiver
  <2>2. CASE m \notin missed
    BY <1>5, <2>2 DEF ScanUpdates, Change, Coming, Insert
  <2> QED BY <2>1, <2>2
<1>6. CASE ScanTriggers
  BY <1>6, <1>a DEF ScanTriggers, NoTriggerLost, Coming, receiver
<1>7. CASE GossipChanges
  <2> SUFFICES ASSUME NEW m \in missed' PROVE Coming(m[1], m[2])'
    BY DEF NoTriggerLost
  <2>1. CASE m \in missed
    BY <1>7, <1>a, <2>1 DEF GossipChanges, NoTriggerLost, Coming, receiver
  <2>2. CASE m \notin missed
    BY <1>7, <2>2 DEF GossipChanges, Change, Coming, Insert
  <2> QED BY <2>1, <2>2
<1>8. CASE FirstTrigger
  <2>1. buf = {} /\ todo = {}
    BY <1>8 DEF FirstTrigger, IInv, ReceiverOK
  <2> QED BY <1>8, <1>a, <2>1 DEF FirstTrigger, NoTriggerLost, Coming
<1>9. CASE Gathered
  BY <1>9, <1>a DEF Gathered, NoTriggerLost, Coming
<1>10. CASE Trigger
  <2> SUFFICES ASSUME NEW m \in missed PROVE Coming(m[1], m[2])'
    BY <1>10 DEF Trigger, NoTriggerLost
  <2>1. m[1] \in Connection /\ m[2] \in Topic /\ m[3] \in Request
    BY <1>a
  <2>2. m[1] \in subscribers[m[2]]
    BY <2>1 DEF IInv, MissedOK, Registered, ClosedOK
  <2>3. Coming(m[1], m[2])
    BY <1>a DEF NoTriggerLost
  <2> QED BY <1>10, <2>2, <2>3 DEF Trigger, Coming
<1>11. ASSUME NEW c \in Connection, Send(c) PROVE NoTriggerLost'
  <2> SUFFICES ASSUME NEW m \in missed' PROVE Coming(m[1], m[2])'
    BY DEF NoTriggerLost
  <2>1. m \in missed
    BY <1>11 DEF Send
  <2>2. m[1] \in Connection /\ m[2] \in Topic /\ m[3] \in Request
    BY <1>a, <2>1
  <2>3. Subscribed(m[1], m[2], m[3]) /\ m[2] \in subscriptions[m[1]][m[2]][m[3]]
    BY <2>1, <2>2 DEF IInv, MissedOK, QueryOK
  <2>4. ~(m[1] = c /\ m[2] = topic)
    BY <1>11, <2>3 DEF Send
  <2>5. Coming(m[1], m[2])
    BY <1>a, <2>1 DEF NoTriggerLost
  <2> QED BY <1>11, <2>4, <2>5 DEF Send, Coming
<1>12. CASE Sent
  BY <1>12, <1>a DEF Sent, NoTriggerLost, Coming
<1>13. CASE Rested
  BY <1>13, <1>a DEF Rested, NoTriggerLost, Coming
<1>14. CASE UNCHANGED vars
  BY <1>14, <1>a DEF vars, NoTriggerLost, Coming
<1> QED
  BY <1>1, <1>2, <1>3, <1>4, <1>5, <1>6, <1>7, <1>8, <1>9, <1>10, <1>11, <1>12, <1>13, <1>14
  DEF Next, ReceiverStep

\* What a request is subscribed to belongs to its one query.
LEMMA QueryStep == IInv /\ [Next]_vars => QueryOK' /\ ClosedOK' /\ Stopped'
<1> SUFFICES ASSUME IInv, [Next]_vars PROVE QueryOK' /\ ClosedOK' /\ Stopped'
  OBVIOUS
<1>a. /\ requests \in [Connection -> [Request -> {"new", "started", "stopped"}]]
      /\ connections \subseteq Connection
  BY DEF IInv, TypeOK
<1>1. ASSUME NEW c \in Connection, Connect(c) PROVE QueryOK' /\ ClosedOK' /\ Stopped'
  BY <1>1, <1>a DEF Connect, IInv, QueryOK, ClosedOK, Stopped, Subscribed
<1>2. ASSUME NEW c \in Connection, Disconnect(c) PROVE QueryOK' /\ ClosedOK' /\ Stopped'
  <2>1. \A d \in Connection, t \in Topic, q \in Request :
           subscriptions'[d][t][q] = IF d = c THEN NoQuery ELSE subscriptions[d][t][q]
    BY <1>2, DisconnectUnsubscribes
  <2>2. /\ connections' = connections \ {c}
        /\ \A d \in Connection \ {c} : requests'[d] = requests[d]
    BY <1>2, <1>a DEF Disconnect
  <2> QED BY <1>a, <2>1, <2>2 DEF IInv, QueryOK, ClosedOK, Stopped, Subscribed
<1>3. ASSUME NEW c \in Connection, NEW r \in Request, Stop(c, r)
      PROVE  QueryOK' /\ ClosedOK' /\ Stopped'
  <2>1. PICK t \in Topic :
           /\ \A d \in Connection, s \in Topic, q \in Request :
                 subscriptions'[d][s][q] =
                    IF d = c /\ s = t /\ q = r THEN NoQuery ELSE subscriptions[d][s][q]
           /\ Subscribed(c, t, r)
    BY <1>3, StopUnsubscribes
  <2>2. connections' = connections
    BY <1>3 DEF Stop
  <2>3. \A d \in Connection, q \in Request :
           requests'[d][q] = IF d = c /\ q = r THEN "stopped" ELSE requests[d][q]
    BY <1>3, <1>a DEF Stop
  <2>4. QueryOK'
    BY <2>1, <2>3 DEF IInv, QueryOK, Subscribed
  <2>5. ClosedOK'
    BY <2>1, <2>2 DEF IInv, ClosedOK, Subscribed
  <2>6. Stopped'
    <3> SUFFICES ASSUME NEW d \in connections, NEW s \in Topic, NEW q \in Request,
                        requests'[d][q] # "started", Subscribed(d, s, q)'
                 PROVE  subscriptions'[d][s][q] # {s}
      BY <2>2 DEF Stopped
    <3>1. d \in Connection
      BY <1>a
    <3>2. subscriptions'[d][s][q] = subscriptions[d][s][q] /\ Subscribed(d, s, q)
      BY <2>1, <3>1 DEF Subscribed
    <3>3. CASE d = c /\ q = r
      <4>1. s # t
        BY <2>1, <3>3 DEF Subscribed
      <4>2. t \in subscriptions[d][s][q]
        BY <2>1, <3>1, <3>2, <3>3 DEF IInv, QueryOK
      <4> QED BY <3>2, <4>1, <4>2
    <3>4. CASE ~(d = c /\ q = r)
      BY <2>3, <3>1, <3>2, <3>4 DEF IInv, Stopped
    <3> QED BY <3>3, <3>4
  <2> QED BY <2>4, <2>5, <2>6
<1>4. ASSUME NEW c \in Connection, NEW r \in Request, NEW query \in Query, Start(c, r, query)
      PROVE  QueryOK' /\ ClosedOK' /\ Stopped'
  <2>1. \A d \in Connection, t \in Topic, q \in Request :
           subscriptions'[d][t][q] =
              IF d = c /\ q = r /\ t \in query THEN query ELSE subscriptions[d][t][q]
    BY <1>4, StartSubscribes
  <2>2. connections' = connections /\ c \in connections /\ requests[c][r] = "new"
    BY <1>4 DEF Start
  <2>3. \A d \in Connection, q \in Request :
           requests'[d][q] = IF d = c /\ q = r THEN "started" ELSE requests[d][q]
    BY <1>4, <1>a DEF Start
  <2>4. \A t \in Topic : ~Subscribed(c, t, r)
    BY <2>2 DEF IInv, QueryOK
  <2>5. QueryOK'
    <3> SUFFICES ASSUME NEW d \in Connection, NEW t \in Topic, NEW q \in Request,
                        Subscribed(d, t, q)'
                 PROVE  /\ requests'[d][q] # "new"
                        /\ t \in subscriptions'[d][t][q]
                        /\ \A s \in Topic : Subscribed(d, s, q)' =>
                              subscriptions'[d][s][q] = subscriptions'[d][t][q]
      BY DEF QueryOK
    <3>1. CASE d = c /\ q = r
      BY <2>1, <2>3, <2>4, <3>1 DEF Subscribed
    <3>2. CASE ~(d = c /\ q = r)
      BY <2>1, <2>3, <3>2 DEF IInv, QueryOK, Subscribed
    <3> QED BY <3>1, <3>2
  <2>6. ClosedOK'
    BY <2>1, <2>2 DEF IInv, ClosedOK, Subscribed
  <2>7. Stopped'
    BY <1>a, <2>1, <2>2, <2>3 DEF IInv, Stopped, Subscribed
  <2> QED BY <2>5, <2>6, <2>7
<1>5. CASE UNCHANGED clients
  BY <1>5 DEF IInv, QueryOK, ClosedOK, Stopped, clients, Subscribed
<1> QED
  BY <1>1, <1>2, <1>3, <1>4, <1>5
  DEF Next, ReceiverStep, ScanUpdates, ScanTriggers, GossipChanges, FirstTrigger, Gathered,
      Trigger, Send, Sent, Rested, vars, clients

\* What the receiver gathered, and what answers have missed.
LEMMA ReceiverStepInv == IInv /\ [Next]_vars => ReceiverOK'
BY DEF IInv, ReceiverOK, Next, ReceiverStep, Connect, Disconnect, Start, Stop, ScanUpdates,
       ScanTriggers, GossipChanges, FirstTrigger, Gathered, Trigger, Send, Sent, Rested, vars,
       receiver

LEMMA MissedStep == IInv /\ [Next]_vars => MissedOK'
<1> SUFFICES ASSUME IInv, [Next]_vars, NEW m \in missed'
             PROVE  Subscribed(m[1], m[2], m[3])'
  BY DEF MissedOK
<1>a. missed \subseteq Connection \X Topic \X Request
  BY DEF IInv, TypeOK
<1>b. m \in missed =>
         /\ m = <<m[1], m[2], m[3]>> /\ Subscribed(m[1], m[2], m[3])
         /\ m[1] \in Connection /\ m[2] \in Topic /\ m[3] \in Request
  BY <1>a DEF IInv, MissedOK
<1>1. ASSUME NEW c \in Connection, Connect(c) PROVE Subscribed(m[1], m[2], m[3])'
  BY <1>1, <1>b DEF Connect, Subscribed
<1>2. ASSUME NEW c \in Connection, Disconnect(c) PROVE Subscribed(m[1], m[2], m[3])'
  <2>1. m \in missed /\ m[1] # c
    BY <1>2 DEF Disconnect
  <2> QED BY <1>2, <1>b, <2>1, DisconnectUnsubscribes DEF Subscribed
<1>3. ASSUME NEW c \in Connection, NEW r \in Request, Stop(c, r)
      PROVE  Subscribed(m[1], m[2], m[3])'
  <2>1. PICK t \in Topic :
           /\ \A d \in Connection, s \in Topic, q \in Request :
                 subscriptions'[d][s][q] =
                    IF d = c /\ s = t /\ q = r THEN NoQuery ELSE subscriptions[d][s][q]
           /\ missed' = missed \ {<<c, t, r>>}
    BY <1>3, StopUnsubscribes
  <2> QED BY <1>b, <2>1 DEF Subscribed
<1>4. ASSUME NEW c \in Connection, NEW r \in Request, NEW query \in Query, Start(c, r, query)
      PROVE  Subscribed(m[1], m[2], m[3])'
  <2>1. m \in missed /\ ~(m[1] = c /\ m[3] = r)
    BY <1>4 DEF Start
  <2> QED BY <1>4, <1>b, <2>1, StartSubscribes DEF Subscribed
<1>5. CASE UNCHANGED clients /\ (missed' \subseteq missed \/ \E T \in SUBSET Topic : Change(T))
  BY <1>5, <1>b DEF clients, Change, Subscribed
<1>6. {"Status", "Scan"} \in SUBSET Topic /\ {"Peers"} \in SUBSET Topic
  BY DEF Topic
<1> QED
  BY <1>1, <1>2, <1>3, <1>4, <1>5, <1>6
  DEF Next, ReceiverStep, ScanUpdates, ScanTriggers, GossipChanges, FirstTrigger, Gathered,
      Trigger, Send, Sent, Rested, vars, clients

-----------------------------------------------------------------------------
(* Theorems                                                                *)

\* The conjunction of all parts is an invariant.
THEOREM Invariant == Spec => []IInv
<1>1. IInv /\ [Next]_vars => IInv'
  BY TypeStep, RegisteredStep, TriggerStep, QueryStep, ReceiverStepInv, MissedStep DEF IInv
<1> QED BY InitInv, <1>1, PTL DEF Spec

\* Type correctness; answers are sent only to connections that are open.
THEOREM TypeCorrect == Spec => []TypeOK
<1>1. IInv => TypeOK
  BY DEF IInv
<1> QED BY Invariant, <1>1, PTL

\* For any number of clients, the table of subscribers of a topic and the
\* tables of the connections agree.
THEOREM TablesAgree == Spec => []Registered
<1>1. IInv => Registered
  BY DEF IInv
<1> QED BY Invariant, <1>1, PTL

\* However the scan thread and the receiver interleave, an answer that is out
\* of date has a trigger on its way.
THEOREM TriggersKept == Spec => []NoTriggerLost
<1>1. IInv => NoTriggerLost
  BY DEF IInv
<1> QED BY Invariant, <1>1, PTL

\* A stopped request of one field gets no more answers, whatever the others do.
THEOREM StoppedIsSilent == Spec => []Stopped
<1>1. IInv => Stopped
  BY DEF IInv
<1> QED BY Invariant, <1>1, PTL

=============================================================================

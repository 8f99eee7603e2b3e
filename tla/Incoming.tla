------------------------------ MODULE Incoming ------------------------------
(***************************************************************************)
(* Subscriptions of websocket clients (src/incoming).  Clients start and   *)
(* stop requests; the scan thread and gossip change what the requests show *)
(* and trigger a topic; a receiver gathers triggers, sends every request   *)
(* of the topic a new answer, and rests.                                   *)
(*                                                                         *)
(* The main thread does everything but the scans, so while the receiver    *)
(* sends answers (phase "send") only the scan thread gets between.  The    *)
(* channel of triggers is a set: the receiver does not tell one trigger of *)
(* a topic from several.  The data itself is abstracted to what an answer  *)
(* has missed of it.                                                       *)
(***************************************************************************)
EXTENDS Naturals, FiniteSets

CONSTANTS
    Connection,
    Request,      \* ids of requests, numbered anew for every connection
    Query,        \* the queries clients send, each the set of its fields
    NoQuery,
    MaxRequests   \* bound of the model: requests of open connections

Topic == {"Status", "Peers", "Scan"}   \* enum Subscription

ASSUME IncomingAssumption ==
    /\ Query \subseteq (SUBSET Topic) \ {{}}
    /\ NoQuery \notin Query /\ MaxRequests \in Nat

VARIABLES
    connections,
    subscribers,    \* IncomingState.subscriptions
    subscriptions,  \* ConnState.subscriptions
    requests,       \* what a client knows of its requests
    triggered,      \* the channel
    phase,          \* the future of Receiver::start
    buf,            \* topics gathered
    topic, todo,    \* what is being sent, and to whom still
    scan,           \* where the scan thread is
    missed          \* history variable: <<c, t, r>> when the last answer to request r
                    \* of c was made before the last change of topic t

vars == <<connections, subscribers, subscriptions, requests, triggered, phase, buf, topic,
          todo, scan, missed>>

clients  == <<connections, subscribers, subscriptions, requests>>
receiver == <<phase, buf, topic, todo>>

NoSubscriptions == [t \in Topic |-> [r \in Request |-> NoQuery]]

\* The query request r of c is subscribed to t with.
Subscribed(c, t, r) == subscriptions[c][t][r] # NoQuery

Init ==
    /\ connections = {}
    /\ subscribers = [t \in Topic |-> {}]
    /\ subscriptions = [c \in Connection |-> NoSubscriptions]
    /\ requests = [c \in Connection |-> [r \in Request |-> "new"]]
    /\ triggered = {}
    /\ phase = "wait" /\ buf = {} /\ topic = "Status" /\ todo = {}
    /\ scan = "scanning"
    /\ missed = {}

-----------------------------------------------------------------------------
(* Clients                                                                 *)

\* Incoming::connected: an id that is not in use, with a new ConnState (what
\* Disconnect left).
Connect(c) ==
    /\ phase # "send" /\ c \notin connections
    /\ connections' = connections \cup {c}
    /\ UNCHANGED <<subscribers, subscriptions, requests, triggered, receiver, scan, missed>>

\* start_query: subscribes to every field, and answers.
Start(c, r, query) ==
    /\ phase # "send" /\ c \in connections /\ requests[c][r] = "new"
    /\ Cardinality({d \in Connection \X Request : requests[d[1]][d[2]] # "new"}) < MaxRequests
    /\ requests' = [requests EXCEPT ![c][r] = "started"]
    /\ subscriptions' = [subscriptions EXCEPT ![c] =
          [t \in Topic |-> IF t \in query THEN [@[t] EXCEPT ![r] = query] ELSE @[t]]]
    /\ subscribers' = [t \in Topic |-> IF t \in query THEN subscribers[t] \cup {c}
                                                      ELSE subscribers[t]]
    /\ missed' = {m \in missed : m[1] # c \/ m[3] # r}
    /\ UNCHANGED <<connections, triggered, receiver, scan>>

\* Fault: the connection goes, whatever other requests it has.
LastOfAny(c, t, r) == TRUE

\* v.len() == 0, after v.remove(id)
LastOf(c, t, r) == \A q \in Request \ {r} : ~Subscribed(c, t, q)

\* Fault: the request stays with its connection.
StopKeeping(c, r) ==
    /\ phase # "send" /\ c \in connections /\ requests[c][r] = "started"
    /\ requests' = [requests EXCEPT ![c][r] = "stopped"]
    /\ UNCHANGED <<connections, subscribers, subscriptions, triggered, receiver, scan, missed>>

\* Incoming::unsubscribe_id: the first topic found that has the request.
Stop(c, r) ==
    /\ phase # "send" /\ c \in connections /\ requests[c][r] = "started"
    /\ requests' = [requests EXCEPT ![c][r] = "stopped"]
    /\ \E t \in Topic :
          /\ Subscribed(c, t, r)
          /\ subscriptions' = [subscriptions EXCEPT ![c][t][r] = NoQuery]
          /\ subscribers' = IF LastOf(c, t, r)
                            THEN [subscribers EXCEPT ![t] = @ \ {c}] ELSE subscribers
          /\ missed' = missed \ {<<c, t, r>>}
    /\ UNCHANGED <<connections, triggered, receiver, scan>>

\* The loop of the websocket ends: Token::drop.
Disconnect(c) ==
    /\ phase # "send"
    /\ c \in connections /\ connections' = connections \ {c}
    /\ subscribers' = [t \in Topic |-> subscribers[t] \ {c}]
    /\ subscriptions' = [subscriptions EXCEPT ![c] = NoSubscriptions]
    /\ requests' = [requests EXCEPT ![c] = [r \in Request |-> "new"]]
    /\ missed' = {m \in missed : m[1] # c}
    /\ UNCHANGED <<triggered, receiver, scan>>

-----------------------------------------------------------------------------
(* What changes the data                                                   *)

\* All answers that show one of the topics are out of date now.
Change(topics) ==
    missed' = missed \cup {m \in Connection \X topics \X Request : Subscribed(m[1], m[2], m[3])}

\* scan_loop updates the statistics ...
ScanUpdates ==
    /\ scan = "scanning" /\ scan' = "updated"
    /\ Change({"Status", "Scan"})
    /\ UNCHANGED <<clients, triggered, receiver>>

\* ... unlocks them, and triggers.
ScanTriggers ==
    /\ scan = "updated" /\ scan' = "scanning"
    /\ triggered' = triggered \cup {"Scan"}
    /\ UNCHANGED <<clients, receiver, missed>>

\* consume_gossip: a packet of another host of the cluster.
GossipChanges ==
    /\ phase # "send"
    /\ Change({"Peers"})
    /\ triggered' = triggered \cup {"Peers"}
    /\ UNCHANGED <<clients, receiver, scan>>

-----------------------------------------------------------------------------
(* Receiver::start                                                         *)

\* Fault: what a scan changes is taken to be the data of the scan only.
InsertOne(t) == {t}

\* insert
Insert(t) == IF t = "Scan" THEN {"Scan", "Status"} ELSE {t}

\* A trigger: gather for 10 ms.
FirstTrigger ==
    /\ phase = "wait" /\ phase' = "gather"
    /\ \E t \in triggered : buf' = Insert(t) /\ triggered' = triggered \ {t}
    /\ UNCHANGED <<clients, topic, todo, scan, missed>>

\* The timeout: whatever is in the channel by now.
Gathered ==
    /\ phase = "gather" /\ phase' = "send"
    /\ buf' = buf \cup UNION {Insert(t) : t \in triggered}
    /\ triggered' = {}
    /\ UNCHANGED <<clients, topic, todo, scan, missed>>

\* Incoming::trigger: the connections of one topic ...
Trigger ==
    /\ phase = "send" /\ todo = {}
    /\ \E t \in buf : topic' = t /\ todo' = subscribers[t] /\ buf' = buf \ {t}
    /\ UNCHANGED <<clients, triggered, phase, scan, missed>>

\* ... and the answers to one of them.
Send(c) ==
    /\ phase = "send" /\ c \in todo /\ todo' = todo \ {c}
    /\ missed' = {m \in missed : ~(m[1] = c /\ Subscribed(c, topic, m[3])
                                    /\ m[2] \in subscriptions[c][topic][m[3]])}
    /\ UNCHANGED <<clients, triggered, phase, buf, topic, scan>>

Sent ==
    /\ phase = "send" /\ phase' = "rest"
    /\ buf = {} /\ todo = {}
    /\ UNCHANGED <<clients, triggered, buf, topic, todo, scan, missed>>

\* Fault: what was triggered meanwhile counts as sent.
RestedDiscarding ==
    /\ phase = "rest" /\ phase' = "wait"
    /\ triggered' = {}
    /\ UNCHANGED <<clients, buf, topic, todo, scan, missed>>

\* 100 ms later.
Rested ==
    /\ phase = "rest" /\ phase' = "wait"
    /\ UNCHANGED <<clients, triggered, buf, topic, todo, scan, missed>>

ReceiverStep ==
    \/ FirstTrigger \/ Gathered \/ Trigger \/ Sent \/ Rested
    \/ \E c \in Connection : Send(c)

Next ==
    \/ \E c \in Connection :
          \/ Connect(c) \/ Disconnect(c)
          \/ \E r \in Request : Stop(c, r) \/ \E query \in Query : Start(c, r, query)
    \/ ScanUpdates \/ ScanTriggers \/ GossipChanges
    \/ ReceiverStep

\* The future is polled when it is ready, and the scan thread goes on.
Spec == Init /\ [][Next]_vars /\ WF_vars(ReceiverStep) /\ WF_vars(ScanTriggers)

-----------------------------------------------------------------------------
(* Properties                                                              *)

\* Type invariant.  Answers are sent to connections that are open.
TypeOK ==
    /\ connections \subseteq Connection
    /\ subscribers \in [Topic -> SUBSET Connection]
    /\ subscriptions \in [Connection -> [Topic -> [Request -> Query \cup {NoQuery}]]]
    /\ requests \in [Connection -> [Request -> {"new", "started", "stopped"}]]
    /\ triggered \subseteq Topic
    /\ phase \in {"wait", "gather", "send", "rest"}
    /\ buf \subseteq Topic /\ topic \in Topic /\ todo \subseteq connections
    /\ scan \in {"scanning", "updated"}
    /\ missed \subseteq Connection \X Topic \X Request

\* The two tables agree: a connection is a subscriber of a topic exactly when
\* it is open and has a request for it.  None is forgotten, none is leaked.
Registered ==
    \A c \in Connection, t \in Topic :
        c \in subscribers[t] <=> c \in connections /\ \E r \in Request : Subscribed(c, t, r)

\* An answer that is out of date is going to be replaced: a trigger for it is
\* in the channel, gathered, being handled, or about to be sent by the scan
\* thread.  No interleaving of the two threads loses one.
Coming(c, t) ==
    \/ \E s \in triggered : t \in Insert(s)
    \/ t \in buf
    \/ t = topic /\ c \in todo
    \/ scan = "updated" /\ t \in Insert("Scan")

NoTriggerLost == \A m \in missed : Coming(m[1], m[2])

\* A request that was stopped gets no answers any more, unless it asked for
\* several fields (of which unsubscribe_id forgets one).
Stopped ==
    \A c \in connections, t \in Topic, r \in Request :
        requests[c][r] # "started" =>
            ~Subscribed(c, t, r) \/ subscriptions[c][t][r] # {t}

\* Every change is shown to every request for it in the end, while clients
\* come and go.
Shown ==
    \A c \in Connection, t \in Topic, r \in Request :
        <<c, t, r>> \in missed ~> <<c, t, r>> \notin missed

-----------------------------------------------------------------------------
(* The inductive invariant of IncomingProofs                               *)

\* What is subscribed: the one query of a request, under its fields only.
QueryOK ==
    \A c \in Connection, t \in Topic, r \in Request :
        Subscribed(c, t, r) =>
            /\ requests[c][r] # "new"
            /\ t \in subscriptions[c][t][r]
            /\ \A s \in Topic : Subscribed(c, s, r) => subscriptions[c][s][r] = subscriptions[c][t][r]

\* What the receiver has gathered is sent before it gathers again.
ReceiverOK ==
    /\ phase # "send" => todo = {}
    /\ phase \in {"wait", "rest"} => buf = {}

\* Nothing is left of a connection that went.
ClosedOK ==
    \A c \in Connection \ connections, t \in Topic, r \in Request : ~Subscribed(c, t, r)

MissedOK == \A m \in missed : Subscribed(m[1], m[2], m[3])

IInv ==
    /\ TypeOK /\ Registered /\ NoTriggerLost /\ Stopped
    /\ QueryOK /\ ReceiverOK /\ ClosedOK /\ MissedOK

=============================================================================

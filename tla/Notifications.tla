----------------------------- MODULE Notifications -----------------------------
(***************************************************************************)
(* The ConnectionManager of app/services/notifications.py, the endpoint    *)
(* task that holds each WebSocket, and the notifications sent meanwhile.   *)
(* A notification goes to its topics at the same time; each broadcast      *)
(* suspends at every send, and connections come and go in between.         *)
(***************************************************************************)
EXTENDS Integers

CONSTANTS Sockets, Messages,
          Asked      \* bound: the topics clients ask for

Topics == {"city", "general", "price_changes", "alerts"}

NotificationsAssumption == Asked \subseteq Topics

VARIABLES active,     \* the topics that have connections, and their connections
          topic,      \* the topic each socket asked for, or "none"
          handler,    \* what the endpoint task of each socket does
          link,       \* whether the client is still there
          kind,       \* the event of each message, or "none": not sent yet
          cast,       \* the broadcast of each message to each topic
          audience,   \* history: who was connected, and to what, when it was sent
          got         \* history: how often each socket got each message

vars == <<active, topic, handler, link, kind, cast, audience, got>>

TopicsOf ==
    [new_property |-> {"city", "general"},
     price_change |-> {"city", "price_changes"},
     alert_triggered |-> {"alerts"}]

Kinds == DOMAIN TopicsOf

Cast == [phase : {"none", "called", "sending", "done"},
         todo : SUBSET Sockets, disconnected : SUBSET Sockets]

TypeOK ==
    /\ DOMAIN active \subseteq Topics
    /\ \A t \in DOMAIN active : active[t] \in (SUBSET Sockets) \ {{}}
    /\ topic \in [Sockets -> Asked \union {"none"}]
    /\ handler \in [Sockets -> {"none", "accepting", "listening", "ended"}]
    /\ link \in [Sockets -> {"up", "down"}]
    /\ kind \in [Messages -> Kinds \union {"none"}]
    /\ cast \in [Messages -> [Topics -> Cast]]
    /\ audience \in [Messages -> SUBSET Sockets]
    /\ got \in [Sockets -> [Messages -> 0..2]]

Idle == [phase |-> "none", todo |-> {}, disconnected |-> {}]

Init ==
    /\ active = [t \in {} |-> {}]
    /\ topic = [s \in Sockets |-> "none"]
    /\ handler = [s \in Sockets |-> "none"]
    /\ link = [s \in Sockets |-> "up"]
    /\ kind = [m \in Messages |-> "none"]
    /\ cast = [m \in Messages |-> [t \in Topics |-> Idle]]
    /\ audience = [m \in Messages |-> {}]
    /\ got = [s \in Sockets |-> [m \in Messages |-> 0]]

ConnectionsOf(t) == IF t \in DOMAIN active THEN active[t] ELSE {}

Registered(s) == s \in ConnectionsOf(topic[s])

\* Mutant: the topic goes with the first of its connections.
DisconnectTopic(gone, t) ==
    [u \in {u \in DOMAIN active : u # t \/ gone = {}} |-> active[u]]

\* disconnect() of each socket of gone: the topic goes with the last of its connections.
Disconnect(gone, t) ==
    [u \in {u \in DOMAIN active : u # t \/ ~ active[u] \subseteq gone} |->
        IF u = t THEN active[u] \ gone ELSE active[u]]
------------------------------------------------------------------------------
\* A client asks for a topic; connect() awaits the handshake.
Open(s, t) ==
    /\ handler[s] = "none"
    /\ topic' = [topic EXCEPT ![s] = t]
    /\ handler' = [handler EXCEPT ![s] = "accepting"]
    /\ UNCHANGED <<active, link, kind, cast, audience, got>>

Connect(s) ==
    /\ handler[s] = "accepting"
    /\ handler' = [handler EXCEPT ![s] = "listening"]
    /\ active' = [t \in DOMAIN active \union {topic[s]} |->
                     ConnectionsOf(t) \union (IF t = topic[s] THEN {s} ELSE {})]
    /\ UNCHANGED <<topic, link, kind, cast, audience, got>>

\* accept() raises: the endpoint ends and nothing was registered.
Refuse(s) ==
    /\ handler[s] = "accepting" /\ link[s] = "down"
    /\ handler' = [handler EXCEPT ![s] = "ended"]
    /\ UNCHANGED <<active, topic, link, kind, cast, audience, got>>

Hangup(s) ==
    /\ handler[s] \in {"accepting", "listening"} /\ link[s] = "up"
    /\ link' = [link EXCEPT ![s] = "down"]
    /\ UNCHANGED <<active, topic, handler, kind, cast, audience, got>>

\* receive_text or an answer to a ping raises.
Leave(s) ==
    /\ handler[s] = "listening" /\ link[s] = "down"
    /\ handler' = [handler EXCEPT ![s] = "ended"]
    /\ active' = Disconnect({s}, topic[s])
    /\ UNCHANGED <<topic, link, kind, cast, audience, got>>
------------------------------------------------------------------------------
\* notify_*: the broadcasts to the topics of the event are made, and awaited together.
Notify(m, k) ==
    /\ kind[m] = "none"
    /\ kind' = [kind EXCEPT ![m] = k]
    /\ cast' = [cast EXCEPT ![m] =
                   [t \in Topics |-> [phase |-> IF t \in TopicsOf[k] THEN "called" ELSE "none",
                                      todo |-> {}, disconnected |-> {}]]]
    /\ audience' = [audience EXCEPT ![m] = {s \in Sockets : handler[s] = "listening"}]
    /\ UNCHANGED <<active, topic, handler, link, got>>

\* The broadcast starts with a copy of the connections; without any it is over.
Broadcast(m, t) ==
    /\ cast[m][t].phase = "called"
    /\ cast' = [cast EXCEPT ![m][t] =
                   [phase |-> IF t \in DOMAIN active THEN "sending" ELSE "done",
                    todo |-> ConnectionsOf(t), disconnected |-> {}]]
    /\ UNCHANGED <<active, topic, handler, link, kind, audience, got>>

\* Mutant: the first send that fails ends the broadcast.
AfterSendStops(c, s, fails) ==
    [phase |-> IF c.todo = {s} \/ fails THEN "done" ELSE "sending",
     todo |-> IF fails THEN {} ELSE c.todo \ {s},
     disconnected |-> IF fails THEN c.disconnected \union {s} ELSE c.disconnected]

\* A broadcast c that has sent to s.
AfterSend(c, s, fails) ==
    [phase |-> IF c.todo = {s} THEN "done" ELSE "sending",
     todo |-> c.todo \ {s},
     disconnected |-> IF fails THEN c.disconnected \union {s} ELSE c.disconnected]

\* One send_json: it may fail, or seem to succeed, when the client is gone.  After
\* the last one the sockets whose send failed are disconnected.
Send(m, t, s, fails) ==
    /\ cast[m][t].phase = "sending" /\ s \in cast[m][t].todo
    /\ fails => link[s] = "down"
    /\ got' = IF link[s] = "up" THEN [got EXCEPT ![s][m] = got[s][m] + 1] ELSE got
    /\ LET c == AfterSend(cast[m][t], s, fails)
       IN  /\ cast' = [cast EXCEPT ![m][t] = c]
           /\ active' = IF c.phase = "done" THEN Disconnect(c.disconnected, t) ELSE active
    /\ UNCHANGED <<topic, handler, link, kind, audience>>

Next ==
    \/ \E s \in Sockets :
        \/ \E t \in Asked : Open(s, t)
        \/ Connect(s) \/ Refuse(s) \/ Hangup(s) \/ Leave(s)
    \/ \E m \in Messages :
        \/ \E k \in Kinds : Notify(m, k)
        \/ \E t \in Topics : Broadcast(m, t) \/ \E s \in Sockets : Send(m, t, s, TRUE) \/ Send(m, t, s, FALSE)

Spec == Init /\ [][Next]_vars
------------------------------------------------------------------------------
Delivered(m) ==
    kind[m] # "none" /\ \A t \in TopicsOf[kind[m]] : cast[m][t].phase = "done"

\* A notification that was sent has reached every client that was connected to one
\* of its topics when it was made and still is, exactly once, whoever joined,
\* left or failed meanwhile ("to all connected clients of the topic").
ReachesTheConnected ==
    \A m \in Messages, s \in Sockets :
        /\ got[s][m] <= 1
        /\ /\ Delivered(m) /\ s \in audience[m] /\ link[s] = "up"
           /\ topic[s] \in TopicsOf[kind[m]]
           => got[s][m] = 1

\* A client that is there stays registered until it leaves, and no broadcast puts
\* back or leaves behind a socket whose endpoint has ended.
RegisteredWhileListening ==
    \A s \in Sockets :
        /\ handler[s] = "listening" /\ link[s] = "up" => Registered(s)
        /\ \A t \in DOMAIN active : s \in active[t] => t = topic[s] /\ handler[s] = "listening"

\* Both of them: a connection counts from its handshake to its end.
ConnectedAreServed == ReachesTheConnected /\ RegisteredWhileListening
==============================================================================

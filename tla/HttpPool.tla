-------------------------------- MODULE HttpPool --------------------------------
(***************************************************************************)
(* The HTTPClientPool of app/utils/http_pool.py, the tasks that use its    *)
(* clients through OptimizedHTTPClient, and the closing of one client or   *)
(* of all, which holds the lock of the pool while it waits for each.       *)
(***************************************************************************)
EXTENDS Integers, FiniteSets

CONSTANTS Names, Users, None,
          Attempts,                 \* stop_after_attempt of get and post
          MaxClients, MaxRequests   \* bounds: clients made, requests sent

Clients == 1..MaxClients   \* in the order in which they are made

VARIABLES clients,         \* self.clients, None for the names it lacks
          made,            \* the number of clients made
          closed,          \* the clients of which aclose has begun
          closing,         \* the closing that holds the lock, of all clients or of one, and
                           \* the names it has come to; or None
          user,            \* what each task does, with which client of which name
          requests, failures,   \* self._request_count, self._error_count
          sent,            \* the number of requests sent
          broken,          \* history: clients whose closing was broken off
          misled,          \* history: tasks that were given a client already closed, though
                           \* its closing was not broken off
          late             \* history: for each name, failures counted after the pool was
                           \* cleared of requests counted before

counters == <<requests, failures, late>>
history == <<broken, misled>>
vars == <<clients, made, closed, closing, user, sent, counters, history>>

Idle == [at |-> "none", name |-> None, client |-> None, tries |-> 0, counted |-> FALSE]

HttpPoolAssumption ==
    /\ IsFiniteSet(Users) /\ Attempts \in Nat \ {0}
    /\ {MaxClients, MaxRequests} \subseteq Nat
    /\ None \notin Names \union Nat \union [all : BOOLEAN, names : SUBSET Names]

TypeOK ==
    /\ clients \in [Names -> Clients \union {None}]
    /\ made \in 0..MaxClients
    /\ closed \in SUBSET (1..made) /\ broken \in SUBSET closed
    /\ closing = None \/ closing \in [all : BOOLEAN, names : SUBSET Names]
    /\ user \in [Users -> [at : {"none", "asking", "ready", "sending"},
                           name : Names \union {None}, client : Clients \union {None},
                           tries : 0..(Attempts - 1), counted : BOOLEAN]]
    /\ {requests, failures, late} \subseteq [Names -> 0..MaxRequests]
    /\ sent \in 0..MaxRequests /\ misled \in SUBSET Users

Init ==
    /\ clients = [n \in Names |-> None]
    /\ made = 0 /\ closed = {} /\ closing = None /\ broken = {}
    /\ user = [u \in Users |-> Idle]
    /\ requests = [n \in Names |-> 0] /\ failures = [n \in Names |-> 0]
    /\ late = [n \in Names |-> 0] /\ sent = 0 /\ misled = {}
------------------------------------------------------------------------------
\* The task enters its OptimizedHTTPClient, and waits for the lock of the pool.
Ask(u, n) ==
    /\ user[u].at = "none"
    /\ user' = [user EXCEPT ![u].at = "asking", ![u].name = n]
    /\ UNCHANGED <<clients, made, closed, closing, sent, counters, history>>

\* Mutant: a client is handed out without the lock.
MayGetAnyTime == TRUE

MayGet == closing = None

\* get_client finds the client of this name or makes it.
GetClient(u) ==
    /\ user[u].at = "asking" /\ MayGet
    /\ LET n == user[u].name
           client == IF clients[n] = None THEN made + 1 ELSE clients[n]
       IN /\ client \in Clients
          /\ clients' = [clients EXCEPT ![n] = client]
          /\ made' = IF clients[n] = None THEN made + 1 ELSE made
          /\ user' = [user EXCEPT ![u].at = "ready", ![u].client = client]
          /\ misled' = IF client \in closed \ broken THEN misled \union {u} ELSE misled
    /\ UNCHANGED <<closed, closing, sent, counters, broken>>

\* A request that failed is tried again, with the same client, until its last attempt;
\* the exception of that one ends the context.
After(u) == IF user[u].tries + 1 = Attempts
            THEN Idle
            ELSE [user[u] EXCEPT !.at = "ready", !.tries = @ + 1, !.counted = FALSE]

\* A closed client raises at once, an error that is not counted.
Send(u) ==
    /\ user[u].at = "ready" /\ sent < MaxRequests
    /\ sent' = sent + 1
    /\ requests' = [requests EXCEPT ![user[u].name] = @ + 1]
    /\ user' = [user EXCEPT ![u] = IF user[u].client \in closed
                                   THEN After(u)
                                   ELSE [@ EXCEPT !.at = "sending", !.counted = TRUE]]
    /\ UNCHANGED <<clients, made, closed, closing, failures, late, history>>

Succeed(u) ==
    /\ user[u].at = "sending"
    /\ user' = [user EXCEPT ![u].at = "ready", ![u].tries = 0, ![u].counted = FALSE]
    /\ UNCHANGED <<clients, made, closed, closing, sent, counters, history>>

\* HTTPStatusError or RequestError.
Fail(u) ==
    /\ user[u].at = "sending"
    /\ failures' = [failures EXCEPT ![user[u].name] = @ + 1]
    /\ late' = [late EXCEPT ![user[u].name] = IF user[u].counted THEN @ ELSE @ + 1]
    /\ user' = [user EXCEPT ![u] = After(u)]
    /\ UNCHANGED <<clients, made, closed, closing, requests, sent, history>>

\* The client was closed under the request, which ends with another exception.
Break(u) ==
    /\ user[u].at = "sending" /\ user[u].client \in closed
    /\ user' = [user EXCEPT ![u] = After(u)]
    /\ UNCHANGED <<clients, made, closed, closing, sent, counters, history>>

Leave(u) ==
    /\ user[u].at = "ready"
    /\ user' = [user EXCEPT ![u] = Idle]
    /\ UNCHANGED <<clients, made, closed, closing, sent, counters, history>>
------------------------------------------------------------------------------
Pooled == {n \in Names : clients[n] # None}

\* aclose of the client of this name begins.
CloseNext(all, names, n) ==
    /\ closing' = [all |-> all, names |-> names \union {n}]
    /\ closed' = closed \union {clients[n]}
    /\ UNCHANGED <<clients, made, user, sent, counters, history>>

CloseClient(n) == closing = None /\ n \in Pooled /\ CloseNext(FALSE, {}, n)

CloseAll ==
    /\ closing = None
    /\ closing' = [all |-> TRUE, names |-> {}]
    /\ UNCHANGED <<clients, made, closed, user, sent, counters, history>>

\* The loop of close_all begins or goes on.
CloseEach ==
    /\ closing # None /\ closing.all
    /\ \E n \in Pooled \ closing.names : CloseNext(TRUE, closing.names, n)

\* Mutant: a client that was closed is left in the pool.
WithoutNone(names) == clients

Without(names) == [n \in Names |-> IF n \in names THEN None ELSE clients[n]]

ClientClosed ==
    /\ closing # None /\ ~closing.all
    /\ closing' = None
    /\ clients' = Without(closing.names)
    /\ UNCHANGED <<made, closed, user, sent, counters, history>>

\* Mutant: the failures are not cleared with the requests.
FailuresKept == failures

FailuresCleared == [n \in Names |-> 0]

\* close_all ends; requests in flight are no longer counted.
AllClosed ==
    /\ closing # None /\ closing.all /\ closing.names = Pooled
    /\ closing' = None
    /\ clients' = Without(Names)
    /\ requests' = [n \in Names |-> 0]
    /\ failures' = FailuresCleared
    /\ late' = [n \in Names |-> 0]
    /\ user' = [u \in Users |-> [user[u] EXCEPT !.counted = FALSE]]
    /\ UNCHANGED <<made, closed, sent, history>>

\* aclose raises or is cancelled: the lock is free, and the pool is as it was.
CloseBreaksOff ==
    /\ closing # None
    /\ closing' = None
    /\ broken' = broken \union {clients[n] : n \in closing.names}
    /\ UNCHANGED <<clients, made, closed, user, sent, counters, misled>>

Next ==
    \/ CloseAll \/ CloseEach \/ ClientClosed \/ AllClosed \/ CloseBreaksOff
    \/ \E n \in Names : CloseClient(n)
    \/ \E u \in Users :
        \/ \E n \in Names : Ask(u, n)
        \/ GetClient(u) \/ Send(u) \/ Succeed(u) \/ Fail(u) \/ Break(u) \/ Leave(u)

Spec == Init /\ [][Next]_vars
------------------------------------------------------------------------------
\* Whoever asks gets an open client, unless its closing was broken off.
HandedOutOpen == misled = {}

\* Two tasks never open two clients of one name: each open client is in the pool, so
\* that close_all leaves none open.
NoneLeaks == (1..made) \ closed \subseteq {clients[n] : n \in Names}

\* The requests counted cover the failures counted and the requests in flight, but for
\* those the pool was cleared of before they failed.
FailuresCovered ==
    \A n \in Names :
        failures[n] + Cardinality({u \in Users : user[u].name = n /\ user[u].counted})
            <= requests[n] + late[n]

PoolSound == HandedOutOpen /\ NoneLeaks /\ FailuresCovered
==============================================================================

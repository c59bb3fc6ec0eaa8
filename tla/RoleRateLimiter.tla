---------------------------- MODULE RoleRateLimiter ----------------------------
(***************************************************************************)
(* The RoleBasedRateLimiter of app/utils/user_rate_limiter.py: one user,   *)
(* whose requests to all endpoints are counted on one list.  The limit of  *)
(* a request is the smaller of its role's and its endpoint's; so is the    *)
(* window, which is why every window is the roles' minute.  The key of the *)
(* list is the user's number as a string.                                  *)
(***************************************************************************)
EXTENDS Integers, FiniteSets, Sequences, Filtering

CONSTANTS Roles, RoleRequests,           \* ROLE_LIMITS
          Endpoints, EndpointRequests,   \* ENDPOINT_LIMITS; None for the endpoints it does not name
          RoleWindow, EndpointWindow,    \* the latter for each endpoint that has a limit
          None,
          MaxTime                        \* bound: the clock

RoleAssumption ==
    /\ Roles # {} /\ RoleRequests \in [Roles -> Nat \ {0}]
    /\ EndpointRequests \in [Endpoints -> Nat \union {None}]
    /\ RoleWindow \in Nat \ {0} /\ MaxTime \in Nat /\ None \notin Nat
    /\ \A e \in Endpoints : EndpointRequests[e] # None =>
           EndpointWindow[e] \in Nat /\ EndpointWindow[e] >= RoleWindow

VARIABLES requests,   \* self.user_requests[str(user_id)]: the times
          now,
          admitted    \* history: time of what was admitted since the last reset, and the
                      \* smaller of what its role and its endpoint allow

vars == <<requests, now, admitted>>

Time == 0..MaxTime

TypeOK ==
    /\ requests \in Seq(Time)
    /\ \E r \in Roles : Len(requests) <= RoleRequests[r]
    /\ now \in Time
    /\ admitted \in Seq([at : Time, most : Nat])

Init == requests = << >> /\ now = 0 /\ admitted = << >>

Tick ==
    /\ now < MaxTime
    /\ now' = now + 1
    /\ UNCHANGED <<requests, admitted>>

Smaller(a, b) == IF a < b THEN a ELSE b

Strictest(role, e) ==
    CHOOSE most \in {RoleRequests[role], EndpointRequests[e]} \ {None} :
        \A other \in {RoleRequests[role], EndpointRequests[e]} \ {None} : most <= other

\* Mutant: the limit is noticed one request late.
LimitLate(role, e) ==
    1 + IF EndpointRequests[e] = None THEN RoleRequests[role]
        ELSE Smaller(RoleRequests[role], EndpointRequests[e])

\* Mutant: an endpoint's limit replaces the role's.
LimitOfEndpoint(role, e) ==
    IF EndpointRequests[e] = None THEN RoleRequests[role] ELSE EndpointRequests[e]

Limit(role, e) ==
    IF EndpointRequests[e] = None THEN RoleRequests[role]
    ELSE Smaller(RoleRequests[role], EndpointRequests[e])

Window(e) ==
    IF EndpointRequests[e] = None THEN RoleWindow ELSE Smaller(RoleWindow, EndpointWindow[e])

\* Mutant: requests leave the window one unit early.
RecentEarly(window) == Keep(requests, {r \in Time : now - r < window - 1})

Recent(window) == Keep(requests, {r \in Time : now - r < window})

Refuse(role, e) ==
    /\ Len(Recent(Window(e))) >= Limit(role, e)
    /\ requests' = Recent(Window(e))
    /\ UNCHANGED <<now, admitted>>

Admit(role, e) ==
    /\ Len(Recent(Window(e))) < Limit(role, e)
    /\ requests' = Append(Recent(Window(e)), now)
    /\ admitted' = Append(admitted, [at |-> now, most |-> Strictest(role, e)])
    /\ UNCHANGED now

\* get_usage_stats cleans by the minute and then by the hour.
GetUsageStats ==
    /\ requests # Recent(RoleWindow)
    /\ requests' = Recent(RoleWindow)
    /\ UNCHANGED <<now, admitted>>

\* reset_limits() of everybody.
ResetAll == requests' = << >> /\ admitted' = << >> /\ UNCHANGED now

\* reset_limits(user_id) empties the list at the number, not at the string.
ResetUser == UNCHANGED vars

Next ==
    \/ Tick
    \/ \E role \in Roles, e \in Endpoints : Refuse(role, e) \/ Admit(role, e)
    \/ GetUsageStats
    \/ ResetAll \/ ResetUser

Spec == Init /\ [][Next]_vars
------------------------------------------------------------------------------
\* Wherever a window is laid, its last request found no more than its role and its
\* endpoint allow, counting what was sent to the others and under other roles.
StrictestLimitRespected ==
    \A i \in DOMAIN admitted :
        Cardinality({j \in 1..i : admitted[i].at - admitted[j].at < RoleWindow})
            <= admitted[i].most

\* Nothing that happens between two requests, an inquiry for the statistics
\* included, lets the limiter forget a request of the last minute.
NothingRecentForgotten ==
    Len(Recent(RoleWindow)) = Cardinality({i \in DOMAIN admitted : now - admitted[i].at < RoleWindow})
==============================================================================

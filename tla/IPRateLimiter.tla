----------------------------- MODULE IPRateLimiter -----------------------------
(***************************************************************************)
(* The IPRateLimiter of app/utils/ip_ratelimiter.py that guards the API:   *)
(* one address and the requests that come from it.  check_rate_limit       *)
(* suspends nowhere, so a request is one step; it is admitted, refused for *)
(* the burst limit or refused for the main limit.  Time is in fractions of *)
(* a second, as retry_after is truncated to whole ones.                    *)
(***************************************************************************)
EXTENDS Integers, FiniteSets, SequencesExt, Filtering

CONSTANTS MaxRequests, TimeWindow,      \* self.max_requests, self.time_window, in seconds
          BurstRequests, BurstWindow,   \* self.burst_requests, self.burst_window, in seconds
          Second,                       \* units of time in a second
          None,
          MaxTime                       \* bound: the clock, in units

IPRateLimiterAssumption ==
    /\ {MaxRequests, BurstRequests, TimeWindow, BurstWindow, Second} \subseteq Nat \ {0}
    /\ BurstWindow <= TimeWindow /\ MaxTime \in Nat
    /\ None \notin [limit : {"burst", "main"}, until : Nat]

VARIABLES requests,      \* self.requests[ip], the times
          whitelisted,   \* ip in self.whitelist
          now,
          admitted,      \* history: times of the requests admitted since the last reset
          told           \* history: what the first of the last refusals in a row for the
                         \* same limit said: which limit and until when; or None

vars == <<requests, whitelisted, now, admitted, told>>

Time == 0..MaxTime

TypeOK ==
    /\ requests \in Seq(Time) /\ Len(requests) <= MaxRequests
    /\ whitelisted \in BOOLEAN
    /\ now \in Time
    /\ admitted \in Seq(Time)
    /\ told \in {None} \union [limit : {"burst", "main"}, until : Nat]

Init ==
    /\ requests = << >> /\ admitted = << >>
    /\ whitelisted = FALSE
    /\ now = 0
    /\ told = None

Tick ==
    /\ now < MaxTime
    /\ now' = now + 1
    /\ UNCHANGED <<requests, whitelisted, admitted, told>>

\* Mutant: the oldest request is dropped as soon as the list is full.
RecentUnlessFull(reqs, window) ==
    Keep(IF Len(reqs) < MaxRequests THEN reqs ELSE Tail(reqs),
         {r \in Time : now - r < window * Second})

\* The requests of the last `window' seconds.
Recent(reqs, window) == Keep(reqs, {r \in Time : now - r < window * Second})

\* Mutant: the seconds are truncated and nothing is added.
RetryAfterTruncated(reqs, window) ==
    (window * Second - (now - Min(ToSet(reqs)))) \div Second

\* int(window - (now - oldest) + 1), in seconds.
RetryAfter(reqs, window) ==
    (window * Second - (now - Min(ToSet(reqs))) + Second) \div Second

Full(limit) ==
    CASE limit = "burst" -> Len(Recent(requests, BurstWindow)) >= BurstRequests
      [] limit = "main"  -> Len(Recent(requests, TimeWindow)) >= MaxRequests

Refuse(limit, window) ==
    /\ requests' = Recent(requests, TimeWindow)
    /\ told' = IF told # None /\ told.limit = limit THEN told
               ELSE [limit |-> limit,
                     until |-> now + Second * RetryAfter(Recent(requests, window), window)]
    /\ UNCHANGED <<whitelisted, now, admitted>>

RefuseBurst == ~whitelisted /\ Full("burst") /\ Refuse("burst", BurstWindow)

RefuseMain == ~whitelisted /\ ~Full("burst") /\ Full("main") /\ Refuse("main", TimeWindow)

\* Mutant: the clean-up is lost and the list grows.
AdmitAll ==
    /\ ~whitelisted /\ ~Full("burst") /\ ~Full("main")
    /\ requests' = Append(requests, now)
    /\ admitted' = Append(admitted, now)
    /\ told' = None
    /\ UNCHANGED <<whitelisted, now>>

Admit ==
    /\ ~whitelisted /\ ~Full("burst") /\ ~Full("main")
    /\ requests' = Append(Recent(requests, TimeWindow), now)
    /\ admitted' = Append(admitted, now)
    /\ told' = None
    /\ UNCHANGED <<whitelisted, now>>

Reset ==
    /\ requests # << >>
    /\ requests' = << >> /\ admitted' = << >>
    /\ UNCHANGED <<whitelisted, now, told>>

SetWhitelisted(listed) ==
    /\ whitelisted # listed
    /\ whitelisted' = listed
    /\ UNCHANGED <<requests, now, admitted, told>>

Next ==
    \/ Tick
    \/ RefuseBurst \/ RefuseMain \/ Admit
    \/ Reset
    \/ \E listed \in BOOLEAN : SetWhitelisted(listed)

Spec == Init /\ [][Next]_vars
------------------------------------------------------------------------------
InWindow(i, window) == {j \in 1..i : admitted[i] - admitted[j] < window * Second}

\* Neither window ever holds more admitted requests than its limit, wherever the
\* window is laid: the list that is pruned and counted at each request is enough.
WindowsRespected ==
    \A i \in DOMAIN admitted :
        /\ Cardinality(InWindow(i, BurstWindow)) <= BurstRequests
        /\ Cardinality(InWindow(i, TimeWindow)) <= MaxRequests

\* A client that was refused is not refused for the same limit once the time that
\* retry_after gave is over, whatever part of a second was cut off and however
\* often it asked, and was refused, meanwhile.
RetryAfterSuffices == told # None /\ now >= told.until => ~Full(told.limit)
==============================================================================

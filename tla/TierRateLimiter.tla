---------------------------- MODULE TierRateLimiter ----------------------------
(***************************************************************************)
(* The UserRateLimiter of app/middleware/user_rate_limiter.py with its     *)
(* InMemoryRateLimiter: one user, whose tier may change from a request to  *)
(* the next.  Every tier has a list of times for the burst limit and the   *)
(* main limit, and a counter of the day.  Nothing suspends inside the      *)
(* lock, so a request is one step.                                         *)
(***************************************************************************)
EXTENDS Integers, FiniteSets, Sequences, Filtering

CONSTANTS Tiers,
          MaxRequests, BurstRequests,   \* for each tier
          DailyLimit,                   \* for each tier; None for the administrator's
          TimeWindow, BurstWindow, Day, \* lengths
          None,
          MaxTime                       \* bound: the clock

TierAssumption ==
    /\ {MaxRequests, BurstRequests} \subseteq [Tiers -> Nat \ {0}]
    /\ DailyLimit \in [Tiers -> Nat \union {None}]
    /\ {TimeWindow, BurstWindow, Day} \subseteq Nat \ {0}
    /\ BurstWindow <= TimeWindow /\ TimeWindow <= Day /\ MaxTime \in Nat
    /\ None \notin Nat /\ None \notin [date : Nat, count : Nat]

VARIABLES requests,      \* for each tier, self.requests["<tier>:<user>"]
          daily,         \* for each tier, self.daily_counts: the date and the count, or None
          whitelisted,   \* user_id in self.whitelist_users
          now,
          admitted       \* history: for each tier, when requests were admitted

vars == <<requests, daily, whitelisted, now, admitted>>

Time == 0..MaxTime
Date(time) == time \div Day

TypeOK ==
    /\ requests \in [Tiers -> Seq(Time)]
    /\ \A t \in Tiers : Len(requests[t]) <= MaxRequests[t]
    /\ daily \in [Tiers -> {None} \union [date : 0..Date(MaxTime), count : Nat]]
    /\ \A t \in Tiers : DailyLimit[t] = None => daily[t] = None
    /\ whitelisted \in BOOLEAN
    /\ now \in Time
    /\ admitted \in [Tiers -> Seq(Time)]

Init ==
    /\ requests = [t \in Tiers |-> << >>] /\ admitted = requests
    /\ daily = [t \in Tiers |-> None]
    /\ whitelisted = FALSE
    /\ now = 0

Tick ==
    /\ now < MaxTime
    /\ now' = now + 1
    /\ UNCHANGED <<requests, daily, whitelisted, admitted>>

Recent(t, window) == Keep(requests[t], {r \in Time : now - r < window})

BurstFull(t) == Len(Recent(t, BurstWindow)) >= BurstRequests[t]

\* Mutant: the main limit is noticed one request late.
FullLate(t) == Len(Recent(t, TimeWindow)) > MaxRequests[t]

Full(t) == Len(Recent(t, TimeWindow)) >= MaxRequests[t]

\* Mutant: the counter is not set back on a new day.
CountStale(t) == IF daily[t] = None THEN 0 ELSE daily[t].count

\* The requests counted today.
Count(t) == IF daily[t] = None \/ daily[t].date # Date(now) THEN 0 ELSE daily[t].count

DayFull(t) == DailyLimit[t] # None /\ Count(t) >= DailyLimit[t]

\* A refused request is not recorded; the list is cleaned all the same.
Refuse(t) ==
    /\ ~whitelisted
    /\ BurstFull(t) \/ Full(t) \/ DayFull(t)
    /\ requests' = [requests EXCEPT ![t] = Recent(t, TimeWindow)]
    /\ UNCHANGED <<daily, whitelisted, now, admitted>>

\* Mutant: the burst limit is checked, the list kept, by the burst window alone.
AdmitBurst(t) ==
    /\ ~whitelisted
    /\ ~BurstFull(t) /\ ~DayFull(t)
    /\ requests' = [requests EXCEPT ![t] = Append(Recent(t, BurstWindow), now)]
    /\ daily' = IF DailyLimit[t] = None THEN daily
                ELSE [daily EXCEPT ![t] = [date |-> Date(now), count |-> Count(t) + 1]]
    /\ admitted' = [admitted EXCEPT ![t] = Append(@, now)]
    /\ UNCHANGED <<whitelisted, now>>

Admit(t) ==
    /\ ~whitelisted
    /\ ~BurstFull(t) /\ ~Full(t) /\ ~DayFull(t)
    /\ requests' = [requests EXCEPT ![t] = Append(Recent(t, TimeWindow), now)]
    /\ daily' = IF DailyLimit[t] = None THEN daily
                ELSE [daily EXCEPT ![t] = [date |-> Date(now), count |-> Count(t) + 1]]
    /\ admitted' = [admitted EXCEPT ![t] = Append(@, now)]
    /\ UNCHANGED <<whitelisted, now>>

\* A whitelisted user is let through and not counted.
Pass == whitelisted /\ UNCHANGED vars

SetWhitelisted(listed) ==
    /\ whitelisted # listed
    /\ whitelisted' = listed
    /\ UNCHANGED <<requests, daily, now, admitted>>

Next ==
    \/ Tick
    \/ Pass
    \/ \E t \in Tiers : Refuse(t) \/ Admit(t)
    \/ \E listed \in BOOLEAN : SetWhitelisted(listed)

Spec == Init /\ [][Next]_vars
------------------------------------------------------------------------------
InWindow(t, i, window) == {j \in 1..i : admitted[t][i] - admitted[t][j] < window}

\* Every limit of a tier holds wherever its window is laid, and the day's between
\* two midnights, in whatever order the user moves from tier to tier.
TierLimitsRespected ==
    \A t \in Tiers : \A i \in DOMAIN admitted[t] :
        /\ Cardinality(InWindow(t, i, BurstWindow)) <= BurstRequests[t]
        /\ Cardinality(InWindow(t, i, TimeWindow)) <= MaxRequests[t]
        /\ DailyLimit[t] # None =>
               Cardinality({j \in 1..i : Date(admitted[t][j]) = Date(admitted[t][i])})
                   <= DailyLimit[t]

\* The day's allowance is spent by admitted requests only: who was refused, at the
\* day's limit or at another, or was whitelisted for a while, still has the rest.
RefusalsCostNothing ==
    \A t \in Tiers : DailyLimit[t] # None =>
        Count(t) = Cardinality({j \in DOMAIN admitted[t] : Date(admitted[t][j]) = Date(now)})
==============================================================================

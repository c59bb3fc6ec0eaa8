------------------------------- MODULE MCGuards -------------------------------
(***************************************************************************)
(* What calls and requests have to pass, for TLC: the circuit breaker and  *)
(* the rate limiters.  They share no state, so a behaviour moves one of    *)
(* them, from the state in which all of them start.  CircuitBreaker is     *)
(* extended and the limiters are instantiated; each property of theirs is  *)
(* repeated here.  The constants of all of them are constants of this      *)
(* module: what is proved of it holds for each value.                      *)
(***************************************************************************)
EXTENDS CircuitBreaker, Filtering, TLC

CONSTANTS t1, t2, t3   \* callers of the breaker, tasks of RateLimiter and, the first
                       \* two, of AdaptiveRateLimiter

MCCallers == {t1, t2, t3}
MCSymmetry == Permutations({t1, t2})

CONSTANTS KeyTasks, KeyRequests, KeyWindow, KeyTime, KeyAcquires

VARIABLES requests, sleeper, keyNow, released, excused
keyVars == <<requests, sleeper, keyNow, released, excused>>

Key == INSTANCE RateLimiter WITH
    Tasks <- KeyTasks, MaxRequests <- KeyRequests, TimeWindow <- KeyWindow,
    MaxTime <- KeyTime, MaxAcquires <- KeyAcquires, now <- keyNow

CONSTANTS AddressRequests, AddressWindow, BurstRequests, BurstWindow, Second, AddressTime

VARIABLES ipRequests, ipWhitelisted, ipNow, ipAdmitted, told
ipVars == <<ipRequests, ipWhitelisted, ipNow, ipAdmitted, told>>

IP == INSTANCE IPRateLimiter WITH
    MaxRequests <- AddressRequests, TimeWindow <- AddressWindow, MaxTime <- AddressTime,
    requests <- ipRequests, whitelisted <- ipWhitelisted, now <- ipNow, admitted <- ipAdmitted

CONSTANTS AdaptiveTasks, MinDelay, BaseDelay, MaxDelay, AdaptiveSuccesses, AdaptiveTime

VARIABLES delay, state, successes, queue, sleep, sending, adNow, returns, raised
adaptiveVars == <<delay, state, successes, queue, sleep, sending, adNow, returns, raised>>

Adaptive == INSTANCE AdaptiveRateLimiter WITH
    Tasks <- AdaptiveTasks, SuccessThreshold <- AdaptiveSuccesses, MaxTime <- AdaptiveTime,
    now <- adNow

CONSTANTS Kinds, AttemptLimits, AttemptWindows, Bans, AuthTime

MCAttempts == [login |-> 1, register |-> 2]
MCAttemptWindows == [login |-> 2, register |-> 2]
MCBans == [login |-> 2, register |-> 3]

VARIABLES attempts, bannedUntil, auNow, auAdmitted, lastBan
authVars == <<attempts, bannedUntil, auNow, auAdmitted, lastBan>>

Auth == INSTANCE AuthRateLimiter WITH
    MaxAttempts <- AttemptLimits, Window <- AttemptWindows, Ban <- Bans, MaxTime <- AuthTime,
    now <- auNow, admitted <- auAdmitted

CONSTANTS Tiers, TierRequests, TierBursts, DailyLimit, TierWindow, TierBurstWindow, Day,
          TierTime

MCTierRequests == [anonymous |-> 2, admin |-> 3]
MCTierBursts == [anonymous |-> 1, admin |-> 2]
MCDailyLimit == [anonymous |-> 3, admin |-> None]

VARIABLES tierRequests, daily, tierWhitelisted, tierNow, tierAdmitted
tierVars == <<tierRequests, daily, tierWhitelisted, tierNow, tierAdmitted>>

Tier == INSTANCE TierRateLimiter WITH
    MaxRequests <- TierRequests, BurstRequests <- TierBursts, TimeWindow <- TierWindow,
    BurstWindow <- TierBurstWindow, MaxTime <- TierTime,
    requests <- tierRequests, whitelisted <- tierWhitelisted, now <- tierNow,
    admitted <- tierAdmitted

CONSTANTS Roles, RoleRequests, Endpoints, EndpointRequests, RoleWindow, EndpointWindow,
          RoleTime

MCRoleRequests == [user |-> 2, admin |-> 3]
MCEndpointRequests == [list |-> None, login |-> 1, search |-> 3]
MCEndpointWindow == [login |-> 2, search |-> 3]

VARIABLES roleRequests, roleNow, roleAdmitted
roleVars == <<roleRequests, roleNow, roleAdmitted>>

Role == INSTANCE RoleRateLimiter WITH
    MaxTime <- RoleTime, requests <- roleRequests, now <- roleNow, admitted <- roleAdmitted

ASSUME GuardsAssumption ==
    /\ Key!RateLimiterAssumption
    /\ IP!IPRateLimiterAssumption
    /\ Adaptive!AdaptiveAssumption
    /\ Auth!AuthAssumption
    /\ Tier!TierAssumption
    /\ Role!RoleAssumption
------------------------------------------------------------------------------
VARIABLE component   \* the part that moves

MCvars == <<vars, keyVars, ipVars, adaptiveVars, authVars, tierVars, roleVars, component>>

MCInit ==
    /\ Init
    /\ Key!Init /\ IP!Init /\ Adaptive!Init /\ Auth!Init /\ Tier!Init /\ Role!Init
    /\ component \in {"breaker", "key", "ip", "adaptive", "auth", "tier", "role"}

MCNext ==
    /\ UNCHANGED component
    /\ \/ component = "breaker" /\ Next
       \/ component # "breaker" /\ UNCHANGED vars
    /\ \/ component = "key" /\ Key!Next
       \/ component # "key" /\ UNCHANGED keyVars
    /\ \/ component = "ip" /\ IP!Next
       \/ component # "ip" /\ UNCHANGED ipVars
    /\ \/ component = "adaptive" /\ Adaptive!Next
       \/ component # "adaptive" /\ UNCHANGED adaptiveVars
    /\ \/ component = "auth" /\ Auth!Next
       \/ component # "auth" /\ UNCHANGED authVars
    /\ \/ component = "tier" /\ Tier!Next
       \/ component # "tier" /\ UNCHANGED tierVars
    /\ \/ component = "role" /\ Role!Next
       \/ component # "role" /\ UNCHANGED roleVars

MCSpec == MCInit /\ [][MCNext]_MCvars
------------------------------------------------------------------------------
\* The types of all limiters; a list of requests is no longer than its limit.
LimitersTypeOK ==
    /\ Key!TypeOK /\ IP!TypeOK /\ Adaptive!TypeOK /\ Auth!TypeOK /\ Tier!TypeOK /\ Role!TypeOK

\* Wherever a window is laid, it holds no more admitted requests than the limit: the
\* acquires that had no reason to sleep, the two windows of an address, the attempts
\* of a kind, the three limits of a tier, the stricter of a role's and an endpoint's.
LimitsRespected ==
    /\ Key!DirectRespectsWindow
    /\ IP!WindowsRespected
    /\ Auth!AttemptsLimited
    /\ Tier!TierLimitsRespected
    /\ Role!StrictestLimitRespected

\* What counts against a limit is what was admitted, no less and no more: a refused
\* request costs nothing of the day, an inquiry for the statistics forgets nothing,
\* and a ban that was sat out wipes out the attempts that led to it.
CountsWhatWasAdmitted ==
    /\ Auth!FreshAfterBan
    /\ Tier!RefusalsCostNothing
    /\ Role!NothingRecentForgotten

\* RateLimiter: who comes later does not go first.
NoOvertaking == Key!NoOvertaking

\* IPRateLimiter: who waits for retry_after is not refused for the same limit.
\* AdaptiveRateLimiter: a task sleeps the delay in force, the requests of all tasks
\* leave it between them, and the reported state follows it.
WaitingSuffices ==
    /\ IP!RetryAfterSuffices
    /\ Adaptive!RequestsSpaced /\ Adaptive!StateTellsDelay

\* AuthRateLimiter: nothing ends, prolongs or shortens a ban.
BanStands == Auth!BanStands
==============================================================================

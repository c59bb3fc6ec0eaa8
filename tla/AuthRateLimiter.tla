---------------------------- MODULE AuthRateLimiter ----------------------------
(***************************************************************************)
(* The AuthRateLimiter of app/utils/auth_ratelimiter.py that the endpoints *)
(* for login, registration and token refresh ask first: one address that   *)
(* is not whitelisted.  Each kind of attempt has its own list and limit;   *)
(* the ban for exceeding one of them stops them all.  The checks suspend   *)
(* nowhere, so each is one step.                                           *)
(***************************************************************************)
EXTENDS Integers, FiniteSets, SequencesExt, Filtering

CONSTANTS Kinds,                       \* login, register, refresh
          MaxAttempts, Window, Ban,    \* for each kind; Ban is the duration given to _ban_ip
          None,
          MaxTime                      \* bound: the clock

AuthAssumption ==
    /\ \A f \in {MaxAttempts, Window, Ban} : f \in [Kinds -> Nat \ {0}]
    /\ \A k \in Kinds : Ban[k] >= Window[k]
    /\ MaxTime \in Nat /\ None \notin Nat /\ None \notin [kind : Kinds, until : Nat]

VARIABLES attempts,      \* for each kind, self.<kind>_attempts[ip]
          bannedUntil,   \* self.banned_ips[ip], or None
          now,
          admitted,      \* history: for each kind, times of the attempts let through since a reset
          lastBan        \* history: kind and end of the last ban since a reset, or None

vars == <<attempts, bannedUntil, now, admitted, lastBan>>

Time == 0..MaxTime

TypeOK ==
    /\ attempts \in [Kinds -> Seq(Time)]
    /\ \A k \in Kinds : Len(attempts[k]) <= MaxAttempts[k]
    /\ bannedUntil \in {None} \union Nat
    /\ now \in Time
    /\ admitted \in [Kinds -> Seq(Time)]
    /\ lastBan \in {None} \union [kind : Kinds, until : Nat]

Init ==
    /\ attempts = [k \in Kinds |-> << >>] /\ admitted = attempts
    /\ bannedUntil = None /\ lastBan = None
    /\ now = 0

Tick ==
    /\ now < MaxTime
    /\ now' = now + 1
    /\ UNCHANGED <<attempts, bannedUntil, admitted, lastBan>>

\* Mutant: a ban is never looked at.
BannedNever == FALSE

\* _is_banned, which also forgets a ban that is over.
Banned == bannedUntil # None /\ now < bannedUntil

\* Mutant: attempts leave the window one unit early.
RecentEarly(k) == Keep(attempts[k], {r \in Time : now - r < Window[k] - 1})

Recent(k) == Keep(attempts[k], {r \in Time : now - r < Window[k]})

\* Mutant: the limit is noticed one attempt late.
FullLate(k) == Len(Recent(k)) > MaxAttempts[k]

Full(k) == Len(Recent(k)) >= MaxAttempts[k]

\* Mutant: the ban lasts until the oldest attempt leaves the window.
BanEndShort(k) == attempts[k][1] + Window[k]

BanEnd(k) == now + Ban[k]

\* One attempt too many bans the address, for every kind.
RefuseAndBan(k) ==
    /\ ~Banned /\ Full(k)
    /\ attempts' = [attempts EXCEPT ![k] = Recent(k)]
    /\ bannedUntil' = BanEnd(k)
    /\ lastBan' = [kind |-> k, until |-> BanEnd(k)]
    /\ UNCHANGED <<now, admitted>>

Admit(k) ==
    /\ ~Banned /\ ~Full(k)
    /\ attempts' = [attempts EXCEPT ![k] = Append(Recent(k), now)]
    /\ bannedUntil' = None
    /\ admitted' = [admitted EXCEPT ![k] = Append(@, now)]
    /\ UNCHANGED <<now, lastBan>>

\* While the ban lasts, an attempt changes nothing.
RefuseBanned(k) == Banned /\ UNCHANGED vars

Reset ==
    /\ attempts' = [k \in Kinds |-> << >>] /\ admitted' = attempts'
    /\ bannedUntil' = None /\ lastBan' = None
    /\ UNCHANGED now

Next == Tick \/ Reset \/ \E k \in Kinds : RefuseAndBan(k) \/ Admit(k) \/ RefuseBanned(k)

Spec == Init /\ [][Next]_vars
------------------------------------------------------------------------------
\* Wherever a window is laid, it holds no more admitted attempts of a kind than the
\* limit, although the list is emptied of old attempts only when the kind is tried.
AttemptsLimited ==
    \A k \in Kinds : \A i \in DOMAIN admitted[k] :
        Cardinality({j \in 1..i : admitted[k][i] - admitted[k][j] < Window[k]}) <= MaxAttempts[k]

\* A ban lasts as long as it was given for: attempts of any kind meanwhile neither
\* end it, nor prolong it, nor replace it by the shorter ban of another kind.
BanStands ==
    [][bannedUntil # None /\ now < bannedUntil
       => \/ bannedUntil' = bannedUntil
          \/ Reset]_vars

\* Who sat out a ban starts afresh: none of the attempts that led to it counts
\* against the kind it was for.
FreshAfterBan ==
    lastBan # None /\ now >= lastBan.until =>
        \A r \in ToSet(attempts[lastBan.kind]) :
            r >= lastBan.until \/ now - r >= Window[lastBan.kind]
==============================================================================

---------------------------- MODULE PropertyAlerts ----------------------------
(***************************************************************************)
(* The alerts of app/api/endpoints/properties_db.py, kept in the           *)
(* dictionary memory_alerts, as get_alerts_db never gives a session.       *)
(***************************************************************************)
EXTENDS Integers, FiniteSets, Functions

CONSTANTS Emails,
          MaxAlerts   \* bound: alerts created

PropertyAlertsAssumption == MaxAlerts \in Nat

Ids == 1..MaxAlerts
Alert == [serial : Ids, email : Emails, is_active : BOOLEAN]   \* serial: created_at

VARIABLES memory_alerts,
          created,     \* number of alerts created
          told,        \* history: the id its creator was told, by serial
          wanted,      \* history: each alert as it was last asked for, by serial
          withdrawn,   \* history: serials of the alerts that were deleted
          freed        \* history: ids that were deleted

vars == <<memory_alerts, created, told, wanted, withdrawn, freed>>

TypeOK ==
    /\ \E ids \in SUBSET Ids : memory_alerts \in [ids -> Alert]
    /\ created \in 0..MaxAlerts
    /\ told \in [1..created -> Ids] /\ wanted \in [1..created -> Alert]
    /\ withdrawn \in SUBSET (1..created) /\ freed \in SUBSET Ids

Init ==
    /\ memory_alerts = [id \in {} |-> 0]
    /\ created = 0 /\ told = << >> /\ wanted = << >>
    /\ withdrawn = {} /\ freed = {}

\* d[key] = value
Put(d, key, value) == [k \in DOMAIN d \union {key} |-> IF k = key THEN value ELSE d[k]]

\* Mutant: the number of the new alert counts the active ones.
CreateAfterActive(email) ==
    LET id == Cardinality({i \in DOMAIN memory_alerts : memory_alerts[i].is_active}) + 1
        alert == [serial |-> created', email |-> email, is_active |-> TRUE]
    IN /\ created < MaxAlerts
       /\ created' = created + 1
       /\ memory_alerts' = Put(memory_alerts, id, alert)
       /\ told' = Put(told, created', id)
       /\ wanted' = Put(wanted, created', alert)
       /\ UNCHANGED <<withdrawn, freed>>

\* create_property_alert: the id is the number of alerts there are, and one.
Create(email) ==
    LET id == Cardinality(DOMAIN memory_alerts) + 1
        alert == [serial |-> created', email |-> email, is_active |-> TRUE]
    IN /\ created < MaxAlerts
       /\ created' = created + 1
       /\ memory_alerts' = Put(memory_alerts, id, alert)
       /\ told' = Put(told, created', id)
       /\ wanted' = Put(wanted, created', alert)
       /\ UNCHANGED <<withdrawn, freed>>

\* The alert of an id is replaced, for whoever asks.
Replace(id, alert) ==
    /\ memory_alerts' = Put(memory_alerts, id, alert)
    /\ wanted' = [wanted EXCEPT ![alert.serial] = alert]
    /\ UNCHANGED <<created, told, withdrawn, freed>>

\* Mutant: an update makes the alert active again.
UpdateActivates(id, email) ==
    /\ id \in DOMAIN memory_alerts
    /\ memory_alerts' = Put(memory_alerts, id, [memory_alerts[id] EXCEPT !.email = email, !.is_active = TRUE])
    /\ wanted' = [wanted EXCEPT ![memory_alerts[id].serial].email = email]
    /\ UNCHANGED <<created, told, withdrawn, freed>>

\* update_property_alert keeps is_active and created_at.
Update(id, email) ==
    id \in DOMAIN memory_alerts /\ Replace(id, [memory_alerts[id] EXCEPT !.email = email])

Deactivate(id) ==
    id \in DOMAIN memory_alerts /\ Replace(id, [memory_alerts[id] EXCEPT !.is_active = FALSE])

Delete(id) ==
    /\ id \in DOMAIN memory_alerts
    /\ memory_alerts' = Restrict(memory_alerts, DOMAIN memory_alerts \ {id})
    /\ withdrawn' = withdrawn \union {memory_alerts[id].serial}
    /\ freed' = freed \union {id}
    /\ UNCHANGED <<created, told, wanted>>

Next ==
    \/ \E email \in Emails : Create(email)
    \/ \E id \in Ids : Deactivate(id) \/ Delete(id) \/ \E email \in Emails : Update(id, email)

Spec == Init /\ [][Next]_vars

\* list_property_alerts
Listed(email) == {memory_alerts[id] : id \in {i \in DOMAIN memory_alerts : memory_alerts[i].email = email}}
------------------------------------------------------------------------------
\* An alert is kept as it was last asked for, under the id its creator was told, and
\* listed for its address, as long as neither it nor one with a smaller id is deleted.
\* (After that a new alert can be given its id and take its place.)
KeptUntilDeleted ==
    \A s \in 1..created \ withdrawn : (\A id \in freed : told[s] < id) =>
        /\ told[s] \in DOMAIN memory_alerts
        /\ memory_alerts[told[s]] = wanted[s]
        /\ wanted[s] \in Listed(wanted[s].email)
==============================================================================

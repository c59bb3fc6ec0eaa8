---------------------------- MODULE RecordsProofs -----------------------------
(***************************************************************************)
(* What is recorded is kept, and what is read in several steps is off by   *)
(* no more than what changed meanwhile: theorems about PropertyAlerts,     *)
(* Bookmarks, AuditLog, PropertyExport and ListingSearch as MCServices     *)
(* puts them together, for every value of their constants.  Each part has  *)
(* an inductive invariant of its own; sections at the end of each half put *)
(* them into theorems about MCSpec, the types of all the services last.    *)
(***************************************************************************)
EXTENDS ServicesProofs, WellFoundedInduction

------------------------------------------------------------------------------
(* PropertyAlerts *)

\* The ids given so far are the first ones.  Each alert that is kept has the id that its
\* creator was told and is what was last asked for; and as long as no alert with a
\* smaller id is deleted, no other has taken its place.
AlertsInv ==
    /\ PropertyAlert!TypeOK
    /\ \E m \in 0..created : DOMAIN memory_alerts \union freed = 1..m
    /\ \A id \in DOMAIN memory_alerts :
           LET s == memory_alerts[id].serial
           IN  s \in 1..created \ withdrawn /\ told[s] = id /\ wanted[s] = memory_alerts[id]
    /\ \A s \in 1..created :
           /\ told[s] \in DOMAIN memory_alerts \union freed /\ wanted[s].serial = s
           /\ s \notin withdrawn /\ (\A id \in freed : told[s] < id) =>
                  memory_alerts[told[s]].serial = s

LEMMA AlertsTypes ==
    ASSUME PropertyAlert!TypeOK
    PROVE  /\ DOMAIN memory_alerts \subseteq PropertyAlert!Ids
           /\ memory_alerts \in [DOMAIN memory_alerts -> PropertyAlert!Alert]
  BY DEF PropertyAlert!TypeOK

LEMMA AlertsInit == PropertyAlert!Init => AlertsInv
<1> SUFFICES ASSUME PropertyAlert!Init PROVE AlertsInv
  OBVIOUS
<1> USE DEF PropertyAlert!Init
<1>1. created = 0 /\ DOMAIN memory_alerts = {} /\ freed = {} /\ withdrawn = {}
  OBVIOUS
<1>2. 1..created = {} /\ 0 \in 0..created /\ 1..0 = {}
  BY <1>1
<1>3. told \in [{} -> PropertyAlert!Ids] /\ wanted \in [{} -> PropertyAlert!Alert]
  OBVIOUS
<1>4. memory_alerts \in [{} -> PropertyAlert!Alert]
  OBVIOUS
<1>5. PropertyAlert!TypeOK
  <2>1. PropertyAlert!PropertyAlertsAssumption
    BY ServicesAssumption
  <2> QED
    BY <1>1, <1>2, <1>3, <1>4, <2>1
       DEF PropertyAlert!TypeOK, PropertyAlert!PropertyAlertsAssumption
<1> QED
  BY <1>1, <1>2, <1>5 DEF AlertsInv

LEMMA SameCardinality == \A S : PropertyAlert!Cardinality(S) = Cardinality(S)
  BY DEF PropertyAlert!Cardinality, Cardinality

\* The new id is the next one, or one that was deleted: never below an alert that still
\* has all the smaller ids beside it.
LEMMA NewId ==
    ASSUME AlertsInv, NEW id, id = PropertyAlert!Cardinality(DOMAIN memory_alerts) + 1
    PROVE  /\ id \in Nat \ {0} /\ id <= created + 1
           /\ \E m \in 0..(created + 1) : DOMAIN memory_alerts \union {id} \union freed = 1..m
           /\ \A s \in 1..created : (\A f \in freed : told[s] < f) => told[s] < id
<1> DEFINE D == DOMAIN memory_alerts
<1>1. PICK m \in 0..created : D \union freed = 1..m
  BY DEF AlertsInv
<1>2. created \in Nat /\ m \in Nat /\ m <= created /\ told \in [1..created -> PropertyAlert!Ids]
  BY <1>1 DEF AlertsInv, PropertyAlert!TypeOK
<1>3. IsFiniteSet(D) /\ Cardinality(D) <= m /\ Cardinality(D) \in Nat
  BY <1>1, <1>2, UpTo, FS_Subset, FS_CardinalityType
<1>4. id = Cardinality(D) + 1 /\ id \in 1..(m + 1)
  BY <1>2, <1>3, SameCardinality
<1> HIDE DEF D
<1>5. \E k \in 0..(created + 1) : D \union {id} \union freed = 1..k
  <2>1. CASE id = m + 1
    <3>1. m + 1 \in 0..(created + 1) /\ 1..m \union {id} = 1..(m + 1)
      BY <1>2, <2>1
    <3> QED
      BY <1>1, <3>1
  <2>2. CASE id \in 1..m
    BY <1>1, <1>2, <2>2
  <2> QED
    BY <1>2, <1>4, <2>1, <2>2
<1>6. ASSUME NEW s \in 1..created, \A f \in freed : told[s] < f PROVE told[s] < id
  <2>1. told[s] \in 1..m /\ told[s] \in Nat
    BY <1>1, <1>2 DEF AlertsInv, D
  <2>2. \A i \in 1..told[s] : i \in D
    <3> TAKE i \in 1..told[s]
    <3>1. i \in 1..m /\ i \in Nat /\ ~(told[s] < i)
      BY <1>2, <2>1
    <3> QED
      BY <1>1, <1>6, <3>1
  <2>3. Cardinality(1..told[s]) <= Cardinality(D)
    BY <1>3, <2>2, FS_Subset
  <2> QED
    BY <1>3, <1>4, <2>1, <2>3, UpTo
<1> QED
  BY <1>2, <1>4, <1>5, <1>6 DEF D

LEMMA AlertsCreate ==
    ASSUME AlertsInv, NEW email \in Emails, PropertyAlert!Create(email)
    PROVE  AlertsInv'
<1> DEFINE id == PropertyAlert!Cardinality(DOMAIN memory_alerts) + 1
           n == created + 1
           alert == [serial |-> n, email |-> email, is_active |-> TRUE]
<1>1. /\ created < MaxAlerts /\ created' = n
      /\ memory_alerts' = PropertyAlert!Put(memory_alerts, id, alert)
      /\ told' = PropertyAlert!Put(told, n, id) /\ wanted' = PropertyAlert!Put(wanted, n, alert)
      /\ withdrawn' = withdrawn /\ freed' = freed
  BY Zenon DEF PropertyAlert!Create
<1>2. /\ id \in Nat \ {0} /\ id <= created + 1
      /\ \E m \in 0..(created + 1) : DOMAIN memory_alerts \union {id} \union freed = 1..m
      /\ \A s \in 1..created : (\A f \in freed : told[s] < f) => told[s] < id
  BY NewId, Zenon
<1>3. /\ created \in Nat /\ MaxAlerts \in Nat
      /\ told \in [1..created -> PropertyAlert!Ids] /\ wanted \in [1..created -> PropertyAlert!Alert]
      /\ withdrawn \subseteq 1..created /\ freed \subseteq PropertyAlert!Ids
  BY ServicesAssumption DEF AlertsInv, PropertyAlert!TypeOK, PropertyAlert!PropertyAlertsAssumption
<1> HIDE DEF id
<1>4. /\ n \in PropertyAlert!Ids /\ id \in PropertyAlert!Ids
      /\ 1..n = 1..created \union {n} /\ n \notin 1..created /\ 1..created \subseteq 1..n
      /\ alert \in PropertyAlert!Alert
  BY <1>1, <1>2, <1>3 DEF PropertyAlert!Ids, PropertyAlert!Alert
<1>5. /\ DOMAIN memory_alerts' = DOMAIN memory_alerts \union {id}
      /\ memory_alerts'[id] = alert
      /\ \A i \in DOMAIN memory_alerts : i # id => memory_alerts'[i] = memory_alerts[i]
      /\ told' = [s \in 1..n |-> IF s = n THEN id ELSE told[s]]
      /\ wanted' = [s \in 1..n |-> IF s = n THEN alert ELSE wanted[s]]
  <2>1. DOMAIN told = 1..created /\ DOMAIN wanted = 1..created
    BY <1>3
  <2> HIDE DEF n, alert
  <2> QED
    BY <1>1, <1>4, <2>1 DEF PropertyAlert!Put
<1> HIDE DEF n
<1>0. /\ told'[n] = id /\ wanted'[n] = alert /\ memory_alerts'[id] = alert
      /\ alert.serial = n /\ n \in 1..created' \ withdrawn' /\ id \in DOMAIN memory_alerts'
  <2>1. n \in 1..n /\ n \notin withdrawn
    BY <1>3, <1>4
  <2> QED
    BY <1>1, <1>5, <2>1
<1>6. PropertyAlert!TypeOK'
  <2>1. memory_alerts' \in [DOMAIN memory_alerts \union {id} -> PropertyAlert!Alert]
    <3>1. memory_alerts \in [DOMAIN memory_alerts -> PropertyAlert!Alert]
      BY AlertsTypes DEF AlertsInv
    <3> HIDE DEF alert
    <3> QED
      BY <1>1, <1>4, <3>1 DEF PropertyAlert!Put
  <2>2. DOMAIN memory_alerts \union {id} \in SUBSET PropertyAlert!Ids
    BY <1>4, AlertsTypes DEF AlertsInv
  <2>3. told' \in [1..n -> PropertyAlert!Ids] /\ wanted' \in [1..n -> PropertyAlert!Alert]
    <3> HIDE DEF alert
    <3> QED
      BY <1>3, <1>4, <1>5
  <2>4. n \in 0..MaxAlerts /\ withdrawn \in SUBSET (1..n) /\ freed \in SUBSET PropertyAlert!Ids
    BY <1>3, <1>4 DEF PropertyAlert!Ids
  <2> HIDE DEF alert
  <2> QED
    BY <1>1, <2>1, <2>2, <2>3, <2>4 DEF PropertyAlert!TypeOK
<1>7. \E m \in 0..created' : DOMAIN memory_alerts' \union freed' = 1..m
  BY <1>1, <1>2, <1>5 DEF n
<1>8. ASSUME NEW i \in DOMAIN memory_alerts'
      PROVE  LET s == memory_alerts'[i].serial
             IN  s \in 1..created' \ withdrawn' /\ told'[s] = i /\ wanted'[s] = memory_alerts'[i]
  <2>1. CASE i = id
    <3> HIDE DEF alert
    <3> QED
      BY <1>0, <2>1
  <2>2. CASE i # id
    <3>1. i \in DOMAIN memory_alerts /\ memory_alerts'[i] = memory_alerts[i]
      BY <1>5, <2>2
    <3> DEFINE s == memory_alerts[i].serial
    <3>2. s \in 1..created \ withdrawn /\ told[s] = i /\ wanted[s] = memory_alerts[i]
      BY <3>1 DEF AlertsInv
    <3> HIDE DEF s, alert
    <3>3. s \in 1..n /\ s # n /\ told'[s] = told[s] /\ wanted'[s] = wanted[s]
      BY <1>4, <1>5, <3>2
    <3> QED
      BY <1>1, <3>1, <3>2, <3>3 DEF s
  <2> QED
    BY <2>1, <2>2
<1>9. ASSUME NEW s \in 1..created'
      PROVE  /\ told'[s] \in DOMAIN memory_alerts' \union freed' /\ wanted'[s].serial = s
             /\ s \notin withdrawn' /\ (\A i \in freed' : told'[s] < i) =>
                    memory_alerts'[told'[s]].serial = s
  <2>1. CASE s = n
    <3> HIDE DEF alert
    <3> QED
      BY <1>0, <2>1
  <2>2. CASE s # n
    <3>1. s \in 1..created /\ told'[s] = told[s] /\ wanted'[s] = wanted[s]
      <4> HIDE DEF alert
      <4> QED
        BY <1>1, <1>4, <1>5, <2>2
    <3>2. /\ told[s] \in DOMAIN memory_alerts \union freed /\ wanted[s].serial = s
          /\ s \notin withdrawn /\ (\A i \in freed : told[s] < i) => memory_alerts[told[s]].serial = s
      BY <3>1 DEF AlertsInv
    <3>3. ASSUME s \notin withdrawn, \A i \in freed : told[s] < i
          PROVE  memory_alerts'[told[s]].serial = s
      <4>1. told[s] < id /\ told[s] \in Nat
        BY <1>2, <1>3, <3>1, <3>3 DEF PropertyAlert!Ids
      <4>2. told[s] # id /\ told[s] \notin freed
        BY <1>2, <3>3, <4>1
      <4> QED
        BY <1>5, <3>2, <3>3, <4>2
    <3> QED
      BY <1>1, <1>5, <3>1, <3>2, <3>3
  <2> QED
    BY <2>1, <2>2
<1> QED
  BY <1>6, <1>7, <1>8, <1>9 DEF AlertsInv

LEMMA AlertsReplace ==
    ASSUME AlertsInv, NEW id \in DOMAIN memory_alerts, NEW alert \in PropertyAlert!Alert,
           alert.serial = memory_alerts[id].serial, PropertyAlert!Replace(id, alert)
    PROVE  AlertsInv'
<1> DEFINE n == memory_alerts[id].serial
<1>1. /\ DOMAIN memory_alerts' = DOMAIN memory_alerts
      /\ memory_alerts' = [k \in DOMAIN memory_alerts |-> IF k = id THEN alert ELSE memory_alerts[k]]
      /\ wanted' = [wanted EXCEPT ![n] = alert]
      /\ created' = created /\ told' = told /\ withdrawn' = withdrawn /\ freed' = freed
  <2>1. DOMAIN memory_alerts \union {id} = DOMAIN memory_alerts
    OBVIOUS
  <2> QED
    BY <2>1 DEF PropertyAlert!Replace, PropertyAlert!Put
<1>2. n \in 1..created \ withdrawn /\ told[n] = id /\ wanted[n] = memory_alerts[id]
  BY DEF AlertsInv
<1>3. PropertyAlert!TypeOK
  BY DEF AlertsInv
<1> HIDE DEF n
<1>4. /\ wanted \in [1..created -> PropertyAlert!Alert]
      /\ wanted'[n] = alert /\ \A s \in 1..created : s # n => wanted'[s] = wanted[s]
  BY <1>1, <1>2, <1>3 DEF PropertyAlert!TypeOK
<1>5. PropertyAlert!TypeOK'
  <2>1. memory_alerts' \in [DOMAIN memory_alerts -> PropertyAlert!Alert]
    BY <1>1, <1>3, AlertsTypes
  <2>2. wanted' \in [1..created -> PropertyAlert!Alert]
    BY <1>1, <1>4
  <2>3. DOMAIN memory_alerts \in SUBSET PropertyAlert!Ids
    BY <1>3, AlertsTypes
  <2> QED
    BY <1>1, <1>3, <2>1, <2>2, <2>3 DEF PropertyAlert!TypeOK
<1>6. \A i \in DOMAIN memory_alerts : memory_alerts'[i].serial = memory_alerts[i].serial
  BY <1>1
<1>7. ASSUME NEW i \in DOMAIN memory_alerts
      PROVE  LET s == memory_alerts'[i].serial
             IN  s \in 1..created' \ withdrawn' /\ told'[s] = i /\ wanted'[s] = memory_alerts'[i]
  <2> DEFINE s == memory_alerts[i].serial
  <2>1. s \in 1..created \ withdrawn /\ told[s] = i /\ wanted[s] = memory_alerts[i]
    BY DEF AlertsInv
  <2>2. s = n <=> i = id
    BY <1>2, <2>1 DEF n
  <2> HIDE DEF s
  <2>3. wanted'[s] = memory_alerts'[i]
    BY <1>1, <1>4, <2>1, <2>2
  <2> QED
    BY <1>1, <1>6, <2>1, <2>3 DEF s
<1>8. ASSUME NEW s \in 1..created
      PROVE  /\ told'[s] \in DOMAIN memory_alerts' \union freed' /\ wanted'[s].serial = s
             /\ s \notin withdrawn' /\ (\A i \in freed' : told'[s] < i) =>
                    memory_alerts'[told'[s]].serial = s
  <2>1. /\ told[s] \in DOMAIN memory_alerts \union freed /\ wanted[s].serial = s
        /\ s \notin withdrawn /\ (\A i \in freed : told[s] < i) => memory_alerts[told[s]].serial = s
    BY DEF AlertsInv
  <2>2. wanted'[s].serial = s
    BY <1>2, <1>4, <2>1 DEF n
  <2>3. ASSUME \A i \in freed : told[s] < i PROVE told[s] \in DOMAIN memory_alerts
    <3>1. told[s] \in Nat
      BY <1>3 DEF PropertyAlert!TypeOK, PropertyAlert!Ids
    <3>2. told[s] \notin freed
      BY <2>3, <3>1
    <3> QED
      BY <2>1, <3>2
  <2> QED
    BY <1>1, <1>6, <2>1, <2>2, <2>3
<1> QED
  BY <1>1, <1>3, <1>5, <1>7, <1>8 DEF AlertsInv

LEMMA AlertsDelete ==
    ASSUME AlertsInv, NEW id \in PropertyAlert!Ids, PropertyAlert!Delete(id)
    PROVE  AlertsInv'
<1> DEFINE n == memory_alerts[id].serial
           D == DOMAIN memory_alerts
<1>1. /\ id \in D /\ memory_alerts' = PropertyAlert!Restrict(memory_alerts, D \ {id})
      /\ withdrawn' = withdrawn \union {n} /\ freed' = freed \union {id}
      /\ created' = created /\ told' = told /\ wanted' = wanted
  BY DEF PropertyAlert!Delete
<1>2. DOMAIN memory_alerts' = D \ {id} /\ \A i \in D \ {id} : memory_alerts'[i] = memory_alerts[i]
  BY <1>1 DEF PropertyAlert!Restrict
<1>3. n \in 1..created \ withdrawn /\ told[n] = id
  BY <1>1 DEF AlertsInv
<1>4. PropertyAlert!TypeOK /\ DOMAIN memory_alerts' \union freed' = D \union freed
  BY <1>1, <1>2 DEF AlertsInv
<1> HIDE DEF n
<1>5. PropertyAlert!TypeOK'
  <2>1. memory_alerts \in [D -> PropertyAlert!Alert] /\ D \ {id} \in SUBSET PropertyAlert!Ids
    BY <1>4, AlertsTypes
  <2>2. memory_alerts' \in [D \ {id} -> PropertyAlert!Alert]
    BY <1>1, <2>1 DEF PropertyAlert!Restrict
  <2> HIDE DEF D
  <2> QED
    BY <1>1, <1>3, <1>4, <2>1, <2>2 DEF PropertyAlert!TypeOK
<1>6. ASSUME NEW i \in D \ {id}
      PROVE  LET s == memory_alerts'[i].serial
             IN  s \in 1..created' \ withdrawn' /\ told'[s] = i /\ wanted'[s] = memory_alerts'[i]
  <2>1. LET s == memory_alerts[i].serial
        IN  s \in 1..created \ withdrawn /\ told[s] = i /\ wanted[s] = memory_alerts[i]
    BY DEF AlertsInv
  <2> QED
    BY <1>1, <1>2, <1>3, <2>1
<1>7. ASSUME NEW s \in 1..created
      PROVE  /\ told'[s] \in D \union freed /\ wanted'[s].serial = s
             /\ s \notin withdrawn' /\ (\A i \in freed' : told'[s] < i) =>
                    memory_alerts'[told'[s]].serial = s
  <2>1. /\ told[s] \in D \union freed /\ wanted[s].serial = s /\ told[s] \in Nat
        /\ s \notin withdrawn /\ (\A i \in freed : told[s] < i) => memory_alerts[told[s]].serial = s
    BY <1>4 DEF AlertsInv, PropertyAlert!TypeOK, PropertyAlert!Ids
  <2>2. ASSUME s \notin withdrawn', \A i \in freed' : told[s] < i
        PROVE  memory_alerts'[told[s]].serial = s
    <3>1. told[s] \notin freed' /\ s \notin withdrawn /\ \A i \in freed : told[s] < i
      BY <1>1, <2>1, <2>2
    <3> QED
      BY <1>1, <1>2, <2>1, <3>1
  <2> QED
    BY <1>1, <2>1, <2>2
<1> QED
  BY <1>1, <1>2, <1>4, <1>5, <1>6, <1>7 DEF AlertsInv

LEMMA AlertsNext == ASSUME AlertsInv, [PropertyAlert!Next]_propertyAlertVars PROVE AlertsInv'
<1>1. CASE UNCHANGED propertyAlertVars
  BY <1>1 DEF propertyAlertVars, AlertsInv, PropertyAlert!TypeOK
<1>2. ASSUME NEW email \in Emails, PropertyAlert!Create(email) PROVE AlertsInv'
  BY <1>2, AlertsCreate
<1>3. ASSUME NEW id \in PropertyAlert!Ids, NEW email \in Emails, PropertyAlert!Update(id, email)
      PROVE  AlertsInv'
  <2> DEFINE alert == [memory_alerts[id] EXCEPT !.email = email]
  <2>1. id \in DOMAIN memory_alerts /\ PropertyAlert!Replace(id, alert)
    BY <1>3 DEF PropertyAlert!Update
  <2>2. memory_alerts[id] \in PropertyAlert!Alert
    BY <2>1, AlertsTypes DEF AlertsInv
  <2>3. alert \in PropertyAlert!Alert /\ alert.serial = memory_alerts[id].serial
    BY <2>2 DEF PropertyAlert!Alert
  <2> HIDE DEF alert
  <2> QED
    BY <2>1, <2>3, AlertsReplace
<1>4. ASSUME NEW id \in PropertyAlert!Ids, PropertyAlert!Deactivate(id) PROVE AlertsInv'
  <2> DEFINE alert == [memory_alerts[id] EXCEPT !.is_active = FALSE]
  <2>1. id \in DOMAIN memory_alerts /\ PropertyAlert!Replace(id, alert)
    BY <1>4 DEF PropertyAlert!Deactivate
  <2>2. memory_alerts[id] \in PropertyAlert!Alert
    BY <2>1, AlertsTypes DEF AlertsInv
  <2>3. alert \in PropertyAlert!Alert /\ alert.serial = memory_alerts[id].serial
    BY <2>2 DEF PropertyAlert!Alert
  <2> HIDE DEF alert
  <2> QED
    BY <2>1, <2>3, AlertsReplace
<1>5. ASSUME NEW id \in PropertyAlert!Ids, PropertyAlert!Delete(id) PROVE AlertsInv'
  BY <1>5, AlertsDelete
<1> QED
  BY <1>1, <1>2, <1>3, <1>4, <1>5 DEF PropertyAlert!Next

LEMMA AlertsKept == AlertsInv => PropertyAlert!KeptUntilDeleted
<1> SUFFICES ASSUME AlertsInv, NEW s \in 1..created \ withdrawn, \A id \in freed : told[s] < id
             PROVE  /\ told[s] \in DOMAIN memory_alerts
                    /\ memory_alerts[told[s]] = wanted[s]
                    /\ wanted[s] \in PropertyAlert!Listed(wanted[s].email)
  BY DEF PropertyAlert!KeptUntilDeleted
<1>1. /\ told[s] \in DOMAIN memory_alerts \union freed /\ told[s] \in Nat
      /\ memory_alerts[told[s]].serial = s
  BY DEF AlertsInv, PropertyAlert!TypeOK, PropertyAlert!Ids
<1>2. told[s] \in DOMAIN memory_alerts
  BY <1>1
<1>3. memory_alerts[told[s]] = wanted[s]
  BY <1>1, <1>2 DEF AlertsInv
<1> QED
  BY <1>2, <1>3 DEF PropertyAlert!Listed

------------------------------------------------------------------------------
(* Bookmarks *)

\* A removal gives no row, and what is added gives all of it.
RequestSound(r, there) ==
    /\ r \in Bookmark!Request
    /\ r.do = "remove" \/ r.row \in Bookmark!Row
    /\ r.do = "add" => r.given = {"is_active", "collection"}
    /\ r.do = "update" => \A k \in r.todo : there[k] # None

\* Two requests that are under way have written different rows, and what a request has
\* written is still what it would write over the row that is there.
BookmarksInv ==
    /\ Bookmark!TypeOK
    /\ DOMAIN pending = Sessions
    /\ rows = asked
    /\ \A s \in Sessions :
         /\ op[s] # None => RequestSound(op[s], rows)
         /\ \A k \in DOMAIN pending[s] : pending[s][k] = Bookmark!Written(s, k)
         /\ \A t \in Sessions \ {s} : DOMAIN pending[s] \intersect DOMAIN pending[t] = {}

LEMMA BookmarkCardinality ==
    \A S : /\ Bookmark!Cardinality(S) = Cardinality(S)
           /\ Bookmark!IsFiniteSet(S) <=> IsFiniteSet(S)
  BY DEF Bookmark!Cardinality, Cardinality, Bookmark!IsFiniteSet, IsFiniteSet

LEMMA BookmarkCounts ==
    /\ \A S \in SUBSET Bookmark!RowKeys : Bookmark!Cardinality(S) \in Nat
    /\ Bookmark!Cardinality(Bookmark!Named) \in Nat
<1>1. IsFiniteSet(Properties)
  BY ServicesAssumption, BookmarkCardinality DEF Bookmark!BookmarksAssumption
<1>2. IsFiniteSet(Bookmark!Types)
  <2>1. IsFiniteSet({}) /\ IsFiniteSet({} \union {"favorite"})
    BY FS_EmptySet, FS_AddElement
  <2>2. IsFiniteSet(({} \union {"favorite"}) \union {"bookmark"})
    BY <2>1, FS_AddElement
  <2>3. ({} \union {"favorite"}) \union {"bookmark"} = Bookmark!Types
    BY DEF Bookmark!Types
  <2> QED
    BY <2>2, <2>3
<1>3. IsFiniteSet(Bookmark!RowKeys)
  BY <1>1, <1>2, FS_Product DEF Bookmark!RowKeys
<1>4. \A S \in SUBSET Bookmark!RowKeys : IsFiniteSet(S) /\ Bookmark!Cardinality(S) \in Nat
  BY <1>3, BookmarkCardinality, FS_Subset, FS_CardinalityType
<1>5. IsFiniteSet(Bookmark!Named) 
  <2> DEFINE keys == Bookmark!Active("bookmark")
             given == {rows[k].collection : k \in keys}
  <2>1. keys \in SUBSET Bookmark!RowKeys
    BY DEF Bookmark!Active, Bookmark!Existing, Bookmark!RowKeys, Bookmark!Types
  <2>2. IsFiniteSet(given)
    <3> HIDE DEF keys
    <3>1. IsFiniteSet(keys)
      BY <1>4, <2>1
    <3> DEFINE f == [k \in keys |-> rows[k].collection]
    <3>2. f \in Surjection(keys, given)
      BY DEF Surjection
    <3> QED
      BY <3>1, <3>2, FS_Surjection
  <2> QED
    BY <2>2, FS_Subset DEF Bookmark!Named
<1> QED
  BY <1>4, <1>5, BookmarkCardinality, FS_CardinalityType

LEMMA BookmarksInit == Bookmark!Init => BookmarksInv
<1> SUFFICES ASSUME Bookmark!Init PROVE BookmarksInv
  OBVIOUS
<1>1. DOMAIN Bookmark!NoRow = {} /\ DOMAIN Bookmark!NoCounts = {}
  BY DEF Bookmark!NoRow, Bookmark!NoCounts
<1>2. Bookmark!TypeOK
  BY <1>1, ServicesAssumption DEF Bookmark!Init, Bookmark!TypeOK, Bookmark!BookmarksAssumption
<1> QED
  BY <1>1, <1>2 DEF Bookmark!Init, BookmarksInv

\* What is written over a row, or given in full, is a row.
LEMMA OverType ==
    ASSUME NEW s \in Sessions, NEW old, RequestSound(op[s], rows), op[s].do # "remove",
           op[s].do = "update" => old \in Bookmark!Row
    PROVE  Bookmark!Over(s, old) \in Bookmark!Row
<1> DEFINE r == op[s]
<1>1. /\ r.row \in Bookmark!Row /\ r.do \in {"add", "update"}
      /\ r.given \in SUBSET {"is_active", "collection"}
      /\ r.do = "add" => r.given = {"is_active", "collection"}
  BY DEF RequestSound, Bookmark!Request
<1>2. DOMAIN r.row = {"is_active", "collection"}
  BY <1>1 DEF Bookmark!Row
<1>3. Bookmark!Over(s, old) = [f \in {"is_active", "collection"} |->
                                  IF f \in r.given THEN r.row[f] ELSE old[f]]
  BY <1>2 DEF Bookmark!Over
<1> HIDE DEF r
<1>4. /\ "is_active" \in r.given \/ old.is_active \in BOOLEAN
      /\ "collection" \in r.given \/ old.collection \in Collections \union {None}
      /\ r.row.is_active \in BOOLEAN /\ r.row.collection \in Collections \union {None}
  BY <1>1 DEF Bookmark!Row, r
<1> QED
  BY <1>3, <1>4 DEF Bookmark!Row

LEMMA BookmarksBegin ==
    ASSUME BookmarksInv, NEW s \in Sessions, NEW r, RequestSound(r, rows), Bookmark!Begin(s, r)
    PROVE  BookmarksInv'
<1>1. /\ op[s] = None /\ begun < MaxBookings /\ op' = [op EXCEPT ![s] = r] /\ begun' = begun + 1
      /\ rows' = rows /\ pending' = pending /\ counts' = counts /\ rowsChanged' = rowsChanged
      /\ asked' = asked
  BY DEF Bookmark!Begin
<1>2. /\ Bookmark!TypeOK /\ op \in [Sessions -> Bookmark!Request \union {None}]
      /\ DOMAIN pending = Sessions
      /\ begun' \in 0..MaxBookings
  BY <1>1, ServicesAssumption DEF BookmarksInv, Bookmark!TypeOK, Bookmark!BookmarksAssumption
<1>3. /\ op'[s] = r
      /\ \A t \in Sessions : t # s => op'[t] = op[t]
  BY <1>1, <1>2
<1>4. DOMAIN pending[s] = {}
  BY <1>1, <1>2 DEF Bookmark!TypeOK, Bookmark!NoRow
<1>6. Bookmark!TypeOK'
  <2>1. op' \in [Sessions -> Bookmark!Request \union {None}]
    <3>1. r \in Bookmark!Request
      BY DEF RequestSound
    <3>2. op \in [Sessions -> Bookmark!Request \union {None}]
      BY <1>2 DEF Bookmark!TypeOK
    <3> QED
      BY <1>1, <3>1, <3>2
  <2>2. \A t \in Sessions : op'[t] = None => pending'[t] = Bookmark!NoRow
    BY <1>1, <1>2, <1>3 DEF Bookmark!TypeOK
  <2> QED
    BY <1>1, <1>2, <2>1, <2>2 DEF Bookmark!TypeOK
<1>7. ASSUME NEW t \in Sessions, NEW k \in DOMAIN pending[t]
      PROVE  pending[t][k] = Bookmark!Written(t, k)'
  <2>1. op'[t] = op[t]
    BY <1>3, <1>4
  <2>2. pending[t][k] = Bookmark!Written(t, k)
    BY DEF BookmarksInv
  <2> QED
    BY <1>1, <2>1, <2>2 DEF Bookmark!Written, Bookmark!Over
<1>8. \A t \in Sessions : op'[t] # None => RequestSound(op'[t], rows')
  BY <1>1, <1>3 DEF BookmarksInv
<1>9. \A t \in Sessions, u \in Sessions : t # u => DOMAIN pending[t] \intersect DOMAIN pending[u] = {}
  BY DEF BookmarksInv
<1> QED
  BY <1>1, <1>2, <1>3, <1>6, <1>7, <1>8, <1>9, Zenon DEF BookmarksInv

\* A request is still sound without some of the rows that it had to write.
LEMMA FewerRows ==
    ASSUME NEW r, NEW there, RequestSound(r, there), NEW q \in Bookmark!Request,
           q.todo \subseteq r.todo, q.do = r.do, q.row = r.row, q.given = r.given
    PROVE  RequestSound(q, there)
  BY DEF RequestSound

LEMMA BookmarksWrite ==
    ASSUME BookmarksInv, NEW s \in Sessions, NEW k \in Bookmark!RowKeys, Bookmark!Write(s, k)
    PROVE  BookmarksInv'
<1> DEFINE w == Bookmark!Written(s, k)
           keys == DOMAIN pending[s] \union {k}
           r == [op[s] EXCEPT !.todo = @ \ {k}]
           p == [l \in keys |-> IF l = k THEN w ELSE pending[s][l]]
<1>1. /\ op[s] # None /\ k \in op[s].todo
      /\ \A t \in Sessions \ {s} : k \notin DOMAIN pending[t]
      /\ pending' = [pending EXCEPT ![s] = p] /\ op' = [op EXCEPT ![s] = r]
      /\ rows' = rows /\ counts' = counts /\ rowsChanged' = rowsChanged /\ asked' = asked
      /\ begun' = begun
  BY DEF Bookmark!Write, Bookmark!Comes
<1>2. /\ Bookmark!TypeOK /\ op \in [Sessions -> Bookmark!Request \union {None}]
      /\ DOMAIN pending = Sessions
  BY DEF BookmarksInv, Bookmark!TypeOK
<1>3. RequestSound(op[s], rows) /\ op[s] \in Bookmark!Request
  <2> HIDE DEF w, r, p
  <2>1. \A t \in Sessions : op[t] # None => RequestSound(op[t], rows)
    BY DEF BookmarksInv
  <2>2. RequestSound(op[s], rows)
    BY <1>1, <2>1
  <2> QED
    BY <2>2 DEF RequestSound
<1>4. /\ RequestSound(r, rows) /\ r \in Bookmark!Request
      /\ r.do = op[s].do /\ r.row = op[s].row /\ r.given = op[s].given
  <2>1. /\ r \in Bookmark!Request /\ r.todo \subseteq op[s].todo
        /\ r.do = op[s].do /\ r.row = op[s].row /\ r.given = op[s].given
    <3> HIDE DEF w, p
    <3> QED
      BY <1>3 DEF Bookmark!Request
  <2> HIDE DEF r
  <2>2. RequestSound(r, rows)
    BY <1>3, <2>1, FewerRows
  <2> QED
    BY <2>1, <2>2
<1>5. w \in Bookmark!Row \union {None}
  <2>1. CASE op[s].do = "remove"
    BY <2>1 DEF Bookmark!Written
  <2>2. CASE op[s].do # "remove"
    <3>1. op[s].do = "update" => rows[k] \in Bookmark!Row
      <4> HIDE DEF w, r, p
      <4>1. rows[k] \in Bookmark!Row \union {None}
        BY <1>2 DEF Bookmark!TypeOK
      <4> QED
        BY <1>1, <1>3, <4>1, Zenon DEF RequestSound
    <3> QED
      BY <1>3, <2>2, <3>1, OverType DEF Bookmark!Written
  <2> QED
    BY <2>1, <2>2
<1> HIDE DEF w, r
<1>6. /\ op'[s] = r /\ pending'[s] = p
      /\ \A t \in Sessions : t # s => op'[t] = op[t] /\ pending'[t] = pending[t]
      /\ DOMAIN pending' = Sessions /\ op' \in [Sessions -> Bookmark!Request \union {None}]
  BY <1>1, <1>2, <1>4
<1>7. \A t \in Sessions, l \in Bookmark!RowKeys :
          Bookmark!Written(t, l)' = Bookmark!Written(t, l)
  BY <1>1, <1>4, <1>6 DEF Bookmark!Written, Bookmark!Over
<1>8. /\ DOMAIN p = keys /\ p[k] = w /\ keys \subseteq Bookmark!RowKeys
      /\ \A l \in DOMAIN pending[s] : l # k => p[l] = pending[s][l]
  BY <1>2 DEF Bookmark!TypeOK
<1> HIDE DEF p
<1>9. Bookmark!TypeOK'
  <2>1. ASSUME NEW t \in Sessions
        PROVE  /\ op'[t] = None => pending'[t] = Bookmark!NoRow
               /\ DOMAIN pending'[t] \subseteq Bookmark!RowKeys
               /\ \A l \in DOMAIN pending'[t] : pending'[t][l] \in Bookmark!Row \union {None}
    <3>1. CASE t = s
      <4>1. r # None
        BY <1>4, ServicesAssumption DEF Bookmark!BookmarksAssumption
      <4>2. \A l \in keys : p[l] \in Bookmark!Row \union {None}
        BY <1>2, <1>5, <1>8 DEF Bookmark!TypeOK
      <4> QED
        BY <1>6, <1>8, <3>1, <4>1, <4>2
    <3>2. CASE t # s
      BY <1>2, <1>6, <3>2 DEF Bookmark!TypeOK
    <3> QED
      BY <3>1, <3>2
  <2> QED
    BY <1>1, <1>2, <1>6, <2>1 DEF Bookmark!TypeOK
<1>10. ASSUME NEW t \in Sessions
       PROVE  /\ op'[t] # None => RequestSound(op'[t], rows')
              /\ \A l \in DOMAIN pending'[t] : pending'[t][l] = Bookmark!Written(t, l)'
              /\ \A u \in Sessions \ {t} : DOMAIN pending'[t] \intersect DOMAIN pending'[u] = {}
  <2>1. op'[t] # None => RequestSound(op'[t], rows')
    BY <1>1, <1>4, <1>6 DEF BookmarksInv
  <2>2. ASSUME NEW l \in DOMAIN pending'[t] PROVE pending'[t][l] = Bookmark!Written(t, l)
    <3>1. CASE t = s
      BY <1>6, <1>8, <2>2, <3>1 DEF BookmarksInv, w
    <3>2. CASE t # s
      BY <1>6, <2>2, <3>2 DEF BookmarksInv
    <3> QED
      BY <3>1, <3>2
  <2>3. \A u \in Sessions \ {t} : DOMAIN pending[t] \intersect DOMAIN pending[u] = {}
    BY DEF BookmarksInv
  <2>4. \A u \in Sessions \ {t} : DOMAIN pending'[t] \intersect DOMAIN pending'[u] = {}
    BY <1>1, <1>6, <1>8, <2>3
  <2>5. DOMAIN pending'[t] \subseteq Bookmark!RowKeys
    BY <1>9 DEF Bookmark!TypeOK
  <2> QED
    BY <1>7, <2>1, <2>2, <2>4, <2>5
<1> QED
  BY <1>1, <1>6, <1>9, <1>10, Zenon DEF BookmarksInv

LEMMA BookmarksRollback ==
    ASSUME BookmarksInv, NEW s \in Sessions, Bookmark!Rollback(s)
    PROVE  BookmarksInv'
<1>1. /\ op' = [op EXCEPT ![s] = None] /\ pending' = [pending EXCEPT ![s] = Bookmark!NoRow]
      /\ rows' = rows /\ counts' = counts /\ rowsChanged' = rowsChanged /\ asked' = asked
      /\ begun' = begun
  BY DEF Bookmark!Rollback
<1>2. /\ Bookmark!TypeOK /\ op \in [Sessions -> Bookmark!Request \union {None}]
      /\ DOMAIN pending = Sessions
  BY DEF BookmarksInv, Bookmark!TypeOK
<1>3. /\ op'[s] = None /\ pending'[s] = Bookmark!NoRow
      /\ \A t \in Sessions : t # s => op'[t] = op[t] /\ pending'[t] = pending[t]
      /\ DOMAIN pending' = Sessions /\ op' \in [Sessions -> Bookmark!Request \union {None}]
      /\ DOMAIN Bookmark!NoRow = {}
  BY <1>1, <1>2 DEF Bookmark!NoRow
<1>4. Bookmark!TypeOK'
  BY <1>1, <1>2, <1>3 DEF Bookmark!TypeOK
<1>5. ASSUME NEW t \in Sessions
       PROVE  /\ op'[t] # None => RequestSound(op'[t], rows')
              /\ \A l \in DOMAIN pending'[t] : pending'[t][l] = Bookmark!Written(t, l)'
              /\ \A u \in Sessions \ {t} : DOMAIN pending'[t] \intersect DOMAIN pending'[u] = {}
  <2>1. op'[t] # None => RequestSound(op'[t], rows')
    BY <1>1, <1>3 DEF BookmarksInv
  <2>2. ASSUME NEW l \in DOMAIN pending'[t] PROVE pending'[t][l] = Bookmark!Written(t, l)'
    <3>1. t # s /\ op'[t] = op[t] /\ pending'[t] = pending[t]
      BY <1>3, <2>2
    <3>2. pending[t][l] = Bookmark!Written(t, l)
      BY <2>2, <3>1 DEF BookmarksInv
    <3> QED
      BY <1>1, <3>1, <3>2 DEF Bookmark!Written, Bookmark!Over
  <2>3. \A u \in Sessions \ {t} : DOMAIN pending'[t] \intersect DOMAIN pending'[u] = {}
    BY <1>3 DEF BookmarksInv
  <2> QED
    BY <2>1, <2>2, <2>3
<1> QED
  BY <1>1, <1>3, <1>4, <1>5, Zenon DEF BookmarksInv

LEMMA BookmarksCommit ==
    ASSUME BookmarksInv, NEW s \in Sessions, Bookmark!Commit(s)
    PROVE  BookmarksInv'
<1> DEFINE keys == DOMAIN pending[s]
           removed == {k \in keys : pending[s][k] = None}
<1>1. /\ op[s] # None /\ op[s].todo = {}
      /\ rows' = [k \in Bookmark!RowKeys |-> IF k \in keys THEN pending[s][k] ELSE rows[k]]
      /\ asked' = [k \in Bookmark!RowKeys |->
                       IF k \in removed THEN None
                       ELSE IF k \in keys THEN Bookmark!Over(s, asked[k]) ELSE asked[k]]
      /\ op' = [t \in Sessions |-> IF t = s THEN None ELSE Bookmark!Without(op[t], removed)]
      /\ rowsChanged' = IF counts = Bookmark!NoCounts THEN 0
                        ELSE rowsChanged + Bookmark!Cardinality(keys)
      /\ pending' = [pending EXCEPT ![s] = Bookmark!NoRow]
      /\ counts' = counts /\ begun' = begun
  BY DEF Bookmark!Commit
<1>2. /\ Bookmark!TypeOK /\ op \in [Sessions -> Bookmark!Request \union {None}]
      /\ DOMAIN pending = Sessions /\ rows = asked /\ rows \in [Bookmark!RowKeys -> Bookmark!Row \union {None}]
      /\ keys \subseteq Bookmark!RowKeys
      /\ \A k \in keys : pending[s][k] \in Bookmark!Row \union {None}
      /\ \A k \in keys : pending[s][k] = Bookmark!Written(s, k)
      /\ \A t \in Sessions \ {s} : DOMAIN pending[t] \intersect keys = {}
  BY DEF BookmarksInv, Bookmark!TypeOK
<1>3. rows' = asked'
  <2>1. ASSUME NEW k \in keys, k \notin removed PROVE pending[s][k] = Bookmark!Over(s, asked[k])
    BY <1>2, <2>1 DEF Bookmark!Written
  <2> QED
    BY <1>1, <1>2, <2>1
<1>4. /\ pending'[s] = Bookmark!NoRow /\ DOMAIN Bookmark!NoRow = {} /\ op'[s] = None
      /\ \A t \in Sessions \ {s} :
             pending'[t] = pending[t] /\ op'[t] = Bookmark!Without(op[t], removed)
      /\ DOMAIN pending' = Sessions
  BY <1>1, <1>2 DEF Bookmark!NoRow
<1>5. rows' \in [Bookmark!RowKeys -> Bookmark!Row \union {None}]
  BY <1>1, <1>2
<1>6. ASSUME NEW t \in Sessions \ {s}
      PROVE  /\ op[t] = None => op'[t] = None
             /\ op[t] # None => /\ op'[t] # None /\ RequestSound(op'[t], rows')
                               /\ op'[t].do = op[t].do /\ op'[t].row = op[t].row
                               /\ op'[t].given = op[t].given
  <2>1. CASE op[t] = None
    BY <1>4, <2>1 DEF Bookmark!Without
  <2>2. CASE op[t] # None
    <3>1. RequestSound(op[t], rows) /\ op[t] \in Bookmark!Request
      BY <1>2, <2>2 DEF BookmarksInv
    <3>2. CASE op[t].do = "add"
      <4>1. op'[t] = op[t]
        BY <1>4, <3>2 DEF Bookmark!Without
      <4> QED
        BY <2>2, <3>1, <3>2, <4>1 DEF RequestSound
    <3>3. CASE op[t].do # "add"
      <4> DEFINE q == [op[t] EXCEPT !.todo = @ \ removed]
      <4>1. op'[t] = q
        BY <1>4, <2>2, <3>3 DEF Bookmark!Without
      <4>2. /\ q \in Bookmark!Request /\ q.todo = op[t].todo \ removed
            /\ q.do = op[t].do /\ q.row = op[t].row /\ q.given = op[t].given
        <5> HIDE DEF removed
        <5> QED
          BY <3>1 DEF Bookmark!Request
      <4> HIDE DEF q, removed
      <4>3. RequestSound(q, rows)
        BY <3>1, <4>2, FewerRows
      <4>4. q \in Bookmark!Request /\ q # None
        BY <4>2, ServicesAssumption DEF Bookmark!BookmarksAssumption
      <4>5. ASSUME NEW k \in q.todo, rows[k] # None PROVE rows'[k] # None
        <5>1. k \in Bookmark!RowKeys /\ k \notin removed
          BY <4>2 DEF Bookmark!Request
        <5> QED
          BY <1>1, <4>5, <5>1 DEF removed
      <4>6. RequestSound(q, rows')
        BY <4>3, <4>5 DEF RequestSound
      <4> QED
        BY <2>2, <4>1, <4>2, <4>4, <4>6
    <3> QED
      BY <3>2, <3>3
  <2> QED
    BY <2>1, <2>2
<1>7. Bookmark!TypeOK'
  <2>1. op' \in [Sessions -> Bookmark!Request \union {None}]
    <3>1. \A t \in Sessions : op'[t] \in Bookmark!Request \union {None}
      BY <1>4, <1>6 DEF RequestSound
    <3> QED
      BY <1>1, <3>1
  <2>2. rowsChanged' \in Nat
    <3>1. rowsChanged \in Nat /\ Bookmark!Cardinality(keys) \in Nat
      BY <1>2, BookmarkCounts DEF Bookmark!TypeOK
    <3> QED
      BY <1>1, <3>1
  <2>3. ASSUME NEW t \in Sessions
        PROVE  /\ op'[t] = None => pending'[t] = Bookmark!NoRow
               /\ DOMAIN pending'[t] \subseteq Bookmark!RowKeys
               /\ \A l \in DOMAIN pending'[t] : pending'[t][l] \in Bookmark!Row \union {None}
    BY <1>2, <1>4, <1>6 DEF Bookmark!TypeOK
  <2>4. {rows', asked'} \subseteq [Bookmark!RowKeys -> Bookmark!Row \union {None}]
    BY <1>3, <1>5
  <2>5. begun' \in 0..MaxBookings /\ \A c \in DOMAIN counts' : counts'[c] \in Nat
    BY <1>1, <1>2 DEF Bookmark!TypeOK
  <2> QED
    BY <2>1, <2>2, <2>3, <2>4, <2>5 DEF Bookmark!TypeOK
<1>8. ASSUME NEW t \in Sessions
      PROVE  /\ op'[t] # None => RequestSound(op'[t], rows')
             /\ \A l \in DOMAIN pending'[t] : pending'[t][l] = Bookmark!Written(t, l)'
             /\ \A u \in Sessions \ {t} : DOMAIN pending'[t] \intersect DOMAIN pending'[u] = {}
  <2>1. op'[t] # None => RequestSound(op'[t], rows')
    BY <1>4, <1>6
  <2>2. ASSUME NEW l \in DOMAIN pending'[t] PROVE pending'[t][l] = Bookmark!Written(t, l)'
    <3>1. t # s /\ pending'[t] = pending[t] /\ l \in DOMAIN pending[t]
      BY <1>4, <2>2
    <3>2. l \in Bookmark!RowKeys /\ l \notin keys /\ op[t] # None
      BY <1>2, <3>1 DEF Bookmark!TypeOK, Bookmark!NoRow
    <3>3. rows'[l] = rows[l]
      BY <1>1, <3>2
    <3>4. pending[t][l] = Bookmark!Written(t, l)
      BY <3>1 DEF BookmarksInv
    <3> QED
      BY <1>6, <3>1, <3>2, <3>3, <3>4 DEF Bookmark!Written, Bookmark!Over
  <2>3. \A u \in Sessions \ {t} : DOMAIN pending'[t] \intersect DOMAIN pending'[u] = {}
    BY <1>4 DEF BookmarksInv
  <2> QED
    BY <2>1, <2>2, <2>3
<1> QED
  BY <1>3, <1>4, <1>7, <1>8, Zenon DEF BookmarksInv

LEMMA BookmarksCount ==
    ASSUME BookmarksInv,
           \/ Bookmark!CountFavorites \/ Bookmark!CountBookmarks
           \/ Bookmark!CountCollections \/ Bookmark!CountCities \/ Bookmark!Answer
    PROVE  BookmarksInv'
<1>1. /\ \A c \in DOMAIN counts' : counts'[c] \in Nat
      /\ rowsChanged' \in Nat
      /\ rows' = rows /\ op' = op /\ pending' = pending /\ asked' = asked /\ begun' = begun
  <2>1. /\ \A c \in DOMAIN counts : counts[c] \in Nat
        /\ rowsChanged \in Nat
    BY DEF BookmarksInv, Bookmark!TypeOK
  <2>2. \A type \in Bookmark!Types : Bookmark!Active(type) \in SUBSET Bookmark!RowKeys
    BY DEF Bookmark!Active, Bookmark!Existing, Bookmark!RowKeys
  <2>3. /\ Bookmark!Cardinality(Bookmark!Active("favorite")) \in Nat
        /\ Bookmark!Cardinality(Bookmark!Active("bookmark")) \in Nat
        /\ Bookmark!Cardinality(Bookmark!Named) \in Nat
    BY <2>2, BookmarkCounts DEF Bookmark!Types
  <2>4. ASSUME NEW c, NEW n \in Nat, Bookmark!Count(c, n)
        PROVE  /\ \A d \in DOMAIN counts' : counts'[d] \in Nat
               /\ rows' = rows /\ op' = op /\ pending' = pending /\ asked' = asked
               /\ rowsChanged' = rowsChanged /\ begun' = begun
    BY <2>1, <2>4 DEF Bookmark!Count
  <2>5. CASE Bookmark!Answer
    BY <2>5 DEF Bookmark!Answer, Bookmark!NoCounts
  <2>6. CASE ~Bookmark!Answer
    <3>1. \E c, n : n \in Nat /\ Bookmark!Count(c, n)
      BY <2>3, <2>6 DEF Bookmark!CountFavorites, Bookmark!CountBookmarks,
                        Bookmark!CountCollections, Bookmark!CountCities
    <3> QED
      BY <2>1, <2>4, <3>1
  <2> QED
    BY <2>5, <2>6
<1>2. \A t \in Sessions : \A l : Bookmark!Written(t, l)' = Bookmark!Written(t, l)
  BY <1>1 DEF Bookmark!Written, Bookmark!Over
<1> QED
  BY <1>1, <1>2 DEF BookmarksInv, Bookmark!TypeOK

LEMMA BookmarksRequest ==
    ASSUME BookmarksInv, NEW s \in Sessions,
           \/ \E p \in Properties : Bookmark!AddBookmark(s, p) \/ Bookmark!UpdateBookmark(s, p)
           \/ \E k \in Bookmark!RowKeys : Bookmark!RemoveBookmark(s, k)
    PROVE  BookmarksInv'
<1> SUFFICES \E r : RequestSound(r, rows) /\ Bookmark!Begin(s, r)
  BY BookmarksBegin
<1>1. rows \in [Bookmark!RowKeys -> Bookmark!Row \union {None}]
  BY DEF BookmarksInv, Bookmark!TypeOK
<1>2. ASSUME NEW p \in Properties, Bookmark!AddBookmark(s, p)
      PROVE  \E r : RequestSound(r, rows) /\ Bookmark!Begin(s, r)
  <2>1. PICK collection \in Collections \union {None} :
            Bookmark!Begin(s, [do |-> "add", given |-> {"is_active", "collection"},
                todo |-> {<<p, IF collection = None THEN "favorite" ELSE "bookmark">>},
                row |-> [is_active |-> TRUE, collection |-> collection], seen |-> Bookmark!NoRow])
    BY <1>2 DEF Bookmark!AddBookmark
  <2>2. /\ {<<p, IF collection = None THEN "favorite" ELSE "bookmark">>} \in SUBSET Bookmark!RowKeys
        /\ [is_active |-> TRUE, collection |-> collection] \in Bookmark!Row
    BY DEF Bookmark!RowKeys, Bookmark!Types, Bookmark!Row
  <2>3. RequestSound([do |-> "add", given |-> {"is_active", "collection"},
                todo |-> {<<p, IF collection = None THEN "favorite" ELSE "bookmark">>},
                row |-> [is_active |-> TRUE, collection |-> collection], seen |-> Bookmark!NoRow], rows)
    BY <2>2 DEF RequestSound, Bookmark!Request
  <2> QED
    BY <2>1, <2>3
<1>3. ASSUME NEW p \in Properties, Bookmark!UpdateBookmark(s, p)
      PROVE  \E r : RequestSound(r, rows) /\ Bookmark!Begin(s, r)
  <2>1. PICK given \in {{"is_active"}, {"collection"}},
             row \in [is_active : BOOLEAN, collection : Collections] :
            Bookmark!Begin(s, [do |-> "update", todo |-> Bookmark!Existing({p} \X Bookmark!Types),
                               given |-> given, row |-> row, seen |-> rows])
    BY <1>3 DEF Bookmark!UpdateBookmark
  <2> DEFINE todo == Bookmark!Existing({p} \X Bookmark!Types)
  <2>2. todo \in SUBSET Bookmark!RowKeys /\ row \in Bookmark!Row /\ \A k \in todo : rows[k] # None
    BY DEF Bookmark!Existing, Bookmark!RowKeys, Bookmark!Row
  <2> HIDE DEF todo
  <2>3. RequestSound([do |-> "update", todo |-> todo, given |-> given, row |-> row,
                      seen |-> rows], rows)
    BY <1>1, <2>2 DEF RequestSound, Bookmark!Request
  <2> QED
    BY <2>1, <2>3 DEF todo
<1>4. ASSUME NEW k \in Bookmark!RowKeys, Bookmark!RemoveBookmark(s, k)
      PROVE  \E r : RequestSound(r, rows) /\ Bookmark!Begin(s, r)
  <2> DEFINE todo == Bookmark!Existing({k})
  <2>1. todo \in SUBSET Bookmark!RowKeys
    BY DEF Bookmark!Existing
  <2> HIDE DEF todo
  <2>2. RequestSound([do |-> "remove", todo |-> todo, given |-> {}, row |-> None,
                      seen |-> Bookmark!NoRow], rows)
    BY <2>1 DEF RequestSound, Bookmark!Request
  <2> QED
    BY <1>4, <2>2 DEF todo, Bookmark!RemoveBookmark
<1> QED
  BY <1>2, <1>3, <1>4

LEMMA BookmarksNext == ASSUME BookmarksInv, [Bookmark!Next]_bookmarkVars PROVE BookmarksInv'
<1>1. CASE UNCHANGED bookmarkVars
  <2>1. \A t \in Sessions : \A l : Bookmark!Written(t, l)' = Bookmark!Written(t, l)
    BY <1>1 DEF bookmarkVars, Bookmark!Written, Bookmark!Over
  <2> QED
    BY <1>1, <2>1 DEF bookmarkVars, BookmarksInv, Bookmark!TypeOK
<1>2. CASE \/ Bookmark!CountFavorites \/ Bookmark!CountBookmarks
           \/ Bookmark!CountCollections \/ Bookmark!CountCities \/ Bookmark!Answer
  BY <1>2, BookmarksCount
<1>3. ASSUME NEW s \in Sessions,
             \/ \E p \in Properties : Bookmark!AddBookmark(s, p) \/ Bookmark!UpdateBookmark(s, p)
             \/ \E k \in Bookmark!RowKeys : Bookmark!RemoveBookmark(s, k) \/ Bookmark!Write(s, k)
             \/ Bookmark!Rollback(s) \/ Bookmark!Commit(s)
      PROVE  BookmarksInv'
  BY <1>3, BookmarksRequest, BookmarksWrite, BookmarksRollback, BookmarksCommit
<1> QED
  BY <1>1, <1>2, <1>3 DEF Bookmark!Next

LEMMA BookmarksKept == BookmarksInv => Bookmark!FieldsAsLastSet
  BY DEF BookmarksInv, Bookmark!FieldsAsLastSet

------------------------------------------------------------------------------
(* The concatenation of the lists of a sequence *)

Less == OpToRel(<, Nat)

\* Induction up to a bound, from the library's WFMin.
LEMMA InductionTo ==
    ASSUME NEW n \in Nat, NEW T, 0 \in T, \A i \in 0..(n - 1) : i \in T => i + 1 \in T
    PROVE  n \in T
<1> DEFINE U == {i \in 0..n : i \notin T}
<1> SUFFICES ASSUME n \notin T PROVE FALSE
  OBVIOUS
<1>1. n \in U /\ U \subseteq Nat
  OBVIOUS
<1>2. IsWellFoundedOn(Less, Nat)
  BY NatLessThanWellFounded, Zenon DEF Less
<1> HIDE DEF U
<1>3. PICK i \in U : \A j \in U : ~(<<j, i>> \in Less)
  BY <1>1, <1>2, WFMin
<1>4. i \in 0..n /\ i \notin T /\ i # 0 /\ i - 1 \in 0..(n - 1)
  BY DEF U
<1>5. i - 1 \in T
  <2>1. SUFFICES ASSUME i - 1 \notin T PROVE FALSE
    OBVIOUS
  <2>2. i - 1 \in U /\ i - 1 \in Nat /\ i \in Nat /\ i - 1 < i
    BY <1>4, <2>1 DEF U
  <2> QED
    BY <1>3, <2>2 DEF Less, OpToRel
<1>6. (i - 1) + 1 = i
  BY <1>4
<1> QED
  BY <1>4, <1>5, <1>6

(* AuditLog *)

\* The recursion in FlattenSeq.
FlattenedBy(g, s, n, R) ==
    /\ g \in [1..n -> Seq(R)]
    /\ \A i \in 1..n : g[i] = IF i = 1 THEN s[i] ELSE g[i - 1] \o s[i]

LEMMA FlattenUnfolds ==
    ASSUME NEW R, NEW n \in Nat \ {0}, NEW s \in [1..n -> Seq(R)]
    PROVE  \E g : FlattenedBy(g, s, n, R) /\ Audit!FlattenSeq(s) = g[n]
<1> DEFINE T == {m \in 0..n : \E g : FlattenedBy(g, s, m, R)}
           h[i \in 1..n] == IF i = 1 THEN s[i] ELSE h[i - 1] \o s[i]
<1>1. Len(s) = n /\ n # 0
  BY SeqDef
<1>2. Audit!FlattenSeq(s) = h[n]
  BY <1>1 DEF Audit!FlattenSeq
<1>3. 0 \in T
  <2>1. FlattenedBy([i \in 1..0 |-> << >>], s, 0, R)
    BY DEF FlattenedBy
  <2> QED
    BY <2>1
<1>4. ASSUME NEW m \in 0..(n - 1), m \in T PROVE m + 1 \in T
  <2>1. PICK g : FlattenedBy(g, s, m, R)
    BY <1>4
  <2> DEFINE f == [i \in 1..(m + 1) |-> IF i = 1 THEN s[i] ELSE
                                        IF i = m + 1 THEN g[m] \o s[i] ELSE g[i]]
  <2>2. ASSUME NEW i \in 1..(m + 1)
        PROVE  f[i] \in Seq(R) /\ f[i] = IF i = 1 THEN s[i] ELSE f[i - 1] \o s[i]
    <3>1. s[i] \in Seq(R)
      OBVIOUS
    <3>2. CASE i = 1
      BY <3>1, <3>2
    <3>3. CASE i # 1
      <4>1. /\ i - 1 \in 1..m /\ i - 1 \in 1..(m + 1) /\ i - 1 # m + 1
            /\ (i # m + 1 => i \in 1..m) /\ (i = m + 1 => i - 1 = m)
        BY <3>3
      <4>2. f[i - 1] = g[i - 1]
        BY <2>1, <4>1 DEF FlattenedBy
      <4>3. g[i - 1] \in Seq(R) /\ (i # m + 1 => g[i] = g[i - 1] \o s[i])
        <5> HIDE DEF f
        <5>1. g \in [1..m -> Seq(R)]
          BY <2>1 DEF FlattenedBy
        <5>2. i # m + 1 => g[i] = IF i = 1 THEN s[i] ELSE g[i - 1] \o s[i]
          BY <2>1, <4>1 DEF FlattenedBy
        <5> QED
          BY <3>3, <4>1, <5>1, <5>2
      <4>4. f[i] = g[i - 1] \o s[i]
        <5>1. f[i] = IF i = m + 1 THEN g[m] \o s[i] ELSE g[i]
          BY <3>3
        <5> HIDE DEF f
        <5>2. CASE i = m + 1
          <6>1. g[m] = g[i - 1]
            BY <4>1, <5>2
          <6> QED
            BY <5>1, <5>2, <6>1
        <5>3. CASE i # m + 1
          BY <4>3, <5>1, <5>3
        <5> QED
          BY <5>2, <5>3
      <4> HIDE DEF f
      <4>5. g[i - 1] \o s[i] \in Seq(R)
        BY <3>1, <4>3
      <4> QED
        BY <3>3, <4>2, <4>4, <4>5
    <3> QED
      BY <3>2, <3>3
  <2>3. f = [i \in 1..(m + 1) |-> f[i]]
    OBVIOUS
  <2> HIDE DEF f
  <2>4. FlattenedBy(f, s, m + 1, R)
    BY <2>2, <2>3 DEF FlattenedBy
  <2> QED
    BY <2>4
<1>5. n \in T
  <2> HIDE DEF T
  <2> QED
    BY <1>3, <1>4, InductionTo
<1>6. PICK g : FlattenedBy(g, s, n, R)
  BY <1>5
<1>7. g = [i \in 1..n |-> IF i = 1 THEN s[i] ELSE g[i - 1] \o s[i]]
  BY <1>6 DEF FlattenedBy
<1>8. h = [i \in 1..n |-> IF i = 1 THEN s[i] ELSE h[i - 1] \o s[i]]
  BY <1>7, Zenon
<1> HIDE DEF h, T
<1>9. h \in [1..n -> Seq(R)]
  <2> DEFINE S == {m \in 0..n : m = 0 \/ h[m] \in Seq(R)}
  <2>1. ASSUME NEW m \in 0..(n - 1), m \in S PROVE m + 1 \in S
    <3>1. m + 1 \in 1..n /\ (m + 1) - 1 = m /\ (m + 1 = 1 <=> m = 0)
      OBVIOUS
    <3>2. h[m + 1] = IF m = 0 THEN s[m + 1] ELSE h[m] \o s[m + 1]
      BY <1>8, <3>1
    <3>3. s[m + 1] \in Seq(R)
      BY <3>1
    <3>4. h[m + 1] \in Seq(R)
      BY <2>1, <3>2, <3>3
    <3> QED
      BY <3>1, <3>4
  <2>2. ASSUME NEW i \in 1..n PROVE h[i] \in Seq(R)
    <3>1. i \in Nat /\ 0 \in S /\ \A m \in 0..(i - 1) : m \in 0..(n - 1)
      OBVIOUS
    <3> HIDE DEF S
    <3>2. i \in S
      BY <2>1, <3>1, InductionTo
    <3> QED
      BY <3>2 DEF S
  <2> QED
    BY <1>8, <2>2
<1>10. FlattenedBy(h, s, n, R)
  BY <1>8, <1>9 DEF FlattenedBy
<1> QED
  BY <1>2, <1>10

\* The same, from an empty list on.
RunsThrough(g, s, n, R) ==
    /\ g \in [0..n -> Seq(R)]
    /\ g[0] = << >>
    /\ \A i \in 1..n : g[i] = g[i - 1] \o s[i]

LEMMA FlattenRuns ==
    ASSUME NEW R, NEW n \in Nat, NEW s \in [1..n -> Seq(R)]
    PROVE  \E g : RunsThrough(g, s, n, R) /\ Audit!FlattenSeq(s) = g[n]
<1>1. CASE n = 0
  <2> DEFINE g == [i \in 0..0 |-> << >>]
  <2>1. Len(s) = 0 /\ s = << >>
    BY <1>1, SeqDef
  <2>2. Audit!FlattenSeq(s) = s
    BY <2>1 DEF Audit!FlattenSeq
  <2>3. RunsThrough(g, s, 0, R) /\ g[0] = << >>
    BY DEF RunsThrough
  <2> QED
    BY <1>1, <2>1, <2>2, <2>3
<1>2. CASE n # 0
  <2>1. PICK f : FlattenedBy(f, s, n, R) /\ Audit!FlattenSeq(s) = f[n]
    BY <1>2, FlattenUnfolds
  <2> DEFINE g == [i \in 0..n |-> IF i = 0 THEN << >> ELSE f[i]]
  <2>2. g \in [0..n -> Seq(R)] /\ g[0] = << >> /\ g[n] = f[n]
    <3>1. \A i \in 0..n : i = 0 \/ i \in 1..n
      OBVIOUS
    <3>2. << >> \in Seq(R) /\ 0 \in 0..n /\ n \in 0..n
      OBVIOUS
    <3>3. \A i \in 1..n : f[i] \in Seq(R)
      BY <2>1 DEF FlattenedBy
    <3> QED
      BY <1>2, <3>1, <3>2, <3>3
  <2>3. ASSUME NEW i \in 1..n PROVE g[i] = g[i - 1] \o s[i]
    <3>1. i # 0 /\ i \in 0..n /\ i - 1 \in 0..n /\ s[i] \in Seq(R) /\ (i = 1 <=> i - 1 = 0)
      OBVIOUS
    <3>2. f[i] = IF i = 1 THEN s[i] ELSE f[i - 1] \o s[i]
      BY <2>1 DEF FlattenedBy
    <3>3. g[i] = f[i] /\ g[i - 1] = IF i = 1 THEN << >> ELSE f[i - 1]
      BY <3>1
    <3> HIDE DEF g
    <3>4. << >> \o s[i] = s[i]
      BY <3>1, ConcatEmptySeq
    <3>5. CASE i = 1
      BY <3>2, <3>3, <3>4, <3>5
    <3>6. CASE i # 1
      BY <3>2, <3>3, <3>6
    <3> QED
      BY <3>5, <3>6
  <2> HIDE DEF g
  <2> QED
    BY <2>1, <2>2, <2>3 DEF RunsThrough
<1> QED
  BY <1>1, <1>2

LEMMA Concatenation ==
    ASSUME NEW R, NEW s \in Seq(R), NEW t \in Seq(R)
    PROVE  /\ s \o t \in Seq(R) /\ Len(s \o t) = Len(s) + Len(t)
           /\ Len(s) \in Nat /\ Len(t) \in Nat
           /\ Audit!ToSet(s \o t) = Audit!ToSet(s) \union Audit!ToSet(t)
<1> DEFINE u == s \o t
<1>1. /\ u \in Seq(R) /\ Len(u) = Len(s) + Len(t) /\ Len(s) \in Nat /\ Len(t) \in Nat
      /\ \A i \in 1..(Len(s) + Len(t)) : u[i] = IF i <= Len(s) THEN s[i] ELSE t[i - Len(s)]
  BY ConcatProperties, LenProperties
<1>2. DOMAIN u = 1..Len(u) /\ DOMAIN s = 1..Len(s) /\ DOMAIN t = 1..Len(t)
  BY <1>1, LenProperties
<1> HIDE DEF u
<1>3. ASSUME NEW i \in DOMAIN u PROVE u[i] \in Audit!ToSet(s) \union Audit!ToSet(t)
  <2>1. CASE i <= Len(s)
    <3>1. i \in DOMAIN s /\ u[i] = s[i]
      BY <1>1, <1>2, <2>1
    <3> QED
      BY <3>1 DEF Audit!ToSet
  <2>2. CASE ~(i <= Len(s))
    <3>1. i - Len(s) \in DOMAIN t /\ u[i] = t[i - Len(s)]
      BY <1>1, <1>2, <2>2
    <3> QED
      BY <3>1 DEF Audit!ToSet
  <2> QED
    BY <2>1, <2>2
<1>4. ASSUME NEW i \in DOMAIN s PROVE s[i] \in Audit!ToSet(u)
  <2>1. i \in DOMAIN u /\ u[i] = s[i]
    BY <1>1, <1>2
  <2> QED
    BY <2>1 DEF Audit!ToSet
<1>5. ASSUME NEW i \in DOMAIN t PROVE t[i] \in Audit!ToSet(u)
  <2>1. Len(s) + i \in DOMAIN u /\ u[Len(s) + i] = t[i]
    BY <1>1, <1>2
  <2> QED
    BY <2>1 DEF Audit!ToSet
<1>6. Audit!ToSet(u) = Audit!ToSet(s) \union Audit!ToSet(t)
  BY <1>3, <1>4, <1>5 DEF Audit!ToSet
<1> QED
  BY <1>1, <1>6 DEF u

\* x is y with t in it, from the w-th list on, and nothing but t if no other list has any.
Inserts(x, y, t, w, i, others) ==
    /\ w <= i => /\ Len(x) = Len(y) + Len(t)
                 /\ Audit!ToSet(x) = Audit!ToSet(y) \union Audit!ToSet(t)
                 /\ others = {} => x = t
    /\ i < w => Len(x) = Len(y) /\ Audit!ToSet(x) = Audit!ToSet(y) /\ (others = {} => x = << >>)

LEMMA InsertsHere ==
    ASSUME NEW R, NEW x \in Seq(R), NEW y \in Seq(R), NEW t \in Seq(R), NEW others,
           NEW w \in Nat, NEW i \in Nat, w = i + 1,
           Inserts(x, y, t, w, i, others)
    PROVE  Inserts(x \o t, y \o << >>, t, w, w, others)
<1>1. Len(x) = Len(y) /\ Audit!ToSet(x) = Audit!ToSet(y) /\ (others = {} => x = << >>)
  BY DEF Inserts
<1>2. y \o << >> = y /\ << >> \o t = t
  BY ConcatEmptySeq
<1>3. Len(x \o t) = Len(x) + Len(t) /\ Audit!ToSet(x \o t) = Audit!ToSet(x) \union Audit!ToSet(t)
  BY Concatenation
<1>4. others = {} => x \o t = t
  BY <1>1, <1>2
<1> QED
  BY <1>1, <1>2, <1>3, <1>4 DEF Inserts

LEMMA InsertsOn ==
    ASSUME NEW R, NEW x \in Seq(R), NEW y \in Seq(R), NEW t \in Seq(R), NEW u \in Seq(R),
           NEW others, NEW w \in Nat, NEW i \in Nat, NEW j \in Nat, j = i + 1, w # j,
           Inserts(x, y, t, w, i, others), others = {} => u = << >>
    PROVE  Inserts(x \o u, y \o u, t, w, j, others)
<1>1. /\ Len(x \o u) = Len(x) + Len(u) /\ Len(y \o u) = Len(y) + Len(u)
      /\ Len(x) \in Nat /\ Len(y) \in Nat /\ Len(u) \in Nat /\ Len(t) \in Nat
      /\ Audit!ToSet(x \o u) = Audit!ToSet(x) \union Audit!ToSet(u)
      /\ Audit!ToSet(y \o u) = Audit!ToSet(y) \union Audit!ToSet(u)
  BY Concatenation, LenProperties
<1>2. x \o << >> = x
  BY ConcatEmptySeq
<1>3. others = {} => x \o u = x
  BY <1>2
<1>4. CASE w <= i
  <2>1. Len(x) = Len(y) + Len(t) /\ (others = {} => x = t)
        /\ Audit!ToSet(x) = Audit!ToSet(y) \union Audit!ToSet(t)
    BY <1>4 DEF Inserts
  <2>2. Len(x \o u) = Len(y \o u) + Len(t)
    BY <1>1, <2>1
  <2>3. Audit!ToSet(x \o u) = Audit!ToSet(y \o u) \union Audit!ToSet(t)
    BY <1>1, <2>1
  <2> QED
    BY <1>3, <1>4, <2>1, <2>2, <2>3 DEF Inserts
<1>5. CASE i < w
  <2>1. Len(x) = Len(y) /\ Audit!ToSet(x) = Audit!ToSet(y) /\ (others = {} => x = << >>)
    BY <1>5 DEF Inserts
  <2>2. j < w
    BY <1>5
  <2> QED
    BY <1>1, <1>3, <2>1, <2>2 DEF Inserts
<1> QED
  BY <1>4, <1>5

\* The lists but for the w-th that hold any.
Filled(s, n, w) == {v \in 1..n : v # w /\ s[v] # << >>}

\* x is the entries y and a list t of them; and t alone if nothing else is filled.
Parted(x, y, t, R, filled) ==
    /\ filled = {} => x = t
    /\ x \in Seq(R)
    /\ Len(x) = Len(y) + Len(t)
    /\ Audit!ToSet(x) = Audit!ToSet(y) \union Audit!ToSet(t)

\* One of the lists in a flattened list, and the others without it.
LEMMA FlattenOne ==
    ASSUME NEW R, NEW n \in Nat, NEW s \in [1..n -> Seq(R)], NEW w \in 1..n,
           NEW rest \in [1..n -> Seq(R)], rest[w] = << >>,
           \A i \in 1..n : i # w => rest[i] = s[i]
    PROVE  /\ Audit!FlattenSeq(rest) \in Seq(R)
           /\ Parted(Audit!FlattenSeq(s), Audit!FlattenSeq(rest), s[w], R, Filled(s, n, w))
<1> DEFINE others == Filled(s, n, w)
<1>1. /\ w \in Nat /\ 0 < w /\ w <= n /\ s[w] \in Seq(R)
      /\ \A v \in 1..n : v # w /\ others = {} => s[v] = << >>
  <2>1. w \in Nat /\ 0 < w /\ w <= n /\ s[w] \in Seq(R)
    OBVIOUS
  <2>2. \A v \in 1..n : v # w /\ others = {} => s[v] = << >>
    <3> SUFFICES ASSUME NEW v \in 1..n, v # w, s[v] # << >> PROVE others # {}
      OBVIOUS
    <3>1. v \in others
      BY DEF Filled
    <3> QED
      BY <3>1
  <2> QED
    BY <2>1, <2>2
<1> HIDE DEF others
<1>2. PICK g : RunsThrough(g, s, n, R) /\ Audit!FlattenSeq(s) = g[n]
  BY FlattenRuns
<1>3. PICK h : RunsThrough(h, rest, n, R) /\ Audit!FlattenSeq(rest) = h[n]
  BY FlattenRuns
<1> DEFINE T == {i \in 0..n : Inserts(g[i], h[i], s[w], w, i, others)}
<1>4. 0 \in T
  <2>1. g[0] = << >> /\ h[0] = << >> /\ 0 \in 0..n /\ ~(w <= 0)
    BY <1>1, <1>2, <1>3 DEF RunsThrough
  <2>2. Inserts(g[0], h[0], s[w], w, 0, others)
    BY <2>1 DEF Inserts
  <2> QED
    BY <2>1, <2>2
<1>5. ASSUME NEW i \in 0..(n - 1), i \in T PROVE i + 1 \in T
  <2>1. PICK j \in 1..n : j = i + 1
    OBVIOUS
  <2>2. Inserts(g[i], h[i], s[w], w, i, others)
    BY <1>5
  <2> HIDE DEF T
  <2>3. j \in 0..n /\ j - 1 = i /\ i \in 0..n /\ i \in Nat /\ j \in Nat
    BY <2>1
  <2>4. g[j] = g[i] \o s[j] /\ h[j] = h[i] \o rest[j]
    BY <1>2, <1>3, <2>3 DEF RunsThrough
  <2>5. g[i] \in Seq(R) /\ h[i] \in Seq(R)
    BY <1>2, <1>3, <2>3 DEF RunsThrough
  <2>6. Inserts(g[j], h[j], s[w], w, j, others)
    <3>1. CASE j = w
      <4>1. rest[j] = << >> /\ s[j] = s[w] /\ w = i + 1
        BY <2>1, <3>1
      <4>2. Inserts(g[i] \o s[w], h[i] \o << >>, s[w], w, w, others)
        BY <1>1, <2>2, <2>3, <2>5, <4>1, InsertsHere
      <4> QED
        BY <2>4, <3>1, <4>1, <4>2
    <3>2. CASE j # w
      <4>1. rest[j] = s[j] /\ s[j] \in Seq(R) /\ (others = {} => s[j] = << >>)
        BY <1>1, <3>2
      <4>2. Inserts(g[i] \o s[j], h[i] \o s[j], s[w], w, j, others)
        BY <1>1, <2>1, <2>2, <2>3, <2>5, <3>2, <4>1, InsertsOn
      <4> QED
        BY <2>4, <4>1, <4>2
    <3> QED
      BY <3>1, <3>2
  <2> QED
    BY <2>1, <2>3, <2>6 DEF T
<1>6. n \in T
  <2> HIDE DEF T
  <2> QED
    BY <1>4, <1>5, InductionTo
<1>7. Inserts(g[n], h[n], s[w], w, n, others)
  BY <1>6
<1>8. g[n] \in Seq(R) /\ h[n] \in Seq(R)
  BY <1>2, <1>3 DEF RunsThrough
<1> QED
  BY <1>1, <1>2, <1>3, <1>7, <1>8 DEF Inserts, Parted, others

\* Two families of lists that differ in one.
LEMMA FlattenTwo ==
    ASSUME NEW R, NEW n \in Nat, NEW s \in [1..n -> Seq(R)], NEW t \in [1..n -> Seq(R)],
           NEW w \in 1..n, \A i \in 1..n : i # w => t[i] = s[i]
    PROVE  \E rest \in Seq(R) :
             /\ Parted(Audit!FlattenSeq(s), rest, s[w], R, Filled(s, n, w))
             /\ Parted(Audit!FlattenSeq(t), rest, t[w], R, Filled(s, n, w))
<1>1. PICK o \in [1..n -> Seq(R)] :
               o[w] = << >> /\ \A i \in 1..n : i # w => o[i] = s[i]
  <2> DEFINE o == [v \in 1..n |-> IF v = w THEN << >> ELSE s[v]]
  <2>1. << >> \in Seq(R)
    OBVIOUS
  <2>2. o \in [1..n -> Seq(R)] /\ o[w] = << >> /\ \A i \in 1..n : i # w => o[i] = s[i]
    BY <2>1
  <2> QED
    BY <2>2
<1>2. o[w] = << >>
  BY <1>1
<1>3. \A i \in 1..n : i # w => o[i] = s[i]
  BY <1>1
<1>4. \A i \in 1..n : i # w => o[i] = t[i]
  BY <1>3
<1>5. /\ Audit!FlattenSeq(o) \in Seq(R)
      /\ Parted(Audit!FlattenSeq(s), Audit!FlattenSeq(o), s[w], R, Filled(s, n, w))
  BY <1>2, <1>3, FlattenOne
<1>6. Parted(Audit!FlattenSeq(t), Audit!FlattenSeq(o), t[w], R, Filled(t, n, w))
  BY <1>2, <1>4, FlattenOne
<1>7. Filled(s, n, w) = Filled(t, n, w)
  BY DEF Filled
<1> QED
  BY <1>5, <1>6, <1>7

LEMMA ThreeLists ==
    ASSUME NEW R, NEW a \in Seq(R), NEW b \in Seq(R), NEW c \in Seq(R)
    PROVE  /\ Len((a \o b) \o c) = Len(a) + Len(b) + Len(c)
           /\ Audit!ToSet((a \o b) \o c) = Audit!ToSet(a) \union Audit!ToSet(b) \union Audit!ToSet(c)
<1>1. PICK u \in Seq(R) : u = a \o b
  BY Concatenation
<1>2. Len(u) = Len(a) + Len(b) /\ Audit!ToSet(u) = Audit!ToSet(a) \union Audit!ToSet(b)
  BY <1>1, Concatenation
<1>3. Len(u \o c) = Len(u) + Len(c) /\ Audit!ToSet(u \o c) = Audit!ToSet(u) \union Audit!ToSet(c)
  BY Concatenation
<1> QED
  BY <1>1, <1>2, <1>3

\* Lists of which one moves its entries along.
OneMoved(R, rest, filled, s, x, f, q, t, y, g, r) ==
    /\ {s, t, q, r, f, g, rest} \subseteq Seq(R)
    /\ Parted(x, rest, f, R, filled) /\ Parted(y, rest, g, R, filled)
    /\ (t \o g) \o r = (s \o f) \o q

LEMMA ListsMove ==
    ASSUME NEW R, NEW rest, NEW filled, NEW s, NEW x, NEW f, NEW q, NEW t, NEW y, NEW g, NEW r,
           OneMoved(R, rest, filled, s, x, f, q, t, y, g, r)
    PROVE  /\ Len((t \o y) \o r) = Len((s \o x) \o q)
           /\ Audit!ToSet((t \o y) \o r) = Audit!ToSet((s \o x) \o q)
<1> USE DEF OneMoved
<1>a. /\ s \in Seq(R) /\ t \in Seq(R) /\ q \in Seq(R) /\ r \in Seq(R)
      /\ f \in Seq(R) /\ g \in Seq(R) /\ rest \in Seq(R)
  OBVIOUS
<1>b. Parted(x, rest, f, R, filled) /\ Parted(y, rest, g, R, filled)
  OBVIOUS
<1>c. (t \o g) \o r = (s \o f) \o q
  OBVIOUS
<1> HIDE DEF OneMoved
<1>0. x \in Seq(R) /\ y \in Seq(R)
  BY <1>b DEF Parted
<1>1. /\ x \in Seq(R) /\ y \in Seq(R)
      /\ Len(x) = Len(rest) + Len(f) /\ Len(y) = Len(rest) + Len(g)
      /\ Audit!ToSet(x) = Audit!ToSet(rest) \union Audit!ToSet(f)
      /\ Audit!ToSet(y) = Audit!ToSet(rest) \union Audit!ToSet(g)
  BY <1>b DEF Parted
<1>2. /\ Len((t \o y) \o r) = Len(t) + Len(y) + Len(r)
      /\ Audit!ToSet((t \o y) \o r) = Audit!ToSet(t) \union Audit!ToSet(y) \union Audit!ToSet(r)
  BY <1>a, <1>0, ThreeLists
<1>3. /\ Len((s \o x) \o q) = Len(s) + Len(x) + Len(q)
      /\ Audit!ToSet((s \o x) \o q) = Audit!ToSet(s) \union Audit!ToSet(x) \union Audit!ToSet(q)
  BY <1>a, <1>0, ThreeLists
<1>4. /\ Len((t \o g) \o r) = Len(t) + Len(g) + Len(r)
      /\ Audit!ToSet((t \o g) \o r) = Audit!ToSet(t) \union Audit!ToSet(g) \union Audit!ToSet(r)
  BY <1>a, ThreeLists
<1>5. /\ Len((s \o f) \o q) = Len(s) + Len(f) + Len(q)
      /\ Audit!ToSet((s \o f) \o q) = Audit!ToSet(s) \union Audit!ToSet(f) \union Audit!ToSet(q)
  BY <1>a, ThreeLists
<1>55. /\ Len(s) \in Nat /\ Len(t) \in Nat /\ Len(x) \in Nat /\ Len(y) \in Nat /\ Len(f) \in Nat
      /\ Len(g) \in Nat /\ Len(q) \in Nat /\ Len(r) \in Nat /\ Len(rest) \in Nat
  BY <1>a, <1>1, LenProperties
<1>7. /\ Len((t \o g) \o r) = Len((s \o f) \o q)
      /\ Audit!ToSet((t \o g) \o r) = Audit!ToSet((s \o f) \o q)
  BY <1>c
<1>8. Len(t) + Len(g) + Len(r) = Len(s) + Len(f) + Len(q)
  BY <1>4, <1>5, <1>7
<1>9. Len(t) + Len(y) + Len(r) = Len(s) + Len(x) + Len(q)
  BY <1>1, <1>55, <1>8
<1>10. Audit!ToSet(t) \union Audit!ToSet(y) \union Audit!ToSet(r)
            = Audit!ToSet(s) \union Audit!ToSet(x) \union Audit!ToSet(q)
  BY <1>1, <1>4, <1>5, <1>7, Zenon
<1> QED
  BY <1>2, <1>3, <1>9, <1>10

------------------------------------------------------------------------------
(* AuditLog *)

\* What each writer holds of the entries, in a list of its own.
HeldBy(b) == [w \in Writers |-> IF b[w] = None THEN << >> ELSE b[w]]

AuditAll(s, b, q) == (s \o Audit!FlattenSeq(HeldBy(b))) \o q

KeptAs(all, n) == Len(all) = n /\ Audit!ToSet(all) = 1..n

LEMMA AuditCardinality ==
    \A S : (Audit!IsFiniteSet(S) <=> IsFiniteSet(S)) /\ Audit!Cardinality(S) = Cardinality(S)
  BY DEF Audit!IsFiniteSet, IsFiniteSet, Audit!Cardinality, Cardinality

LEMMA AuditWriters ==
    /\ Cardinality(Writers) \in Nat /\ Writers = 1..Cardinality(Writers) /\ MaxEntries \in Nat
    /\ None \notin Seq(Audit!Entries)
    /\ \A w \in Writers : w # None
<1>1. /\ IsFiniteSet(Writers) /\ Writers = 1..Cardinality(Writers) /\ MaxEntries \in Nat
      /\ None \notin Seq(1..MaxEntries) /\ None \notin Nat
  <2>1. Audit!AuditLogAssumption
    BY ServicesAssumption
  <2>2. None \notin Seq(1..MaxEntries) \union Nat
    BY <2>1 DEF Audit!AuditLogAssumption
  <2>3. IsFiniteSet(Writers) /\ Writers = 1..Cardinality(Writers) /\ MaxEntries \in Nat
    BY <2>1, AuditCardinality DEF Audit!AuditLogAssumption
  <2> QED
    BY <2>2, <2>3, Zenon
<1>2. Cardinality(Writers) \in Nat
  BY <1>1, FS_CardinalityType
<1>3. \A w \in Writers : w \in Nat
  BY <1>1, <1>2
<1> QED
  BY <1>1, <1>2, <1>3 DEF Audit!Entries

HeldTypes(b) == \A w \in Writers : b[w] \in Seq(Audit!Entries) \union {None}


\* The writers other than w that hold entries.
HeldElsewhere(b, w) == {v \in Writers : v # w /\ HeldBy(b)[v] # << >>}

LEMMA HeldLists ==
    ASSUME NEW d, HeldTypes(d)
    PROVE  /\ HeldBy(d) \in [Writers -> Seq(Audit!Entries)]
           /\ \A v \in Writers : /\ HeldBy(d)[v] = IF d[v] = None THEN << >> ELSE d[v]
                                 /\ HeldBy(d)[v] \in Seq(Audit!Entries)
<1>1. << >> \in Seq(Audit!Entries)
  OBVIOUS
<1> QED
  BY <1>1 DEF HeldBy, HeldTypes

\* What one writer holds, among what all hold: the rest does not depend on it.
LEMMA HeldApart ==
    ASSUME NEW b, HeldTypes(b), NEW c, HeldTypes(c), NEW w \in Writers,
           \A v \in Writers : v # w => c[v] = b[v]
    PROVE  \E rest \in Seq(Audit!Entries) :
             /\ Parted(Audit!FlattenSeq(HeldBy(b)), rest, HeldBy(b)[w], Audit!Entries,
                       HeldElsewhere(b, w))
             /\ Parted(Audit!FlattenSeq(HeldBy(c)), rest, HeldBy(c)[w], Audit!Entries,
                       HeldElsewhere(b, w))
<1>1. PICK n \in Nat : Writers = 1..n
  BY AuditWriters
<1>2. /\ HeldBy(b) \in [1..n -> Seq(Audit!Entries)] /\ HeldBy(c) \in [1..n -> Seq(Audit!Entries)]
      /\ w \in 1..n
  BY <1>1, HeldLists
<1>3. \A v \in 1..n : v # w => HeldBy(c)[v] = HeldBy(b)[v]
  BY <1>1, HeldLists
<1>4. HeldElsewhere(b, w) = Filled(HeldBy(b), n, w)
  BY <1>1 DEF HeldElsewhere, Filled
<1>5. \E rest \in Seq(Audit!Entries) :
             /\ Parted(Audit!FlattenSeq(HeldBy(b)), rest, HeldBy(b)[w], Audit!Entries,
                       Filled(HeldBy(b), n, w))
             /\ Parted(Audit!FlattenSeq(HeldBy(c)), rest, HeldBy(c)[w], Audit!Entries,
                       Filled(HeldBy(b), n, w))
  BY <1>2, <1>3, FlattenTwo
<1> QED
  BY <1>4, <1>5

\* A step that moves entries along at one writer loses none, and keeps their order when
\* no other writer holds any.
WriterMoves(w, s, b, q, t, c, r) ==
    /\ HeldTypes(b) /\ HeldTypes(c) /\ \A v \in Writers : v # w => c[v] = b[v]
    /\ {s, t, q, r} \subseteq Seq(Audit!Entries)
    /\ (t \o HeldBy(c)[w]) \o r = (s \o HeldBy(b)[w]) \o q

LEMMA EntriesMove ==
    ASSUME NEW w \in Writers, NEW s, NEW b, NEW q, NEW t, NEW c, NEW r,
           WriterMoves(w, s, b, q, t, c, r), NEW n, KeptAs(AuditAll(s, b, q), n)
    PROVE  /\ KeptAs(AuditAll(t, c, r), n)
           /\ HeldElsewhere(b, w) = {} => AuditAll(t, c, r) = AuditAll(s, b, q)
<1>a. HeldTypes(b) /\ HeldTypes(c) /\ \A v \in Writers : v # w => c[v] = b[v]
  BY DEF WriterMoves
<1>b. /\ s \in Seq(Audit!Entries) /\ t \in Seq(Audit!Entries)
      /\ q \in Seq(Audit!Entries) /\ r \in Seq(Audit!Entries)
      /\ (t \o HeldBy(c)[w]) \o r = (s \o HeldBy(b)[w]) \o q
  BY DEF WriterMoves
<1>1. HeldBy(b)[w] \in Seq(Audit!Entries) /\ HeldBy(c)[w] \in Seq(Audit!Entries)
  BY <1>a, HeldLists
<1>2. PICK rest \in Seq(Audit!Entries) :
             /\ Parted(Audit!FlattenSeq(HeldBy(b)), rest, HeldBy(b)[w], Audit!Entries,
                       HeldElsewhere(b, w))
             /\ Parted(Audit!FlattenSeq(HeldBy(c)), rest, HeldBy(c)[w], Audit!Entries,
                       HeldElsewhere(b, w))
  BY <1>a, HeldApart
<1>3. OneMoved(Audit!Entries, rest, HeldElsewhere(b, w),
               s, Audit!FlattenSeq(HeldBy(b)), HeldBy(b)[w], q,
               t, Audit!FlattenSeq(HeldBy(c)), HeldBy(c)[w], r)
  BY <1>b, <1>1, <1>2 DEF OneMoved
<1>4. /\ Len(AuditAll(t, c, r)) = Len(AuditAll(s, b, q))
      /\ Audit!ToSet(AuditAll(t, c, r)) = Audit!ToSet(AuditAll(s, b, q))
  BY <1>3, ListsMove DEF AuditAll
<1>5. HeldElsewhere(b, w) = {} => AuditAll(t, c, r) = AuditAll(s, b, q)
  <2>1. HeldElsewhere(b, w) = {} =>
            Audit!FlattenSeq(HeldBy(c)) = HeldBy(c)[w] /\ Audit!FlattenSeq(HeldBy(b)) = HeldBy(b)[w]
    BY <1>2 DEF Parted
  <2> QED
    BY <1>b, <2>1, Zenon DEF AuditAll
<1> QED
  BY <1>4, <1>5 DEF KeptAs

\* Every entry is kept once; and in the order of the calls, and by one writer that runs, unless
\* two ran at a time.
AuditInv ==
    /\ Audit!TypeOK
    /\ rewritten \/ \A v, w \in Writers : v = w \/ held[v] = None \/ held[w] = None
    /\ KeptAs(AuditAll(stored, held, queue), logged)
    /\ rewritten \/ AuditAll(stored, held, queue) = [i \in 1..logged |-> i]

\* A name for the types, so that the provers take only the lists meant.
ListsOf(R, s, t, u) == s \in Seq(R) /\ t \in Seq(R) /\ u \in Seq(R)

LEMMA Associates ==
    ASSUME NEW R, NEW s, NEW t, NEW u, ListsOf(R, s, t, u)
    PROVE  (s \o t) \o u = s \o (t \o u) /\ s \o t \in Seq(R)
  BY ConcatAssociative DEF ListsOf

Cat(s, t) == s \o t

LEMMA Regroup ==
    ASSUME NEW R, NEW s, NEW f, NEW h, NEW t, ListsOf(R, s, f, h), ListsOf(R, f, h, t)
    PROVE  Cat(Cat(s, Cat(f, h)), t) = Cat(Cat(s, f), Cat(h, t))
<1>1. s \o (f \o h) = (s \o f) \o h /\ s \o f \in Seq(R)
  BY Associates
<1>2. ListsOf(R, s \o f, h, t)
  BY <1>1 DEF ListsOf
<1>3. ((s \o f) \o h) \o t = (s \o f) \o (h \o t)
  BY <1>2, Associates
<1> QED
  BY <1>1, <1>3 DEF Cat

\* The entry at the head of the queue goes to the end of a batch.
LEMMA HeadMoves ==
    ASSUME NEW R, NEW s \in Seq(R), NEW f \in Seq(R), NEW q \in Seq(R), q # << >>
    PROVE  /\ Cat(Cat(s, Append(f, Head(q))), Tail(q)) = Cat(Cat(s, f), q)
           /\ Append(f, Head(q)) \in Seq(R) /\ Append(f, Head(q)) # << >> /\ Tail(q) \in Seq(R)
<1>0. /\ Head(q) \in R /\ Tail(q) \in Seq(R) /\ Len(Tail(q)) = Len(q) - 1
      /\ \A i \in 1..Len(Tail(q)) : Tail(q)[i] = q[i + 1]
  BY HeadTailProperties, Zenon
<1>1. PICK e \in R, t \in Seq(R) :
               /\ e = Head(q) /\ t = Tail(q) /\ Len(t) = Len(q) - 1 /\ e = q[1]
               /\ \A i \in 1..Len(t) : t[i] = q[i + 1]
  <2>1. Head(q) = q[1]
    OBVIOUS
  <2> QED
    BY <1>0, <2>1, Zenon
<1>2. PICK h \in Seq(R) : h = << e >>
  <2>1. << e >> \in Seq(R)
    BY e \in R
  <2> QED
    BY <2>1, Zenon
<1>3. PICK a \in Seq(R) : a = Append(f, e) /\ a = f \o h /\ a # << >>
  BY <1>2, AppendIsConcat, AppendProperties
<1>4. h \o t = q
  <2>1. Len(h) = 1 /\ h[1] = q[1]
    BY <1>1, <1>2
  <2>2. PICK u \in Seq(R) : /\ u = h \o t /\ Len(u) = 1 + Len(t)
                            /\ \A i \in 1..(1 + Len(t)) : u[i] = IF i <= 1 THEN h[i] ELSE t[i - 1]
    <3>1. /\ h \o t \in Seq(R) /\ Len(h \o t) = Len(h) + Len(t)
          /\ \A i \in 1..(Len(h) + Len(t)) : (h \o t)[i] = IF i <= Len(h) THEN h[i] ELSE t[i - Len(h)]
      BY ConcatProperties, Zenon
    <3> QED
      BY <2>1, <3>1
  <2>3. Len(u) = Len(q) /\ Len(q) \in Nat /\ Len(t) \in Nat
    BY <1>1, <2>2, LenProperties
  <2>4. ASSUME NEW i \in 1..Len(u) PROVE u[i] = q[i]
    <3>1. CASE i = 1
      BY <1>1, <2>1, <2>2, <2>3, <3>1
    <3>2. CASE i # 1
      <4>1. i - 1 \in 1..Len(t) /\ (i - 1) + 1 = i /\ ~(i <= 1) /\ i \in 1..(1 + Len(t))
        BY <1>1, <2>2, <2>3, <3>2
      <4>2. u[i] = t[i - 1] /\ t[i - 1] = q[(i - 1) + 1]
        BY <1>1, <2>2, <4>1
      <4> QED
        BY <4>1, <4>2
    <3> QED
      BY <3>1, <3>2
  <2>5. u = q
    BY <2>3, <2>4, SeqEqual
  <2> QED
    BY <2>2, <2>5
<1>5. (s \o (f \o h)) \o t = (s \o f) \o (h \o t)
  <2>1. ListsOf(R, s, f, h) /\ ListsOf(R, f, h, t)
    BY DEF ListsOf
  <2>2. Cat(Cat(s, Cat(f, h)), t) = Cat(Cat(s, f), Cat(h, t))
    BY <2>1, Regroup
  <2> QED
    BY <2>2, Zenon DEF Cat
<1> QED
  BY <1>1, <1>3, <1>4, <1>5 DEF Cat

LEMMA AuditTypes ==
    ASSUME Audit!TypeOK
    PROVE  /\ HeldTypes(held) /\ held \in [Writers -> Seq(Audit!Entries) \union {None}]
           /\ stored \in Seq(Audit!Entries) /\ queue \in Seq(Audit!Entries)
           /\ logged \in 0..MaxEntries /\ rewritten \in BOOLEAN
  BY DEF Audit!TypeOK, HeldTypes

\* What a step of a writer has to show.
AuditStep(w) ==
    /\ HeldTypes(held') /\ \A v \in Writers : v # w => held'[v] = held[v]
    /\ stored' \in Seq(Audit!Entries) /\ queue' \in Seq(Audit!Entries)
    /\ (stored' \o HeldBy(held')[w]) \o queue' = (stored \o HeldBy(held)[w]) \o queue
    /\ logged' = logged

\* A writer that takes entries, stores them or leaves keeps the invariant.
LEMMA AuditMoves ==
    ASSUME AuditInv, NEW w \in Writers, AuditStep(w), rewritten => rewritten',
           rewritten' \/ \A v \in Writers : v # w => held[v] = None
    PROVE  /\ KeptAs(AuditAll(stored', held', queue'), logged')
           /\ rewritten' \/ AuditAll(stored', held', queue') = [i \in 1..logged' |-> i]
<1>0. /\ HeldTypes(held') /\ \A v \in Writers : v # w => held'[v] = held[v]
      /\ stored' \in Seq(Audit!Entries) /\ queue' \in Seq(Audit!Entries)
      /\ (stored' \o HeldBy(held')[w]) \o queue' = (stored \o HeldBy(held)[w]) \o queue
      /\ logged' = logged
  BY DEF AuditStep
<1>1. /\ HeldTypes(held) /\ stored \in Seq(Audit!Entries) /\ queue \in Seq(Audit!Entries)
  BY AuditTypes DEF AuditInv
<1>2. KeptAs(AuditAll(stored, held, queue), logged)
  BY DEF AuditInv
<1>21. WriterMoves(w, stored, held, queue, stored', held', queue')
  BY <1>0, <1>1 DEF WriterMoves
<1>3. /\ KeptAs(AuditAll(stored', held', queue'), logged)
      /\ HeldElsewhere(held, w) = {} =>
             AuditAll(stored', held', queue') = AuditAll(stored, held, queue)
  BY <1>2, <1>21, EntriesMove
<1>4. rewritten' \/ HeldElsewhere(held, w) = {}
  <2>1. ASSUME \A v \in Writers : v # w => held[v] = None PROVE HeldElsewhere(held, w) = {}
    BY <1>1, <2>1, HeldLists DEF HeldElsewhere
  <2> QED
    BY <2>1
<1>5. rewritten' \/ AuditAll(stored, held, queue) = [i \in 1..logged |-> i]
  BY DEF AuditInv
<1> QED
  BY <1>0, <1>3, <1>4, <1>5

LEMMA AuditInit == Audit!Init => AuditInv
<1> SUFFICES ASSUME Audit!Init PROVE AuditInv
  OBVIOUS
<1>1. /\ logged = 0 /\ queue = << >> /\ stored = << >> /\ writeTask = None
      /\ held = [w \in Writers |-> None] /\ stopping = FALSE /\ rewritten = FALSE
  BY DEF Audit!Init
<1>2. 0 \in 0..MaxEntries /\ << >> \in Seq(Audit!Entries)
  BY AuditWriters
<1>3. Audit!TypeOK
  BY <1>1, <1>2 DEF Audit!TypeOK
<1>4. PICK n \in Nat : Writers = 1..n
  BY AuditWriters
<1>5. Audit!FlattenSeq(HeldBy(held)) = << >>
  <2>1. CASE n = 0
    <3>1. HeldBy(held) \in [1..0 -> Seq(Audit!Entries)] /\ 0 \in Nat
      BY <1>3, <1>4, <2>1, AuditTypes, HeldLists
    <3>2. PICK g : RunsThrough(g, HeldBy(held), 0, Audit!Entries)
                   /\ Audit!FlattenSeq(HeldBy(held)) = g[0]
      BY <3>1, FlattenRuns
    <3> QED
      BY <3>2 DEF RunsThrough
  <2>2. CASE n # 0
    <3>1. 1 \in Writers
      BY <1>4, <2>2
    <3>2. HeldTypes(held)
      BY <1>3, AuditTypes
    <3>3. \A v \in Writers : HeldBy(held)[v] = << >>
      BY <1>1, <3>2, HeldLists
    <3>4. HeldElsewhere(held, 1) = {} /\ HeldBy(held)[1] = << >>
      BY <3>1, <3>3 DEF HeldElsewhere
    <3>5. PICK rest : Parted(Audit!FlattenSeq(HeldBy(held)), rest, HeldBy(held)[1], Audit!Entries,
                             HeldElsewhere(held, 1))
      BY <3>1, <3>2, HeldApart
    <3> QED
      BY <3>4, <3>5 DEF Parted
  <2> QED
    BY <2>1, <2>2
<1>6. AuditAll(stored, held, queue) = << >>
  BY <1>1, <1>5 DEF AuditAll
<1>7. Len(<< >>) = 0 /\ Audit!ToSet(<< >>) = {} /\ 1..0 = {} /\ << >> = [i \in 1..0 |-> i]
  BY DEF Audit!ToSet
<1>8. KeptAs(AuditAll(stored, held, queue), logged)
  BY <1>1, <1>6, <1>7 DEF KeptAs
<1> QED
  BY <1>1, <1>3, <1>6, <1>7, <1>8 DEF AuditInv

LEMMA AuditSteps ==
    ASSUME AuditInv, NEW w \in Writers, AuditStep(w), Audit!TypeOK',
           held[w] # None, rewritten' = rewritten
    PROVE  AuditInv'
<1>1. Audit!TypeOK /\ rewritten \in BOOLEAN /\ rewritten' = rewritten
  BY AuditTypes DEF AuditInv
<1>2. rewritten \/ \A v, u \in Writers : v = u \/ held[v] = None \/ held[u] = None
  BY DEF AuditInv
<1>3. rewritten' \/ \A v \in Writers : v # w => held[v] = None
  BY <1>1, <1>2
<1>4. /\ KeptAs(AuditAll(stored', held', queue'), logged')
      /\ rewritten' \/ AuditAll(stored', held', queue') = [i \in 1..logged' |-> i]
  BY <1>1, <1>3, AuditMoves
<1>5. rewritten' \/ \A v, u \in Writers : v = u \/ held'[v] = None \/ held'[u] = None
  BY <1>3 DEF AuditStep
<1> QED
  BY <1>4, <1>5 DEF AuditInv

LEMMA HeldAll ==
    ASSUME NEW b, HeldTypes(b)
    PROVE  Audit!FlattenSeq(HeldBy(b)) \in Seq(Audit!Entries)
<1>1. PICK n \in Nat : Writers = 1..n
  BY AuditWriters
<1>2. HeldBy(b) \in [1..n -> Seq(Audit!Entries)]
  BY <1>1, HeldLists
<1>3. PICK g : RunsThrough(g, HeldBy(b), n, Audit!Entries) /\ Audit!FlattenSeq(HeldBy(b)) = g[n]
  BY <1>2, FlattenRuns
<1> QED
  BY <1>3 DEF RunsThrough

\* One more entry at the end of the queue.
MayLog(R, s, q, n, e) ==
    /\ s \in Seq(R) /\ q \in Seq(R) /\ n \in Nat /\ e \in R /\ e = n + 1
    /\ KeptAs(Cat(s, q), n)

LEMMA Logged ==
    ASSUME NEW R, NEW s \in Seq(R), NEW q \in Seq(R), NEW n \in Nat, NEW e \in R,
           MayLog(R, s, q, n, e)
    PROVE  /\ KeptAs(Cat(s, Append(q, e)), e)
           /\ Cat(s, q) = [i \in 1..n |-> i] => Cat(s, Append(q, e)) = [i \in 1..e |-> i]
<1>1. /\ s \in Seq(R) /\ q \in Seq(R) /\ n \in Nat /\ e \in R /\ e = n + 1
      /\ KeptAs(Cat(s, q), n)
  BY DEF MayLog
<1>2. PICK a \in Seq(R) : a = s \o q /\ Len(a) = n /\ Audit!ToSet(a) = 1..n
  BY <1>1, ConcatProperties DEF KeptAs, Cat
<1>3. s \o Append(q, e) = Append(a, e)
  <2>1. PICK h \in Seq(R) : h = << e >>
    <3>1. << e >> \in Seq(R)
      BY <1>1
    <3> QED
      BY <3>1, Zenon
  <2>2. Append(q, e) = q \o h /\ Append(a, e) = a \o h
    BY <1>1, <2>1, AppendIsConcat
  <2>3. ListsOf(R, s, q, h)
    BY <1>1 DEF ListsOf
  <2>4. Cat(Cat(s, q), h) = Cat(s, Cat(q, h))
    BY <2>3, Associates DEF Cat
  <2> QED
    BY <1>2, <2>2, <2>4, Zenon DEF Cat
<1>4. PICK b \in Seq(R) : /\ b = Append(a, e) /\ Len(b) = n + 1 /\ b[n + 1] = n + 1
                          /\ \A i \in 1..n : b[i] = a[i]
  <2>1. Append(a, e) \in Seq(R)
    BY <1>1
  <2>2. Len(Append(a, e)) = Len(a) + 1
    BY <1>1
  <2>3. \A i \in 1..Len(a) : Append(a, e)[i] = a[i]
    BY <1>1
  <2>4. Append(a, e)[Len(a) + 1] = e
    BY <1>1
  <2> QED
    BY <1>1, <1>2, <2>1, <2>2, <2>3, <2>4
<1>5. DOMAIN a = 1..n /\ DOMAIN b = 1..(n + 1)
  BY <1>1, <1>2, <1>4, LenProperties
<1>6. Audit!ToSet(b) = 1..(n + 1)
  <2>1. ASSUME NEW i \in 1..(n + 1) PROVE b[i] \in 1..(n + 1)
    <3>1. CASE i = n + 1
      BY <1>4, <3>1
    <3>2. CASE i # n + 1
      <4>1. i \in 1..n
        BY <3>2
      <4>2. a[i] \in 1..n
        BY <1>2, <1>5, <4>1 DEF Audit!ToSet
      <4> QED
        BY <1>4, <4>1, <4>2
    <3> QED
      BY <3>1, <3>2
  <2>2. ASSUME NEW x \in 1..(n + 1) PROVE \E i \in 1..(n + 1) : b[i] = x
    <3>1. CASE x = n + 1
      BY <1>4, <3>1
    <3>2. CASE x # n + 1
      <4>1. x \in Audit!ToSet(a)
        BY <1>2, <3>2
      <4>2. PICK i \in 1..n : a[i] = x
        BY <1>5, <4>1 DEF Audit!ToSet
      <4> QED
        BY <1>4, <4>2
    <3> QED
      BY <3>1, <3>2
  <2> QED
    BY <1>5, <2>1, <2>2 DEF Audit!ToSet
<1>7. a = [i \in 1..n |-> i] => b = [i \in 1..(n + 1) |-> i]
  <2>1. SUFFICES ASSUME a = [i \in 1..n |-> i] PROVE b = [i \in 1..(n + 1) |-> i]
    OBVIOUS
  <2>2. ASSUME NEW i \in 1..(n + 1) PROVE b[i] = i
    <3>1. CASE i = n + 1
      BY <1>4, <3>1
    <3>2. CASE i \in 1..n
      BY <1>4, <2>1, <3>2
    <3> QED
      BY <3>1, <3>2
  <2>3. b = [i \in 1..(n + 1) |-> b[i]]
    BY <1>5
  <2> QED
    BY <2>2, <2>3
<1> QED
  BY <1>1, <1>2, <1>3, <1>4, <1>6, <1>7 DEF KeptAs, Cat

LEMMA AuditNext == AuditInv /\ Audit!Next => AuditInv'
<1> SUFFICES ASSUME AuditInv, Audit!Next PROVE AuditInv'
  OBVIOUS
<1> USE DEF AuditInv
<1>1. /\ Audit!TypeOK /\ HeldTypes(held) /\ held \in [Writers -> Seq(Audit!Entries) \union {None}]
      /\ stored \in Seq(Audit!Entries) /\ queue \in Seq(Audit!Entries)
      /\ logged \in 0..MaxEntries /\ rewritten \in BOOLEAN
  BY AuditTypes
<1>2. << >> \in Seq(Audit!Entries) /\ << >> # None
  <2>1. << >> \in Seq(Audit!Entries)
    OBVIOUS
  <2> QED
    BY <2>1, AuditWriters
<1> HIDE DEF AuditInv
<1>3. ASSUME NEW w \in Writers, held[w] # None
      PROVE  held[w] \in Seq(Audit!Entries) /\ HeldBy(held)[w] = held[w]
  BY <1>1, <1>3, HeldLists
<1>4. ASSUME NEW b \in [Writers -> Seq(Audit!Entries) \union {None}]
      PROVE  HeldTypes(b)
  BY DEF HeldTypes
<1>5. ASSUME Audit!LogAction PROVE AuditInv'
  <2>1. /\ logged < MaxEntries /\ logged' = logged + 1 /\ queue' = Append(queue, logged + 1)
        /\ UNCHANGED <<writeTask, held, stored, stopping, rewritten>>
    BY <1>5 DEF Audit!LogAction
  <2>2. logged + 1 \in Audit!Entries /\ logged + 1 \in 0..MaxEntries /\ MaxEntries \in Nat
    BY <1>1, <2>1, AuditWriters DEF Audit!Entries
  <2>3. Append(queue, logged + 1) \in Seq(Audit!Entries)
    BY <1>1, <2>2
  <2>4. Audit!TypeOK'
    BY <1>1, <2>1, <2>2, <2>3 DEF Audit!TypeOK
  <2>5. stored \o Audit!FlattenSeq(HeldBy(held)) \in Seq(Audit!Entries)
    BY <1>1, HeldAll, ConcatProperties
  <2>6. KeptAs(AuditAll(stored, held, queue), logged)
        /\ (rewritten \/ AuditAll(stored, held, queue) = [i \in 1..logged |-> i])
    BY DEF AuditInv
  <2>7. /\ KeptAs(AuditAll(stored, held, Append(queue, logged + 1)), logged + 1)
        /\ rewritten \/ AuditAll(stored, held, Append(queue, logged + 1)) = [i \in 1..(logged + 1) |-> i]
    <3>1. PICK s \in Seq(Audit!Entries) : s = stored \o Audit!FlattenSeq(HeldBy(held))
      BY <2>5
    <3>2. logged \in Nat
      BY <1>1
    <3>3. PICK e \in Audit!Entries : e = logged + 1
      BY <2>2
    <3>4. PICK q \in Seq(Audit!Entries), n \in Nat : q = queue /\ n = logged
      BY <1>1, <3>2
    <3>5. KeptAs(Cat(s, q), n) /\ e = n + 1
      BY <2>6, <3>1, <3>3, <3>4 DEF AuditAll, Cat
    <3>6. /\ KeptAs(Cat(s, Append(q, e)), e)
          /\ Cat(s, q) = [i \in 1..n |-> i] => Cat(s, Append(q, e)) = [i \in 1..e |-> i]
      <4>1. MayLog(Audit!Entries, s, q, n, e)
        BY <3>5 DEF MayLog
      <4> QED
        BY <4>1, Logged
    <3>7. /\ AuditAll(stored, held, queue) = Cat(s, q)
          /\ AuditAll(stored, held, Append(queue, logged + 1)) = Cat(s, Append(q, e))
      BY <3>1, <3>3, <3>4 DEF AuditAll, Cat
    <3> QED
      BY <2>6, <3>3, <3>4, <3>6, <3>7
  <2>8. rewritten \/ \A v, w \in Writers : v = w \/ held[v] = None \/ held[w] = None
    BY DEF AuditInv
  <2> QED
    BY <2>1, <2>4, <2>7, <2>8 DEF AuditInv
<1>6. ASSUME NEW w \in Writers, Audit!Start(w) PROVE AuditInv'
  <2>1. /\ held[w] = None /\ writeTask' = w /\ held' = [held EXCEPT ![w] = << >>]
        /\ rewritten' = (rewritten \/ Audit!Running # {})
        /\ UNCHANGED <<logged, queue, stored, stopping>>
    BY <1>6 DEF Audit!Start
  <2>2. held' \in [Writers -> Seq(Audit!Entries) \union {None}] /\ held'[w] = << >>
        /\ \A v \in Writers : v # w => held'[v] = held[v]
    BY <1>1, <1>2, <2>1
  <2>3. Audit!TypeOK'
    BY <1>1, <2>1, <2>2 DEF Audit!TypeOK
  <2>4. HeldTypes(held') /\ HeldTypes(held)
    BY <1>1, <1>4, <2>2
  <2>5. HeldBy(held)[w] = << >> /\ HeldBy(held')[w] = << >>
    BY <2>1, <2>2, <2>4, HeldLists
  <2>6. rewritten' \/ \A v \in Writers : held[v] = None
    BY <2>1 DEF Audit!Running
  <2>7. rewritten => rewritten'
    BY <2>1
  <2>8. /\ KeptAs(AuditAll(stored', held', queue'), logged')
        /\ rewritten' \/ AuditAll(stored', held', queue') = [i \in 1..logged' |-> i]
    <3>1. AuditStep(w)
      BY <1>1, <2>1, <2>2, <2>4, <2>5 DEF AuditStep
    <3> QED
      BY <2>6, <2>7, <3>1, AuditMoves
  <2>9. rewritten' \/ \A v, u \in Writers : v = u \/ held'[v] = None \/ held'[u] = None
    BY <2>2, <2>6
  <2> QED
    BY <2>3, <2>8, <2>9 DEF AuditInv
<1>7. ASSUME NEW w \in Writers, Audit!Take(w) PROVE AuditInv'
  <2>1. /\ held[w] # None /\ queue # << >> /\ queue' = Tail(queue)
        /\ UNCHANGED <<logged, writeTask, stopping, rewritten>>
    BY <1>7 DEF Audit!Take
  <2>2. held[w] \in Seq(Audit!Entries) /\ HeldBy(held)[w] = held[w]
    BY <1>3, <2>1
  <2>3. PICK a \in Seq(Audit!Entries) :
                 /\ a = Append(held[w], Head(queue)) /\ a # << >>
                 /\ (stored \o a) \o Tail(queue) = (stored \o held[w]) \o queue
                 /\ Tail(queue) \in Seq(Audit!Entries)
    <3>1. PICK f \in Seq(Audit!Entries), q \in Seq(Audit!Entries), s \in Seq(Audit!Entries) :
                   f = held[w] /\ q = queue /\ s = stored /\ q # << >>
      BY <1>1, <2>1, <2>2
    <3>2. /\ Cat(Cat(s, Append(f, Head(q))), Tail(q)) = Cat(Cat(s, f), q)
          /\ Append(f, Head(q)) \in Seq(Audit!Entries) /\ Append(f, Head(q)) # << >>
          /\ Tail(q) \in Seq(Audit!Entries)
      <4>1. q # << >>
        BY <3>1
      <4> QED
        BY <4>1, HeadMoves
    <3> QED
      BY <3>1, <3>2 DEF Cat
  <2>4. CASE Audit!Flush(w, a)
    <3>1. stored' = stored \o a /\ held' = [held EXCEPT ![w] = << >>]
      BY <2>4 DEF Audit!Flush
    <3>2. held' \in [Writers -> Seq(Audit!Entries) \union {None}] /\ held'[w] = << >>
          /\ \A v \in Writers : v # w => held'[v] = held[v]
      BY <1>1, <1>2, <3>1
    <3>3. stored \o a \in Seq(Audit!Entries)
      BY <1>1, ConcatProperties
    <3>4. Audit!TypeOK'
      BY <1>1, <2>1, <2>3, <3>1, <3>2, <3>3 DEF Audit!TypeOK
    <3>5. HeldTypes(held') /\ HeldBy(held')[w] = << >>
      BY <1>2, <1>4, <3>2, HeldLists
    <3>6. (stored' \o HeldBy(held')[w]) \o queue' = (stored \o HeldBy(held)[w]) \o queue
      <4>1. stored' \o << >> = stored'
        BY <3>1, <3>3, ConcatEmptySeq
      <4> QED
        BY <2>1, <2>2, <2>3, <3>1, <3>5, <4>1
    <3>7. AuditStep(w)
      BY <2>1, <2>3, <3>1, <3>2, <3>3, <3>5, <3>6 DEF AuditStep
    <3> QED
      BY <2>1, <3>4, <3>7, AuditSteps
  <2>5. CASE Audit!Hold(w, a)
    <3>1. stored' = stored /\ held' = [held EXCEPT ![w] = a]
      BY <2>5 DEF Audit!Hold
    <3>2. held' \in [Writers -> Seq(Audit!Entries) \union {None}] /\ held'[w] = a
          /\ \A v \in Writers : v # w => held'[v] = held[v]
      BY <1>1, <3>1
    <3>3. Audit!TypeOK'
      BY <1>1, <2>1, <2>3, <3>1, <3>2 DEF Audit!TypeOK
    <3>4. a # None /\ HeldTypes(held')
      BY <1>4, <3>2, AuditWriters
    <3>5. HeldBy(held')[w] = a
      BY <3>2, <3>4, HeldLists
    <3>6. (stored' \o HeldBy(held')[w]) \o queue' = (stored \o HeldBy(held)[w]) \o queue
      BY <2>1, <2>2, <2>3, <3>1, <3>5
    <3>7. AuditStep(w)
      BY <1>1, <2>1, <2>3, <3>1, <3>2, <3>4, <3>6 DEF AuditStep
    <3> QED
      BY <2>1, <3>3, <3>7, AuditSteps
  <2>6. Audit!Flush(w, a) \/ Audit!Hold(w, a)
    BY <1>7, <2>3 DEF Audit!Take
  <2> QED
    BY <2>4, <2>5, <2>6
<1>8. ASSUME NEW w \in Writers, held[w] # None, stored' = stored \o held[w],
             held' \in [Writers -> Seq(Audit!Entries) \union {None}],
             held'[w] \in {None, << >>}, \A v \in Writers : v # w => held'[v] = held[v],
             UNCHANGED <<logged, queue, rewritten, writeTask, stopping>>
      PROVE  AuditInv'
  <2>1. held[w] \in Seq(Audit!Entries) /\ HeldBy(held)[w] = held[w]
    BY <1>3, <1>8
  <2>2. stored \o held[w] \in Seq(Audit!Entries)
    BY <1>1, <2>1, ConcatProperties
  <2>3. Audit!TypeOK'
    BY <1>1, <1>8, <2>2 DEF Audit!TypeOK
  <2>4. HeldTypes(held')
    BY <1>4, <1>8
  <2>5. HeldBy(held')[w] = << >>
    BY <1>2, <1>8, <2>4, HeldLists
  <2>6. (stored' \o HeldBy(held')[w]) \o queue' = (stored \o HeldBy(held)[w]) \o queue
    <3>1. stored' \o << >> = stored'
      BY <1>8, <2>2, ConcatEmptySeq
    <3> QED
      BY <1>8, <2>1, <2>5, <3>1
  <2>7. AuditStep(w)
    BY <1>1, <1>8, <2>2, <2>4, <2>6 DEF AuditStep
  <2> QED
    BY <1>8, <2>3, <2>7, AuditSteps
<1>9. ASSUME NEW w \in Writers, Audit!TimeOut(w) PROVE AuditInv'
  <2>1. /\ held[w] # None /\ stored' = stored \o held[w] /\ held' = [held EXCEPT ![w] = << >>]
        /\ UNCHANGED <<logged, queue, writeTask, stopping, rewritten>>
    BY <1>9 DEF Audit!TimeOut, Audit!Flush
  <2>2. /\ held' \in [Writers -> Seq(Audit!Entries) \union {None}] /\ held'[w] = << >>
        /\ \A v \in Writers : v # w => held'[v] = held[v]
    BY <1>1, <1>2, <2>1
  <2> QED
    BY <1>8, <2>1, <2>2
<1>10. ASSUME Audit!Stop PROVE AuditInv'
  <2>1. /\ writeTask # None /\ held[writeTask] # None
        /\ stored' = stored \o held[writeTask] /\ held' = [held EXCEPT ![writeTask] = None]
        /\ UNCHANGED <<logged, queue, writeTask, stopping, rewritten>>
    BY <1>10 DEF Audit!Stop, Audit!Leave
  <2>2. PICK w \in Writers : w = writeTask
    BY <1>1, <2>1 DEF Audit!TypeOK
  <2>3. /\ held' \in [Writers -> Seq(Audit!Entries) \union {None}] /\ held'[w] = None
        /\ \A v \in Writers : v # w => held'[v] = held[v]
    BY <1>1, <2>1, <2>2
  <2> QED
    BY <1>8, <2>1, <2>2, <2>3
<1>11. ASSUME Audit!StopUnheard PROVE AuditInv'
  <2>1. stopping' = TRUE /\ UNCHANGED <<logged, queue, writeTask, held, stored, rewritten>>
    BY <1>11 DEF Audit!StopUnheard
  <2>2. Audit!TypeOK'
    BY <1>1, <2>1 DEF Audit!TypeOK
  <2> QED
    BY <2>1, <2>2 DEF AuditInv
<1> QED
  BY <1>5, <1>6, <1>7, <1>9, <1>10, <1>11 DEF Audit!Next

LEMMA AuditKept == AuditInv => Audit!EntriesKept
<1>1. Audit!Held = Audit!FlattenSeq(HeldBy(held))
  BY DEF Audit!Held, HeldBy
<1>2. (stored \o Audit!Held) \o queue = AuditAll(stored, held, queue)
  BY <1>1 DEF AuditAll
<1> QED
  BY <1>2, Zenon DEF AuditInv, KeptAs, Audit!EntriesKept

LEMMA AuditStutter == AuditInv /\ UNCHANGED auditVars => AuditInv'
  BY DEF AuditInv, auditVars, Audit!TypeOK

------------------------------------------------------------------------------
(* The records together *)

LEMMA AuditInvariance == MCSpec => []AuditInv
<1>1. MCInit => AuditInv
  BY AuditInit DEF MCInit
<1>2. AuditInv /\ [MCNext]_MCvars => AuditInv'
  <2>1. CASE Audit!Next
    BY <2>1, AuditNext
  <2>2. AuditInv /\ UNCHANGED auditVars => AuditInv'
    BY AuditStutter
  <2> QED
    BY <2>1, <2>2, AuditNext, Moves
<1> QED
  BY <1>1, <1>2, PTL DEF MCSpec

LEMMA AlertsInvariance == MCSpec => []AlertsInv
<1>1. MCInit => AlertsInv
  BY AlertsInit DEF MCInit
<1>2. AlertsInv /\ [MCNext]_MCvars => AlertsInv'
  BY AlertsNext, Moves
<1> QED
  BY <1>1, <1>2, PTL DEF MCSpec

LEMMA BookmarksInvariance == MCSpec => []BookmarksInv
<1>1. MCInit => BookmarksInv
  BY BookmarksInit DEF MCInit
<1>2. BookmarksInv /\ [MCNext]_MCvars => BookmarksInv'
  BY BookmarksNext, Moves
<1> QED
  BY <1>1, <1>2, PTL DEF MCSpec

\* Every entry that was logged is in the store, in a batch or in the queue, once, and in
\* the order of the calls unless two writers overlapped; an alert is there, as it was
\* last asked for and under the id its creator was told, until it is deleted, if no id
\* after it was freed before; and a bookmark's fields are the ones that were last
\* committed, whatever the requests that overlap.
THEOREM RecordsAreKept == MCSpec => []RecordsKept
<1>1. AuditInv /\ AlertsInv /\ BookmarksInv => RecordsKept
  BY AuditKept, AlertsKept, BookmarksKept DEF RecordsKept
<1> QED
  BY <1>1, AuditInvariance, AlertsInvariance, BookmarksInvariance, PTL

------------------------------------------------------------------------------
(* What is read in several steps *)

\* A set that gains at most one element.
LEMMA OneMore ==
    ASSUME NEW A, NEW B, IsFiniteSet(A), NEW y, B \subseteq A \union {y}
    PROVE  /\ IsFiniteSet(B) /\ Cardinality(B) \in Nat /\ Cardinality(A) \in Nat
           /\ Cardinality(B) <= Cardinality(A) + 1
<1>1. /\ IsFiniteSet(A \union {y})
      /\ Cardinality(A \union {y}) = IF y \in A THEN Cardinality(A) ELSE Cardinality(A) + 1
  BY FS_AddElement
<1>2. IsFiniteSet(B) /\ Cardinality(B) <= Cardinality(A \union {y})
  BY <1>1, FS_Subset
<1>3. Cardinality(A) \in Nat /\ Cardinality(B) \in Nat
  BY <1>2, FS_CardinalityType
<1> QED
  BY <1>1, <1>2, <1>3

\* A set that gains the part of another that it does not have.
LEMMA Gains ==
    ASSUME NEW A, NEW B, IsFiniteSet(A), IsFiniteSet(B)
    PROVE  /\ IsFiniteSet(A \union B) /\ IsFiniteSet(A \intersect B)
           /\ Cardinality(A) \in Nat /\ Cardinality(B) \in Nat
           /\ Cardinality(A \union B) \in Nat /\ Cardinality(A \intersect B) \in Nat
           /\ Cardinality(A \union B) + Cardinality(A \intersect B)
                  = Cardinality(A) + Cardinality(B)
<1>1. /\ IsFiniteSet(A \union B)
      /\ Cardinality(A \union B)
             = Cardinality(A) + Cardinality(B) - Cardinality(A \intersect B)
  BY FS_Union
<1>2. IsFiniteSet(A \intersect B)
  BY FS_Intersection
<1>3. /\ Cardinality(A) \in Nat /\ Cardinality(B) \in Nat
      /\ Cardinality(A \union B) \in Nat /\ Cardinality(A \intersect B) \in Nat
  BY <1>1, <1>2, FS_CardinalityType
<1> QED
  BY <1>1, <1>2, <1>3

\* What has been read and is still ahead grows by one at most when one comes ahead.
LEMMA MovedBack ==
    ASSUME NEW E, IsFiniteSet(E), NEW A, NEW B, NEW c \in {0, 1}, NEW y,
           IF c = 0 THEN E \intersect B \subseteq A ELSE B \subseteq A \union {y}
    PROVE  /\ Cardinality(E \intersect A) \in Nat /\ Cardinality(E \intersect B) \in Nat
           /\ Cardinality(E \intersect B) <= Cardinality(E \intersect A) + c
<1>1. /\ IsFiniteSet(E \intersect A) /\ IsFiniteSet(E \intersect B)
      /\ Cardinality(E \intersect A) \in Nat /\ Cardinality(E \intersect B) \in Nat
  BY FS_Subset, FS_CardinalityType
<1>2. CASE c = 0
  <2>1. E \intersect B \subseteq E \intersect A
    BY <1>2
  <2>2. Cardinality(E \intersect B) <= Cardinality(E \intersect A)
    BY <1>1, <2>1, FS_Subset
  <2> QED
    BY <1>1, <1>2, <2>2
<1>3. CASE c = 1
  <2>1. E \intersect B \subseteq (E \intersect A) \union {y}
    BY <1>3
  <2> QED
    BY <1>1, <1>3, <2>1, OneMore
<1> QED
  BY <1>2, <1>3

\* What stayed and is neither read nor ahead, when one that was ahead no longer is.
LEMMA MovedOver ==
    ASSUME NEW S, IsFiniteSet(S), NEW T, T \subseteq S, NEW E, NEW A, NEW B, NEW g \in {0, 1},
           NEW z, IF g = 0 THEN A \intersect T \subseteq B ELSE A \intersect T \subseteq B \union {z}
    PROVE  /\ Cardinality(S \ (E \union A)) \in Nat /\ Cardinality(T \ (E \union B)) \in Nat
           /\ Cardinality(T \ (E \union B)) <= Cardinality(S \ (E \union A)) + g
<1>1. IsFiniteSet(T)
  BY FS_Subset
<1>2. /\ IsFiniteSet(S \ (E \union A)) /\ IsFiniteSet(T \ (E \union B))
      /\ Cardinality(S \ (E \union A)) \in Nat /\ Cardinality(T \ (E \union B)) \in Nat
  BY <1>1, FS_Subset, FS_CardinalityType
<1>3. CASE g = 0
  <2>1. T \ (E \union B) \subseteq S \ (E \union A)
    BY <1>3
  <2>2. Cardinality(T \ (E \union B)) <= Cardinality(S \ (E \union A))
    BY <1>2, <2>1, FS_Subset
  <2> QED
    BY <1>2, <1>3, <2>2
<1>4. CASE g = 1
  <2>1. T \ (E \union B) \subseteq (S \ (E \union A)) \union {z}
    BY <1>4
  <2> QED
    BY <1>2, <1>4, <2>1, OneMore
<1> QED
  BY <1>3, <1>4

\* A batch that is read: what it holds and what is ahead after it was ahead before.
LEMMA ReadOn ==
    ASSUME NEW E, NEW F, NEW A, NEW rest, IsFiniteSet(E), IsFiniteSet(F), IsFiniteSet(rest),
           F \union rest = A, F \intersect rest = {}, NEW n \in Nat, NEW c \in Nat,
           n + Cardinality(E \intersect A) <= Cardinality(E) + c
    PROVE  /\ (n + Cardinality(F)) + Cardinality((E \union F) \intersect rest)
                  <= Cardinality(E \union F) + c
           /\ Cardinality(F) \in Nat /\ Cardinality(E \union F) \in Nat
           /\ Cardinality((E \union F) \intersect rest) \in Nat
<1>1. (E \union F) \intersect rest = E \intersect rest
  OBVIOUS
<1>2. /\ Cardinality(E \union F) + Cardinality(E \intersect F) = Cardinality(E) + Cardinality(F)
      /\ Cardinality(E) \in Nat /\ Cardinality(F) \in Nat
      /\ Cardinality(E \union F) \in Nat /\ Cardinality(E \intersect F) \in Nat
      /\ IsFiniteSet(E \intersect F) /\ IsFiniteSet(E \intersect rest)
  BY Gains
<1>3. /\ (E \intersect F) \union (E \intersect rest) = E \intersect A
      /\ (E \intersect F) \intersect (E \intersect rest) = {}
  OBVIOUS
<1>4. /\ Cardinality((E \intersect F) \union (E \intersect rest))
             + Cardinality((E \intersect F) \intersect (E \intersect rest))
             = Cardinality(E \intersect F) + Cardinality(E \intersect rest)
      /\ Cardinality(E \intersect rest) \in Nat
      /\ Cardinality((E \intersect F) \union (E \intersect rest)) \in Nat
  BY <1>2, Gains
<1>5. /\ Cardinality(E \intersect A) + Cardinality({})
             = Cardinality(E \intersect F) + Cardinality(E \intersect rest)
      /\ Cardinality(E \intersect A) \in Nat
  BY <1>3, <1>4, Zenon
<1>6. Cardinality({}) = 0
  BY FS_EmptySet
<1>7. Cardinality((E \union F) \intersect rest) = Cardinality(E \intersect rest)
  BY <1>1, Zenon
<1> QED
  BY <1>2, <1>4, <1>5, <1>6, <1>7

\* The list s with e at place i.
With(s, i, e) ==
    [k \in 1..(Len(s) + 1) |-> IF k < i THEN s[k] ELSE IF k = i THEN e ELSE s[k - 1]]

LEMMA WithType ==
    ASSUME NEW R, NEW s \in Seq(R), NEW i \in 1..(Len(s) + 1), NEW e \in R
    PROVE  /\ With(s, i, e) \in Seq(R) /\ Len(With(s, i, e)) = Len(s) + 1
           /\ DOMAIN With(s, i, e) = 1..(Len(s) + 1)
<1> DEFINE n == Len(s)
           t == With(s, i, e)
<1>1. n \in Nat /\ i \in Nat
  OBVIOUS
<1>2. \A k \in 1..(n + 1) : /\ k < i => k \in 1..n
                            /\ ~(k < i) /\ k # i => k - 1 \in 1..n
  BY <1>1
<1>3. t \in [1..(n + 1) -> R]
  BY <1>2 DEF With
<1> HIDE DEF t
<1>4. n + 1 \in Nat /\ DOMAIN t = 1..(n + 1)
  BY <1>1, <1>3
<1>5. t \in Seq(R)
  BY <1>3, <1>4, SeqDef
<1>6. Len(t) = n + 1
  BY <1>4, <1>5, LenProperties
<1> QED
  BY <1>4, <1>5, <1>6 DEF t

\* The elements after the first n.
After(s, n) == {s[k] : k \in {j \in DOMAIN s : j > n}}

\* An insertion brings at most one element past the place n, and none back.
LEMMA AfterWith ==
    ASSUME NEW R, NEW s \in Seq(R), NEW i \in 1..(Len(s) + 1), NEW e \in R, NEW n \in Nat
    PROVE  /\ After(s, n) \subseteq After(With(s, i, e), n)
           /\ \E y : After(With(s, i, e), n) \subseteq After(s, n) \union {y}
<1> DEFINE t == With(s, i, e)
<1>1. /\ Len(s) \in Nat /\ DOMAIN s = 1..Len(s) /\ i \in Nat
      /\ DOMAIN t = 1..(Len(s) + 1)
  BY WithType
<1>2. \A k \in 1..(Len(s) + 1) : t[k] = IF k < i THEN s[k] ELSE IF k = i THEN e ELSE s[k - 1]
  BY DEF With
<1> HIDE DEF t
<1>3. ASSUME NEW k \in DOMAIN s, k > n PROVE s[k] \in After(t, n)
  <2>1. CASE k < i
    <3>1. k \in DOMAIN t /\ t[k] = s[k]
      BY <1>1, <1>2, <2>1
    <3> QED
      BY <1>3, <3>1 DEF After
  <2>2. CASE ~(k < i)
    <3>1. k + 1 \in DOMAIN t /\ t[k + 1] = s[k] /\ k + 1 > n
      BY <1>1, <1>2, <1>3, <2>2
    <3> QED
      BY <3>1 DEF After
  <2> QED
    BY <2>1, <2>2
<1>4. After(s, n) \subseteq After(t, n)
  BY <1>3 DEF After
<1> DEFINE y == IF i > n THEN e ELSE s[n]
<1>5. ASSUME NEW k \in DOMAIN t, k > n PROVE t[k] \in After(s, n) \/ t[k] = y
  <2>1. CASE k < i
    <3>1. k \in DOMAIN s /\ t[k] = s[k]
      BY <1>1, <1>2, <2>1
    <3> QED
      BY <1>5, <3>1 DEF After
  <2>2. CASE k = i
    BY <1>1, <1>2, <1>5, <2>2
  <2>3. CASE k > i
    <3>1. k - 1 \in DOMAIN s /\ t[k] = s[k - 1] /\ k - 1 >= n /\ (k - 1 = n => ~(i > n))
      BY <1>1, <1>2, <1>5, <2>3
    <3>2. CASE k - 1 > n
      BY <3>1, <3>2 DEF After
    <3>3. CASE k - 1 = n
      BY <3>1, <3>3
    <3> QED
      BY <1>1, <3>1, <3>2, <3>3
  <2> QED
    BY <1>1, <2>1, <2>2, <2>3
<1> HIDE DEF y
<1>6. After(t, n) \subseteq After(s, n) \union {y}
  BY <1>5 DEF After
<1> QED
  BY <1>4, <1>6 DEF t

LEMMA Joined ==
    ASSUME NEW R, NEW s \in Seq(R), NEW t \in Seq(R)
    PROVE  /\ s \o t \in Seq(R) /\ Len(s \o t) = Len(s) + Len(t)
           /\ Len(s) \in Nat /\ Len(t) \in Nat /\ DOMAIN (s \o t) = 1..(Len(s) + Len(t))
           /\ \A k \in 1..(Len(s) + Len(t)) :
                  (s \o t)[k] = IF k <= Len(s) THEN s[k] ELSE t[k - Len(s)]
  OBVIOUS

Elements(s) == {s[k] : k \in DOMAIN s}

LEMMA JoinedElements ==
    ASSUME NEW R, NEW s \in Seq(R), NEW t \in Seq(R)
    PROVE  /\ s \o t \in Seq(R) /\ Len(s \o t) = Len(s) + Len(t)
           /\ Elements(s \o t) = Elements(s) \union Elements(t)
<1>1. \A l : Audit!ToSet(l) = Elements(l)
  BY DEF Elements, Audit!ToSet
<1>2. /\ s \o t \in Seq(R) /\ Len(s \o t) = Len(s) + Len(t)
      /\ Audit!ToSet(s \o t) = Audit!ToSet(s) \union Audit!ToSet(t)
  BY Concatenation, Zenon
<1> QED
  BY <1>1, <1>2, Zenon

\* InsertAt of SequencesExt, and RemoveAt as its inverse.
LEMMA InsertIsWith ==
    ASSUME NEW R, NEW s \in Seq(R), NEW i \in 1..(Len(s) + 1), NEW e \in R
    PROVE  Export!InsertAt(s, i, e) = With(s, i, e) /\ Listing!InsertAt(s, i, e) = With(s, i, e)
<1> DEFINE n == Len(s)
           a == SubSeq(s, 1, i - 1)
           b == SubSeq(s, i, n)
           t == (a \o <<e>>) \o b
<1>1. n \in Nat /\ i \in Nat /\ 1 <= i /\ i <= n + 1 /\ s \in [1..n -> R]
  OBVIOUS
<1>2. /\ a \in Seq(R) /\ Len(a) = i - 1 /\ \A k \in 1..(i - 1) : a[k] = s[k]
      /\ b \in Seq(R) /\ Len(b) = n + 1 - i /\ \A k \in 1..(n + 1 - i) : b[k] = s[k + i - 1]
  OBVIOUS
<1> HIDE DEF n, a, b
<1>3. /\ a \o <<e>> \in Seq(R) /\ Len(a \o <<e>>) = i
      /\ \A k \in 1..i : (a \o <<e>>)[k] = IF k < i THEN a[k] ELSE e
  BY <1>1, <1>2
<1>4. PICK c \in Seq(R) : c = a \o <<e>>
  BY <1>3
<1>5. /\ c \o b \in Seq(R) /\ Len(c \o b) = n + 1 /\ DOMAIN (c \o b) = 1..(n + 1)
      /\ \A k \in 1..(n + 1) : (c \o b)[k] = IF k <= i THEN c[k] ELSE b[k - i]
  <2>1. Len(c) = i /\ Len(b) = n + 1 - i /\ i + (n + 1 - i) = n + 1 /\ b \in Seq(R)
    BY <1>1, <1>2, <1>3, <1>4
  <2>2. /\ c \o b \in Seq(R) /\ Len(c \o b) = Len(c) + Len(b)
        /\ DOMAIN (c \o b) = 1..(Len(c) + Len(b))
        /\ \A k \in 1..(Len(c) + Len(b)) :
               (c \o b)[k] = IF k <= Len(c) THEN c[k] ELSE b[k - Len(c)]
    <3>1. c \in Seq(R) /\ b \in Seq(R)
      BY <1>4, <2>1
    <3> QED
      BY <3>1, Joined, Zenon
  <2> QED
    BY <2>1, <2>2
<1>6. \A k \in 1..(n + 1) : t[k] = IF k < i THEN s[k] ELSE IF k = i THEN e ELSE s[k - 1]
  <2> TAKE k \in 1..(n + 1)
  <2>0. t[k] = IF k <= i THEN c[k] ELSE b[k - i]
    BY <1>4, <1>5
  <2>1. CASE k <= i
    <3>1. k \in 1..i /\ (k < i => k \in 1..(i - 1))
      BY <1>1, <2>1
    <3>2. t[k] = IF k < i THEN a[k] ELSE e
      BY <1>3, <1>4, <2>0, <2>1, <3>1
    <3> QED
      BY <1>1, <1>2, <2>1, <3>1, <3>2
  <2>2. CASE k > i
    <3> HIDE DEF t
    <3>1. k - i \in 1..(n + 1 - i) /\ (k - i) + i - 1 = k - 1
      BY <1>1, <2>2
    <3>2. t[k] = b[k - i]
      BY <1>1, <2>0, <2>2
    <3> QED
      BY <1>1, <1>2, <2>2, <3>1, <3>2
  <2> HIDE DEF t
  <2> QED
    BY <1>1, <2>1, <2>2
<1>7. t = With(s, i, e)
  <2>1. DOMAIN t = 1..(n + 1) /\ t = [k \in DOMAIN t |-> t[k]]
    BY <1>4, <1>5
  <2> HIDE DEF t
  <2> QED
    BY <1>6, <2>1 DEF With, n
<1> QED
  BY <1>7 DEF Export!InsertAt, Listing!InsertAt, n, a, b

LEMMA RemoveThenWith ==
    ASSUME NEW R, NEW s \in Seq(R), NEW i \in 1..Len(s)
    PROVE  /\ Export!RemoveAt(s, i) \in Seq(R) /\ Len(Export!RemoveAt(s, i)) = Len(s) - 1
           /\ With(Export!RemoveAt(s, i), i, s[i]) = s
           /\ Listing!RemoveAt(s, i) = Export!RemoveAt(s, i)
<1> DEFINE n == Len(s)
           a == SubSeq(s, 1, i - 1)
           b == SubSeq(s, i + 1, n)
           t == a \o b
<1>1. n \in Nat /\ i \in Nat /\ 1 <= i /\ i <= n /\ s \in [1..n -> R]
  OBVIOUS
<1>2. /\ a \in Seq(R) /\ Len(a) = i - 1 /\ \A k \in 1..(i - 1) : a[k] = s[k]
      /\ b \in Seq(R) /\ Len(b) = n - i /\ \A k \in 1..(n - i) : b[k] = s[k + i]
  OBVIOUS
<1> HIDE DEF n, a, b
<1>3. /\ t \in Seq(R) /\ Len(t) = n - 1
      /\ \A k \in 1..(n - 1) : t[k] = IF k < i THEN a[k] ELSE b[k - i + 1]
  <2>1. (i - 1) + (n - i) = n - 1 /\ \A k \in 1..(n - 1) : (k <= i - 1 <=> k < i) /\ k - (i - 1) = k - i + 1
    BY <1>1
  <2>2. /\ t \in Seq(R) /\ Len(t) = (i - 1) + (n - i)
        /\ \A k \in 1..((i - 1) + (n - i)) : t[k] = IF k <= i - 1 THEN a[k] ELSE b[k - (i - 1)]
    <3>1. /\ t \in Seq(R) /\ Len(t) = Len(a) + Len(b)
          /\ \A k \in 1..(Len(a) + Len(b)) : t[k] = IF k <= Len(a) THEN a[k] ELSE b[k - Len(a)]
      BY <1>2, Joined, Zenon
    <3> QED
      BY <1>2, <3>1
  <2> HIDE DEF t
  <2> QED
    BY <2>1, <2>2
<1>4. \A k \in 1..(n - 1) : t[k] = IF k < i THEN s[k] ELSE s[k + 1]
  <2> TAKE k \in 1..(n - 1)
  <2>1. k < i => k \in 1..(i - 1)
    BY <1>1
  <2>2. ~(k < i) => k - i + 1 \in 1..(n - i) /\ (k - i + 1) + i = k + 1
    BY <1>1
  <2> HIDE DEF t
  <2> QED
    BY <1>2, <1>3, <2>1, <2>2
<1> HIDE DEF t
<1>5. \A k \in 1..n : s[k] = IF k < i THEN t[k] ELSE IF k = i THEN s[i] ELSE t[k - 1]
  <2> TAKE k \in 1..n
  <2>1. (k < i => k \in 1..(n - 1)) /\ (k > i => k - 1 \in 1..(n - 1) /\ ~(k - 1 < i) /\ (k - 1) + 1 = k)
    BY <1>1
  <2> QED
    BY <1>1, <1>4, <2>1
<1>6. With(t, i, s[i]) = s
  <2>1. s = [k \in 1..n |-> s[k]]
    BY <1>1
  <2>2. With(t, i, s[i]) = [k \in 1..n |-> IF k < i THEN t[k] ELSE IF k = i THEN s[i] ELSE t[k - 1]]
    <3>1. Len(t) + 1 = n
      BY <1>1, <1>3
    <3> QED
      BY <3>1 DEF With
  <2> QED
    BY <1>5, <2>1, <2>2
<1> QED
  BY <1>3, <1>6 DEF Export!RemoveAt, Listing!RemoveAt, n, a, b, t

Distinct(s) == \A j, k \in DOMAIN s : s[j] = s[k] => j = k

LEMMA WithElements ==
    ASSUME NEW R, NEW s \in Seq(R), NEW i \in 1..(Len(s) + 1), NEW e \in R
    PROVE  /\ Elements(With(s, i, e)) = Elements(s) \union {e}
           /\ Distinct(With(s, i, e)) <=> Distinct(s) /\ e \notin Elements(s)
<1> DEFINE t == With(s, i, e)
<1>1. /\ Len(s) \in Nat /\ DOMAIN s = 1..Len(s) /\ i \in Nat /\ i <= Len(s) + 1
      /\ DOMAIN t = 1..(Len(s) + 1)
  BY WithType
<1>2. \A k \in 1..(Len(s) + 1) : t[k] = IF k < i THEN s[k] ELSE IF k = i THEN e ELSE s[k - 1]
  BY DEF With
<1> HIDE DEF t
<1> DEFINE up(k) == IF k < i THEN k ELSE k + 1
           down(k) == IF k < i THEN k ELSE k - 1
<1>3. /\ \A k \in DOMAIN s : up(k) \in DOMAIN t /\ up(k) # i /\ t[up(k)] = s[k] /\ down(up(k)) = k
      /\ i \in DOMAIN t /\ t[i] = e
      /\ \A k \in DOMAIN t : k # i => down(k) \in DOMAIN s /\ t[k] = s[down(k)] /\ up(down(k)) = k
  BY <1>1, <1>2
<1> HIDE DEF up, down
<1>4. Elements(t) = Elements(s) \union {e}
  BY <1>3 DEF Elements
<1>5. ASSUME Distinct(t) PROVE Distinct(s) /\ e \notin Elements(s)
  <2>1. \A j, k \in DOMAIN s : s[j] = s[k] => j = k
    <3> TAKE j, k \in DOMAIN s
    <3>1. up(j) \in DOMAIN t /\ up(k) \in DOMAIN t /\ (s[j] = s[k] => t[up(j)] = t[up(k)])
      BY <1>3
    <3> QED
      BY <1>3, <1>5, <3>1 DEF Distinct
  <2>2. \A k \in DOMAIN s : s[k] # e
    BY <1>3, <1>5 DEF Distinct
  <2> QED
    BY <2>1, <2>2 DEF Distinct, Elements
<1>6. ASSUME Distinct(s), e \notin Elements(s) PROVE Distinct(t)
  <2> SUFFICES ASSUME NEW j \in DOMAIN t, NEW k \in DOMAIN t, t[j] = t[k] PROVE j = k
    BY DEF Distinct
  <2>1. \A l \in DOMAIN s : s[l] # e
    BY <1>6 DEF Elements
  <2>2. CASE j = i \/ k = i
    BY <1>3, <2>1, <2>2
  <2>3. CASE j # i /\ k # i
    <3>1. down(j) = down(k)
      BY <1>3, <1>6, <2>3 DEF Distinct
    <3> QED
      BY <1>3, <2>3, <3>1
  <2> QED
    BY <2>2, <2>3
<1> QED
  BY <1>4, <1>5, <1>6 DEF t

LEMMA LeastOfTwo ==
    ASSUME NEW a \in Int, NEW b \in Int
    PROVE  /\ Export!Min({a, b}) = IF a <= b THEN a ELSE b
           /\ Listing!Min({a, b}) = IF a <= b THEN a ELSE b
<1> DEFINE m == IF a <= b THEN a ELSE b
           Least(x) == x \in {a, b} /\ \A y \in {a, b} : x <= y
<1>1. Least(m) /\ \A x : Least(x) => x = m
  OBVIOUS
<1>2. (CHOOSE x \in {a, b} : \A y \in {a, b} : x <= y) = m
  BY <1>1
<1> QED
  BY <1>2 DEF Export!Min, Listing!Min

\* A slice of a list, from the place after the first one to the last one or the end.
Slice(s, a, b) == SubSeq(s, a + 1, IF b <= Len(s) THEN b ELSE Len(s))

\* Where the elements of a slice are in the list.
CutAt(t, s, a, b) ==
    \A k \in DOMAIN t : a + k \in DOMAIN s /\ ~(a + k > b) /\ t[k] = s[a + k]

LEMMA SliceElements ==
    ASSUME NEW R, NEW s \in Seq(R), NEW a \in Nat, NEW b \in Nat, a <= b
    PROVE  /\ Slice(s, a, b) \in Seq(R) /\ Len(Slice(s, a, b)) \in Nat
           /\ Len(Slice(s, a, b)) <= b - a
           /\ Elements(Slice(s, a, b)) \union After(s, b) = After(s, a)
           /\ Distinct(s) => /\ Distinct(Slice(s, a, b))
                             /\ Elements(Slice(s, a, b)) \intersect After(s, b) = {}
           /\ Len(Slice(s, a, b)) # b - a => After(s, b) = {}
           /\ CutAt(Slice(s, a, b), s, a, b)
<1>a. PICK l \in Nat : l = Len(s)
  OBVIOUS
<1>b. PICK m \in Nat : m = IF b <= l THEN b ELSE l
  BY <1>a
<1>c. PICK t : t = SubSeq(s, a + 1, m)
  OBVIOUS
<1>d. m <= b /\ m <= l /\ (m = b \/ m = l)
  BY <1>b
<1>e. t = Slice(s, a, b)
  BY <1>a, <1>b, <1>c DEF Slice
<1>1. DOMAIN s = 1..l
  BY <1>a
<1>2. /\ t \in Seq(R) /\ Len(t) = IF a <= m THEN m - a ELSE 0
      /\ DOMAIN t = 1..Len(t) /\ \A k \in 1..Len(t) : t[k] = s[a + k]
  <2>1. CASE a + 1 <= m
    BY <1>a, <1>b, <1>c, <1>d, <1>1, <2>1
  <2>2. CASE ~(a + 1 <= m)
    <3>1. t = << >>
      BY <1>a, <1>b, <1>c, <1>d, <1>1, <2>2
    <3> QED
      BY <1>1, <2>2, <3>1
  <2> QED
    BY <2>1, <2>2
<1>3. Len(t) \in Nat /\ Len(t) <= b - a /\ (Len(t) # b - a => l < b)
  <2>1. PICK n \in Nat : n = Len(t)
    BY <1>2
  <2>2. n = IF a <= m THEN m - a ELSE 0
    BY <1>2, <2>1
  <2>3. n <= b - a /\ (n # b - a => l < b)
    <3>1. CASE b <= l
      BY <1>b, <2>2, <3>1
    <3>2. CASE ~(b <= l)
      BY <1>b, <2>2, <3>2
    <3> QED
      BY <3>1, <3>2
  <2> QED
    BY <2>1, <2>3, Zenon
<1>4. \A k \in 1..Len(t) : a + k \in DOMAIN s /\ a + k > a /\ ~(a + k > b)
  BY <1>d, <1>1, <1>2, <1>3
<1>5. \A j \in DOMAIN s : j > a /\ ~(j > b) => j - a \in 1..Len(t) /\ t[j - a] = s[j]
  <2> SUFFICES ASSUME NEW j \in DOMAIN s, j > a, ~(j > b) PROVE j - a \in 1..Len(t) /\ t[j - a] = s[j]
    OBVIOUS
  <2>1. j - a \in 1..Len(t) /\ a + (j - a) = j
    BY <1>b, <1>d, <1>1, <1>2
  <2> QED
    BY <1>2, <2>1
<1>6. Elements(t) \union After(s, b) = After(s, a)
  <2>1. Elements(t) \subseteq After(s, a)
    BY <1>2, <1>4 DEF Elements, After
  <2>2. After(s, b) \subseteq After(s, a)
    <3>1. \A j \in DOMAIN s : j > b => j > a
      BY <1>1
    <3> QED
      BY <3>1 DEF After
  <2>3. \A j \in DOMAIN s : j > a => s[j] \in Elements(t) \union After(s, b)
    <3> SUFFICES ASSUME NEW j \in DOMAIN s, j > a PROVE s[j] \in Elements(t) \union After(s, b)
      OBVIOUS
    <3>1. CASE j > b
      BY <3>1 DEF After
    <3>2. CASE ~(j > b)
      BY <1>2, <1>5, <3>2 DEF Elements
    <3> QED
      BY <3>1, <3>2
  <2> QED
    BY <2>1, <2>2, <2>3 DEF After
<1>7. ASSUME Distinct(s) PROVE Distinct(t) /\ Elements(t) \intersect After(s, b) = {}
  <2>1. \A j, k \in DOMAIN t : t[j] = t[k] => j = k
    <3> SUFFICES ASSUME NEW j \in DOMAIN t, NEW k \in DOMAIN t, t[j] = t[k] PROVE j = k
      OBVIOUS
    <3>1. a + j = a + k
      BY <1>2, <1>4, <1>7 DEF Distinct
    <3> QED
      BY <1>2, <1>3, <3>1
  <2>2. \A k \in DOMAIN t, j \in DOMAIN s : j > b => t[k] # s[j]
    BY <1>2, <1>4, <1>7 DEF Distinct
  <2> QED
    BY <2>1, <2>2 DEF Distinct, Elements, After
<1>8. ASSUME Len(t) # b - a PROVE After(s, b) = {}
  <2>1. \A j \in DOMAIN s : ~(j > b)
    BY <1>1, <1>3, <1>8
  <2> QED
    BY <2>1 DEF After
<1>9. CutAt(t, s, a, b)
  BY <1>2, <1>4 DEF CutAt
<1> QED
  BY <1>2, <1>3, <1>6, <1>7, <1>8, <1>9, <1>e

\* A list without repetitions has as many elements as places.
LEMMA DistinctCount ==
    ASSUME NEW R, NEW s \in Seq(R), Distinct(s)
    PROVE  IsFiniteSet(Elements(s)) /\ Cardinality(Elements(s)) = Len(s)
<1>1. Len(s) \in Nat /\ DOMAIN s = 1..Len(s)
  OBVIOUS
<1>2. s \in Bijection(1..Len(s), Elements(s))
  <2>1. s \in [1..Len(s) -> Elements(s)]
    <3>1. s = [k \in 1..Len(s) |-> s[k]]
      BY <1>1
    <3>2. \A k \in 1..Len(s) : s[k] \in Elements(s)
      BY <1>1 DEF Elements
    <3> QED
      BY <3>1, <3>2
  <2>2. \A j, k \in 1..Len(s) : s[j] = s[k] => j = k
    BY <1>1 DEF Distinct
  <2>3. \A x \in Elements(s) : \E k \in 1..Len(s) : s[k] = x
    BY <1>1 DEF Elements
  <2> QED
    BY <2>1, <2>2, <2>3 DEF Bijection, Injection, Surjection, IsInjective
<1>3. ExistsBijection(1..Len(s), Elements(s))
  BY <1>2 DEF ExistsBijection
<1>4. IsFiniteSet(1..Len(s)) /\ Cardinality(1..Len(s)) = Len(s)
  BY <1>1, UpTo
<1> QED
  BY <1>3, <1>4, FS_Bijection

------------------------------------------------------------------------------
(* PropertyExport *)

\* The rows that the export has not come to yet.
Ahead == After(table, batch_offset)

\* What will be exported again, and what was passed over.  A change moves at most one row
\* over the place that the export has come to.  A batch is shorter than BATCH_SIZE only
\* at the end of the table, where everything ahead is in it: from then on nothing that
\* was there at the start is missing but what was passed over, and a limit that is
\* reached early by the offset ends the export no sooner than that.
ExportInv ==
    /\ Export!TypeOK
    /\ gone <= changes /\ come <= changes
    /\ Elements(table) \union Elements(out) \subseteq 1..(MaxRows + changes)
    /\ Len(out) + offset <= batch_offset
    /\ limit # 0 => Len(out) < limit + BATCH_SIZE
    /\ limit # 0 /\ phase = "fetching" => batch_offset < offset + limit
    /\ Len(out) + Cardinality(Elements(out) \intersect Ahead)
           <= Cardinality(Elements(out)) + come
    /\ Cardinality(steady \ (Elements(out) \union Ahead)) <= gone
    /\ Len(out) + offset = batch_offset \/ Cardinality(steady \ Elements(out)) <= gone
    /\ phase = "success" =>
           \/ Cardinality(steady \ Elements(out)) <= gone
           \/ limit # 0 /\ Len(out) >= limit

LEMMA ExportFacts ==
    /\ MaxRows \in Nat /\ MaxChanges \in Nat /\ BATCH_SIZE \in Nat /\ BATCH_SIZE > 0
    /\ Limits \subseteq Nat /\ Offsets \subseteq Nat
    /\ IsFiniteSet(Export!Ids) /\ \A S \in SUBSET Export!Ids : IsFiniteSet(S) /\ Cardinality(S) \in Nat
    /\ \A S : Export!Cardinality(S) = Cardinality(S)
    /\ \A s : Export!ToSet(s) = Elements(s) /\ (Export!IsInjective(s) <=> Distinct(s))
<1>1. /\ MaxRows \in Nat /\ MaxChanges \in Nat /\ BATCH_SIZE \in Nat /\ BATCH_SIZE > 0
      /\ Limits \subseteq Nat /\ Offsets \subseteq Nat
  BY ServicesAssumption DEF Export!PropertyExportAssumption
<1>2. IsFiniteSet(Export!Ids)
  BY <1>1, UpTo DEF Export!Ids
<1>3. \A S \in SUBSET Export!Ids : IsFiniteSet(S) /\ Cardinality(S) \in Nat
  BY <1>2, FS_Subset, FS_CardinalityType
<1>4. \A S : Export!Cardinality(S) = Cardinality(S)
  BY DEF Export!Cardinality, Cardinality
<1>5. \A s : Export!ToSet(s) = Elements(s) /\ (Export!IsInjective(s) <=> Distinct(s))
  BY DEF Export!ToSet, Elements, Export!IsInjective, Distinct
<1> QED
  BY <1>1, <1>2, <1>3, <1>4, <1>5

LEMMA ExportTypes ==
    ASSUME Export!TypeOK
    PROVE  /\ table \in Seq(Export!Ids) /\ Distinct(table) /\ Len(table) \in Nat
           /\ DOMAIN table = 1..Len(table) /\ Elements(table) \subseteq Export!Ids
           /\ Ahead \subseteq Export!Ids
           /\ phase \in {"fetching", "success", "error"}
           /\ limit \in Nat /\ offset \in Nat /\ batch_offset \in Nat
           /\ out \in Seq(Export!Ids) /\ Len(out) \in Nat /\ Elements(out) \subseteq Export!Ids
           /\ changes \in Nat /\ gone \in Nat /\ come \in Nat /\ steady \subseteq Export!Ids
<1>1. table \in Seq(Export!Ids) /\ Distinct(table)
  BY ExportFacts DEF Export!TypeOK
<1>2. \A s \in Seq(Export!Ids) : /\ Len(s) \in Nat /\ DOMAIN s = 1..Len(s)
                                 /\ \A k \in DOMAIN s : s[k] \in Export!Ids
  OBVIOUS
<1>3. \A s \in Seq(Export!Ids) : /\ Elements(s) \subseteq Export!Ids
                                 /\ \A n : After(s, n) \subseteq Export!Ids
  BY <1>2 DEF Elements, After
<1>4. out \in Seq(Export!Ids) /\ steady \subseteq Export!Ids
  BY DEF Export!TypeOK
<1>5. /\ limit \in Nat /\ offset \in Nat /\ batch_offset \in Nat
      /\ changes \in Nat /\ gone \in Nat /\ come \in Nat
  BY ExportFacts DEF Export!TypeOK
<1> QED
  BY <1>1, <1>2, <1>3, <1>4, <1>5 DEF Ahead, Export!TypeOK

LEMMA ExportInit == Export!Init => ExportInv
<1> SUFFICES ASSUME Export!Init PROVE ExportInv
  OBVIOUS
<1>1. PICK n \in 0..MaxRows : table = [i \in 1..n |-> i]
  BY DEF Export!Init
<1>2. /\ n \in Nat /\ n <= MaxRows /\ MaxRows \in Nat /\ MaxChanges \in Nat
      /\ limit \in Limits /\ offset \in Offsets /\ limit \in Nat /\ offset \in Nat
      /\ phase = "fetching" /\ batch_offset = offset /\ out = << >>
      /\ changes = 0 /\ gone = 0 /\ come = 0
      /\ steady = Elements(SubSeq(table, offset + 1, Len(table)))
  BY <1>1, ExportFacts DEF Export!Init
<1>3. table \in Seq(Export!Ids) /\ Len(table) = n /\ Distinct(table)
  <2>1. \A i \in 1..n : i \in Export!Ids
    BY <1>2 DEF Export!Ids
  <2>2. table \in [1..n -> Export!Ids]
    BY <1>1, <2>1
  <2>3. table \in Seq(Export!Ids)
    BY <1>2, <2>2, SeqDef
  <2>4. Len(table) = n
    BY <1>2, <2>2, <2>3, LenProperties
  <2> QED
    BY <1>1, <2>3, <2>4 DEF Distinct
<1>4. Elements(table) \subseteq 1..(MaxRows + changes)
  <2>1. \A i \in 1..n : i \in 1..(MaxRows + 0)
    BY <1>2
  <2> QED
    BY <1>1, <1>2, <2>1 DEF Elements
<1>5. Elements(out) = {} /\ Len(out) = 0 /\ out \in Seq(Export!Ids)
  BY <1>2 DEF Elements
<1>6. steady = Ahead /\ steady \subseteq Export!Ids
  <2>1. \A k \in DOMAIN table : table[k] \in Export!Ids
    BY <1>3
  <2>2. Ahead \subseteq Export!Ids
    BY <2>1 DEF Ahead, After
  <2>3. SubSeq(table, offset + 1, n) = IF offset < n THEN [k \in 1..(n - offset) |-> table[offset + k]] ELSE << >>
    BY <1>2, <1>3
  <2>4. CASE offset < n
    <3>1. \A k \in 1..(n - offset) : offset + k \in 1..n /\ offset + k > offset
      BY <1>2, <2>4
    <3>2. \A j \in 1..n : j > offset => j - offset \in 1..(n - offset) /\ offset + (j - offset) = j
      BY <1>2, <2>4
    <3>3. DOMAIN table = 1..n
      BY <1>1
    <3> DEFINE f == [k \in 1..(n - offset) |-> table[offset + k]]
    <3>4. Elements(f) = After(table, offset)
      <4>1. Elements(f) = {table[offset + k] : k \in 1..(n - offset)}
        BY DEF Elements
      <4> HIDE DEF f
      <4> QED
        BY <3>1, <3>2, <3>3, <4>1 DEF After
    <3> QED
      BY <1>2, <1>3, <2>2, <2>3, <2>4, <3>4 DEF Ahead
  <2>5. CASE ~(offset < n)
    <3>1. \A j \in DOMAIN table : ~(j > offset)
      BY <1>1, <1>2, <2>5
    <3>2. Ahead = {}
      BY <1>2, <3>1 DEF Ahead, After
    <3>3. steady = Elements(<< >>)
      BY <1>2, <1>3, <2>3, <2>5
    <3> QED
      BY <3>2, <3>3 DEF Elements
  <2> QED
    BY <2>4, <2>5
<1>7. Export!TypeOK
  BY <1>2, <1>3, <1>5, <1>6, ExportFacts DEF Export!TypeOK
<1>8. /\ Elements(out) \intersect Ahead = {} /\ steady \ (Elements(out) \union Ahead) = {}
      /\ Cardinality({}) = 0
  BY <1>5, <1>6, FS_EmptySet
<1>9. BATCH_SIZE \in Nat /\ BATCH_SIZE > 0
  BY ExportFacts
<1>10. /\ Elements(table) \union Elements(out) \subseteq 1..(MaxRows + changes)
       /\ Cardinality(Elements(out)) = 0
  BY <1>4, <1>5, <1>8
<1>11. /\ Len(out) + offset <= batch_offset /\ Len(out) + offset = batch_offset
       /\ limit # 0 => Len(out) < limit + BATCH_SIZE
       /\ limit # 0 /\ phase = "fetching" => batch_offset < offset + limit
       /\ gone <= changes /\ come <= changes
  BY <1>2, <1>5, <1>9
<1>12. /\ Len(out) + Cardinality(Elements(out) \intersect Ahead) <= Cardinality(Elements(out)) + come
       /\ Cardinality(steady \ (Elements(out) \union Ahead)) <= gone
  <2>1. /\ Cardinality(Elements(out) \intersect Ahead) = 0
        /\ Cardinality(steady \ (Elements(out) \union Ahead)) = 0
    BY <1>8, Zenon
  <2> QED
    BY <1>2, <1>5, <1>10, <2>1
<1> QED
  BY <1>2, <1>7, <1>10, <1>11, <1>12 DEF ExportInv

\* A change: what is exported again grows by one at most, with come, and what is passed
\* over with gone.
LEMMA ExportChanged ==
    ASSUME ExportInv, Export!Change,
           table' \in Seq(Export!Ids), Distinct(table'),
           Elements(table') \subseteq 1..(MaxRows + changes'),
           steady' \subseteq steady, NEW c \in {0, 1}, NEW g \in {0, 1},
           come' = come + c, gone' = gone + g,
           NEW y, NEW z,
           IF c = 0 THEN Elements(out) \intersect Ahead' \subseteq Ahead
           ELSE Ahead' \subseteq Ahead \union {y},
           IF g = 0 THEN Ahead \intersect steady' \subseteq Ahead'
           ELSE Ahead \intersect steady' \subseteq Ahead' \union {z}
    PROVE  ExportInv'
<1>1. /\ phase = "fetching" /\ phase' = phase /\ changes < MaxChanges /\ changes' = changes + 1
      /\ limit' = limit /\ offset' = offset /\ batch_offset' = batch_offset /\ out' = out
  BY DEF Export!Change, Export!arguments, Export!progress
<1>2. Export!TypeOK
  BY DEF ExportInv
<1>3. c \in Nat /\ g \in Nat /\ c <= 1 /\ g <= 1 /\ (c # 0 => c = 1) /\ (g # 0 => g = 1)
  OBVIOUS
<1>4. gone <= changes /\ come <= changes
  BY DEF ExportInv
<1>5. changes \in 0..MaxChanges /\ MaxChanges \in Nat /\ gone \in Nat /\ come \in Nat
  BY <1>2, ExportFacts DEF Export!TypeOK
<1>6. changes' \in 0..MaxChanges /\ gone' \in 0..MaxChanges /\ come' \in 0..MaxChanges
  BY <1>1, <1>3, <1>4, <1>5
<1>7. Export!TypeOK'
  BY <1>1, <1>2, <1>6, ExportFacts DEF Export!TypeOK
<1>8. Ahead' \subseteq Export!Ids /\ Ahead \subseteq Export!Ids /\ Elements(out) \subseteq Export!Ids
  <2>1. Ahead' = After(table', batch_offset)
    BY <1>1 DEF Ahead
  <2>2. \A k \in DOMAIN table' : table'[k] \in Export!Ids
    OBVIOUS
  <2>3. Ahead' \subseteq Export!Ids
    BY <2>1, <2>2 DEF After
  <2> QED
    BY <1>2, <2>3, ExportTypes
<1> DEFINE E == Elements(out)
<1> HIDE DEF E
<1>9. /\ Cardinality(E \intersect Ahead') \in Nat /\ Cardinality(E \intersect Ahead) \in Nat
      /\ Cardinality(E \intersect Ahead') <= Cardinality(E \intersect Ahead) + c
  <2>1. IsFiniteSet(E)
    BY <1>8, ExportFacts DEF E
  <2>2. IF c = 0 THEN E \intersect Ahead' \subseteq Ahead ELSE Ahead' \subseteq Ahead \union {y}
    BY DEF E
  <2> QED
    BY <2>1, <2>2, MovedBack
<1>10. /\ Cardinality(steady' \ (E \union Ahead')) \in Nat
       /\ Cardinality(steady \ (E \union Ahead)) \in Nat
       /\ Cardinality(steady' \ (E \union Ahead')) <= Cardinality(steady \ (E \union Ahead)) + g
  <2>1. IsFiniteSet(steady)
    BY <1>2, ExportTypes, ExportFacts
  <2> QED
    BY <2>1, MovedOver
<1> USE DEF E
<1>11. Cardinality(steady' \ E) <= Cardinality(steady \ E) /\ Cardinality(steady \ E) \in Nat /\ Cardinality(steady' \ E) \in Nat
  <2>1. steady \ E \subseteq Export!Ids /\ steady' \ E \subseteq steady \ E
    BY <1>2, ExportTypes
  <2>2. IsFiniteSet(steady \ E) /\ Cardinality(steady \ E) \in Nat
    BY <2>1, ExportFacts
  <2> QED
    BY <2>1, <2>2, FS_Subset, FS_CardinalityType
<1>12. Cardinality(E) \in Nat
  BY <1>8, ExportFacts
<1>13. /\ Len(out) \in Nat /\ Elements(out)' = E
  BY <1>1, <1>2, ExportTypes
<1>14. /\ Len(out) + Cardinality(E \intersect Ahead) <= Cardinality(E) + come
       /\ Cardinality(steady \ (E \union Ahead)) <= gone
       /\ Len(out) + offset = batch_offset \/ Cardinality(steady \ E) <= gone
  BY DEF ExportInv
<1>15. E \subseteq 1..(MaxRows + changes')
  <2>1. E \subseteq 1..(MaxRows + changes)
    BY DEF ExportInv
  <2>2. \A i \in 1..(MaxRows + changes) : i \in 1..(MaxRows + changes')
    BY <1>1, <1>5, ExportFacts
  <2> QED
    BY <2>1, <2>2
<1> HIDE DEF E
<1>16. /\ Len(out) + Cardinality(E \intersect Ahead') <= Cardinality(E) + come'
       /\ Cardinality(steady' \ (E \union Ahead')) <= gone'
       /\ Len(out) + offset = batch_offset \/ Cardinality(steady' \ E) <= gone'
       /\ gone' <= changes' /\ come' <= changes'
  <2>1. Len(out) + Cardinality(E \intersect Ahead') <= Cardinality(E) + come'
    BY <1>3, <1>5, <1>9, <1>12, <1>13, <1>14
  <2>2. Cardinality(steady' \ (E \union Ahead')) <= gone'
    BY <1>3, <1>5, <1>10, <1>14
  <2>3. Len(out) + offset = batch_offset \/ Cardinality(steady' \ E) <= gone'
    BY <1>3, <1>5, <1>11, <1>14
  <2>4. gone' <= changes' /\ come' <= changes'
    BY <1>1, <1>3, <1>4, <1>5
  <2> QED
    BY <2>1, <2>2, <2>3, <2>4
<1> QED
  BY <1>1, <1>7, <1>13, <1>15, <1>16 DEF ExportInv

LEMMA ExportInsert ==
    ASSUME ExportInv, NEW i \in 1..(Len(table) + 1), Export!Insert(i)
    PROVE  ExportInv'
<1> DEFINE e == MaxRows + changes'
<1>1. /\ Export!Change /\ changes < MaxChanges /\ changes' = changes + 1
      /\ table' = Export!InsertAt(table, i, e)
      /\ come' = come + 1 /\ steady' = steady /\ gone' = gone
  BY DEF Export!Insert, Export!Change
<1>2. Export!TypeOK /\ Elements(table) \union Elements(out) \subseteq 1..(MaxRows + changes)
  BY DEF ExportInv
<1>3. /\ table \in Seq(Export!Ids) /\ Distinct(table) /\ changes \in Nat /\ batch_offset \in Nat
      /\ MaxRows \in Nat /\ MaxChanges \in Nat /\ gone \in Nat /\ come \in Nat
  BY <1>2, ExportTypes, ExportFacts
<1>4. /\ e \in Export!Ids /\ e \notin 1..(MaxRows + changes) /\ e \in 1..(MaxRows + changes')
      /\ 1..(MaxRows + changes) \subseteq 1..(MaxRows + changes')
  BY <1>1, <1>3 DEF Export!Ids
<1> HIDE DEF e
<1>5. table' = With(table, i, e)
  BY <1>1, <1>3, <1>4, InsertIsWith
<1>6. table' \in Seq(Export!Ids)
  BY <1>3, <1>4, <1>5, WithType
<1>7. Distinct(table') /\ Elements(table') \subseteq 1..(MaxRows + changes')
  <2>1. e \notin Elements(table)
    BY <1>2, <1>4
  <2>2. /\ Elements(table') = Elements(table) \union {e}
        /\ Distinct(table') <=> Distinct(table) /\ e \notin Elements(table)
    BY <1>3, <1>4, <1>5, WithElements
  <2> QED
    BY <1>2, <1>3, <1>4, <2>1, <2>2
<1>8. batch_offset' = batch_offset
  BY <1>1 DEF Export!Change, Export!progress
<1>9. Ahead \subseteq Ahead' /\ \E y : Ahead' \subseteq Ahead \union {y}
  <2>1. /\ After(table, batch_offset) \subseteq After(With(table, i, e), batch_offset)
        /\ \E y : After(With(table, i, e), batch_offset)
                      \subseteq After(table, batch_offset) \union {y}
    BY <1>3, <1>4, AfterWith
  <2> QED
    BY <1>5, <1>8, <2>1 DEF Ahead
<1>10. PICK y : Ahead' \subseteq Ahead \union {y}
  BY <1>9
<1>11. PICK c \in {0, 1}, g \in {0, 1} : c = 1 /\ g = 0
  OBVIOUS
<1>12. come' = come + c /\ gone' = gone + g /\ steady' \subseteq steady
  BY <1>1, <1>3, <1>11
<1>13. /\ (IF c = 0 THEN Elements(out) \intersect Ahead' \subseteq Ahead
           ELSE Ahead' \subseteq Ahead \union {y})
       /\ (IF g = 0 THEN Ahead \intersect steady' \subseteq Ahead'
           ELSE Ahead \intersect steady' \subseteq Ahead' \union {y})
  BY <1>9, <1>10, <1>11
<1> QED
  BY <1>1, <1>6, <1>7, <1>12, <1>13, ExportChanged

\* The table without the row at place i, and what is ahead in it.
LEMMA RowRemoved ==
    ASSUME ExportInv, NEW i \in 1..Len(table), NEW rest, rest = Export!RemoveAt(table, i)
    PROVE  /\ rest \in Seq(Export!Ids) /\ Len(rest) = Len(table) - 1
           /\ Distinct(rest) /\ table[i] \notin Elements(rest) /\ table[i] \in Export!Ids
           /\ Elements(table) = Elements(rest) \union {table[i]}
           /\ After(rest, batch_offset) \subseteq Ahead
           /\ \E z : Ahead \subseteq After(rest, batch_offset) \union {z}
<1>1. Export!TypeOK
  BY DEF ExportInv
<1>2. /\ table \in Seq(Export!Ids) /\ Distinct(table) /\ Len(table) \in Nat /\ batch_offset \in Nat
      /\ table[i] \in Export!Ids
  BY <1>1, ExportTypes
<1>3. rest \in Seq(Export!Ids) /\ Len(rest) = Len(table) - 1 /\ With(rest, i, table[i]) = table
  BY <1>2, RemoveThenWith
<1>4. i \in 1..(Len(rest) + 1)
  BY <1>2, <1>3
<1>5. /\ Elements(table) = Elements(rest) \union {table[i]}
      /\ Distinct(table) <=> Distinct(rest) /\ table[i] \notin Elements(rest)
  BY <1>2, <1>3, <1>4, WithElements
<1>6. /\ After(rest, batch_offset) \subseteq Ahead
      /\ \E z : Ahead \subseteq After(rest, batch_offset) \union {z}
  <2>1. /\ After(rest, batch_offset) \subseteq After(With(rest, i, table[i]), batch_offset)
        /\ \E z : After(With(rest, i, table[i]), batch_offset)
                      \subseteq After(rest, batch_offset) \union {z}
    <3>1. rest \in Seq(Export!Ids) /\ table[i] \in Export!Ids /\ batch_offset \in Nat
      BY <1>2, <1>3
    <3> QED
      BY <1>4, <3>1, AfterWith
  <2> QED
    BY <1>3, <2>1 DEF Ahead
<1> QED
  BY <1>2, <1>3, <1>5, <1>6

LEMMA ExportDelete ==
    ASSUME ExportInv, NEW i \in 1..Len(table), Export!Delete(i)
    PROVE  ExportInv'
<1>1. /\ Export!Change /\ changes < MaxChanges /\ changes' = changes + 1
      /\ table' = Export!RemoveAt(table, i)
      /\ come' = come /\ steady' = steady \ {table[i]} /\ gone' = gone + 1
      /\ batch_offset' = batch_offset
  BY DEF Export!Delete, Export!Change, Export!progress
<1>2. Export!TypeOK /\ Elements(table) \union Elements(out) \subseteq 1..(MaxRows + changes)
  BY DEF ExportInv
<1>3. changes \in Nat /\ MaxRows \in Nat /\ come \in Nat
  BY <1>2, ExportTypes, ExportFacts
<1>4. /\ table' \in Seq(Export!Ids) /\ Distinct(table')
      /\ Elements(table') \subseteq Elements(table)
      /\ Ahead' \subseteq Ahead /\ \E z : Ahead \subseteq Ahead' \union {z}
  BY <1>1, RowRemoved DEF Ahead
<1>5. Elements(table') \subseteq 1..(MaxRows + changes')
  <2>1. 1..(MaxRows + changes) \subseteq 1..(MaxRows + changes')
    BY <1>1, <1>3
  <2> QED
    BY <1>2, <1>4, <2>1
<1>6. PICK z : Ahead \subseteq Ahead' \union {z}
  BY <1>4
<1>7. PICK c \in {0, 1}, g \in {0, 1} : c = 0 /\ g = 1
  OBVIOUS
<1>8. come' = come + c /\ gone' = gone + g /\ steady' \subseteq steady
  BY <1>1, <1>3, <1>7
<1>9. /\ (IF c = 0 THEN Elements(out) \intersect Ahead' \subseteq Ahead
          ELSE Ahead' \subseteq Ahead \union {z})
      /\ (IF g = 0 THEN Ahead \intersect steady' \subseteq Ahead'
          ELSE Ahead \intersect steady' \subseteq Ahead' \union {z})
  BY <1>4, <1>6, <1>7
<1> QED
  BY <1>1, <1>4, <1>5, <1>8, <1>9, ExportChanged

LEMMA ExportUpdate ==
    ASSUME ExportInv, NEW i \in 1..Len(table), NEW j \in 1..Len(table), Export!Update(i, j)
    PROVE  ExportInv'
<1> DEFINE rest == Export!RemoveAt(table, i)
           e == table[i]
<1>1. /\ Export!Change /\ changes < MaxChanges /\ changes' = changes + 1
      /\ table' = Export!InsertAt(rest, j, e)
      /\ come' = come + 1 /\ steady' = steady \ {e} /\ gone' = gone + 1
      /\ batch_offset' = batch_offset
  BY DEF Export!Update, Export!Change, Export!progress
<1>2. Export!TypeOK /\ Elements(table) \union Elements(out) \subseteq 1..(MaxRows + changes)
  BY DEF ExportInv
<1>3. changes \in Nat /\ MaxRows \in Nat /\ Len(table) \in Nat /\ batch_offset \in Nat
  BY <1>2, ExportTypes, ExportFacts
<1>4. /\ rest \in Seq(Export!Ids) /\ Len(rest) = Len(table) - 1
      /\ Distinct(rest) /\ e \notin Elements(rest) /\ e \in Export!Ids
      /\ Elements(table) = Elements(rest) \union {e}
      /\ After(rest, batch_offset) \subseteq Ahead
      /\ \E z : Ahead \subseteq After(rest, batch_offset) \union {z}
  BY RowRemoved
<1> HIDE DEF rest, e
<1>5. j \in 1..(Len(rest) + 1)
  BY <1>3, <1>4
<1>6. table' = With(rest, j, e)
  BY <1>1, <1>4, <1>5, InsertIsWith
<1>7. /\ table' \in Seq(Export!Ids) /\ Distinct(table') /\ Elements(table') = Elements(table)
  BY <1>4, <1>5, <1>6, WithType, WithElements
<1>8. Elements(table') \subseteq 1..(MaxRows + changes')
  <2>1. 1..(MaxRows + changes) \subseteq 1..(MaxRows + changes')
    BY <1>1, <1>3
  <2> QED
    BY <1>2, <1>7, <2>1
<1>9. /\ After(rest, batch_offset) \subseteq Ahead'
      /\ \E y : Ahead' \subseteq After(rest, batch_offset) \union {y}
  <2>1. /\ After(rest, batch_offset) \subseteq After(With(rest, j, e), batch_offset)
        /\ \E y : After(With(rest, j, e), batch_offset)
                      \subseteq After(rest, batch_offset) \union {y}
    BY <1>3, <1>4, <1>5, AfterWith
  <2> QED
    BY <1>1, <1>6, <2>1 DEF Ahead
<1>10. PICK y : Ahead' \subseteq After(rest, batch_offset) \union {y}
  BY <1>9
<1>11. PICK z : Ahead \subseteq After(rest, batch_offset) \union {z}
  BY <1>4
<1>12. PICK c \in {0, 1}, g \in {0, 1} : c = 1 /\ g = 1
  OBVIOUS
<1>13. come' = come + c /\ gone' = gone + g /\ steady' \subseteq steady
  BY <1>1, <1>12
<1>14. /\ (IF c = 0 THEN Elements(out) \intersect Ahead' \subseteq Ahead
           ELSE Ahead' \subseteq Ahead \union {y})
       /\ (IF g = 0 THEN Ahead \intersect steady' \subseteq Ahead'
           ELSE Ahead \intersect steady' \subseteq Ahead' \union {z})
  BY <1>4, <1>9, <1>10, <1>11, <1>12
<1> QED
  BY <1>1, <1>7, <1>8, <1>13, <1>14, ExportChanged

\* A batch: what it holds and what is ahead after it are together what was ahead before.
LEMMA FetchedFacts ==
    ASSUME ExportInv
    PROVE  /\ Export!Fetched \in Seq(Export!Ids) /\ Len(Export!Fetched) \in Nat
           /\ Len(Export!Fetched) <= BATCH_SIZE /\ Distinct(Export!Fetched)
           /\ Elements(Export!Fetched) \union After(table, batch_offset + BATCH_SIZE) = Ahead
           /\ Elements(Export!Fetched) \intersect After(table, batch_offset + BATCH_SIZE) = {}
           /\ Len(Export!Fetched) # BATCH_SIZE => After(table, batch_offset + BATCH_SIZE) = {}
<1>1. Export!TypeOK
  BY DEF ExportInv
<1>2. /\ table \in Seq(Export!Ids) /\ Distinct(table) /\ Len(table) \in Nat
      /\ batch_offset \in Nat /\ BATCH_SIZE \in Nat
  BY <1>1, ExportTypes, ExportFacts
<1>3. PICK b \in Nat : b = batch_offset + BATCH_SIZE /\ batch_offset <= b /\ b - batch_offset = BATCH_SIZE
  BY <1>2
<1>4. Export!Fetched = Slice(table, batch_offset, b)
  <2>1. Export!Min({b, Len(table)}) = IF b <= Len(table) THEN b ELSE Len(table)
    BY <1>2, LeastOfTwo
  <2> QED
    BY <1>3, <2>1 DEF Export!Fetched, Slice
<1>5. /\ Slice(table, batch_offset, b) \in Seq(Export!Ids)
      /\ Len(Slice(table, batch_offset, b)) \in Nat
      /\ Len(Slice(table, batch_offset, b)) <= b - batch_offset
      /\ Elements(Slice(table, batch_offset, b)) \union After(table, b) = After(table, batch_offset)
      /\ Distinct(Slice(table, batch_offset, b))
      /\ Elements(Slice(table, batch_offset, b)) \intersect After(table, b) = {}
      /\ Len(Slice(table, batch_offset, b)) # b - batch_offset => After(table, b) = {}
  <2>1. /\ table \in Seq(Export!Ids) /\ Distinct(table)
        /\ batch_offset \in Nat /\ b \in Nat /\ batch_offset <= b
    BY <1>2, <1>3
  <2> QED
    BY <2>1, SliceElements
<1> QED
  BY <1>2, <1>3, <1>4, <1>5 DEF Ahead

LEMMA ExportFetch == ASSUME ExportInv, Export!Fetch PROVE ExportInv'
<1> DEFINE f == Export!Fetched
           E == Elements(out)
           F == Elements(f)
           rest == After(table, batch_offset + BATCH_SIZE)
<1>1. /\ phase = "fetching" /\ out' = out \o f /\ batch_offset' = batch_offset + BATCH_SIZE
      /\ phase' = IF limit # 0 /\ batch_offset' - offset >= limit THEN "success" ELSE "fetching"
      /\ table' = table /\ changes' = changes /\ limit' = limit /\ offset' = offset
      /\ steady' = steady /\ gone' = gone /\ come' = come
  BY DEF Export!Fetch, Export!Advance, Export!Enough, Export!arguments, Export!history
<1>2. Export!TypeOK
  BY DEF ExportInv
<1>3. /\ f \in Seq(Export!Ids) /\ Len(f) \in Nat /\ Len(f) <= BATCH_SIZE /\ Distinct(f)
      /\ F \union rest = Ahead /\ F \intersect rest = {}
      /\ Len(f) # BATCH_SIZE => rest = {}
  BY FetchedFacts
<1>4. /\ out \in Seq(Export!Ids) /\ Len(out) \in Nat /\ E \subseteq Export!Ids
      /\ Ahead \subseteq Export!Ids /\ steady \subseteq Export!Ids
      /\ limit \in Nat /\ offset \in Nat /\ batch_offset \in Nat /\ BATCH_SIZE \in Nat
      /\ changes \in Nat /\ gone \in Nat /\ come \in Nat
  BY <1>2, ExportTypes, ExportFacts
<1>5. Ahead' = rest
  BY <1>1 DEF Ahead
<1> HIDE DEF f
<1>6. /\ out' \in Seq(Export!Ids) /\ Len(out') = Len(out) + Len(f) /\ Elements(out') = E \union F
  BY <1>1, <1>3, <1>4, JoinedElements
<1>7. /\ IsFiniteSet(E) /\ IsFiniteSet(F) /\ IsFiniteSet(rest) /\ Cardinality(F) = Len(f)
      /\ F \subseteq Export!Ids /\ rest \subseteq Export!Ids
  <2>1. Cardinality(F) = Len(f)
    BY <1>3, DistinctCount
  <2>2. F \subseteq Export!Ids /\ rest \subseteq Export!Ids
    BY <1>3, <1>4
  <2> HIDE DEF E, F, rest
  <2> QED
    BY <1>4, <2>1, <2>2, ExportFacts
<1>8. Export!TypeOK'
  <2>1. batch_offset' \in Nat /\ phase' \in {"fetching", "success", "error"}
    BY <1>1, <1>4
  <2> QED
    BY <1>1, <1>2, <1>6, <2>1, ExportFacts DEF Export!TypeOK
<1> HIDE DEF E, F, rest
<1>9. /\ Len(out) + Cardinality(E \intersect Ahead) <= Cardinality(E) + come
      /\ Cardinality(steady \ (E \union Ahead)) <= gone
      /\ Len(out) + offset = batch_offset \/ Cardinality(steady \ E) <= gone
      /\ gone <= changes /\ come <= changes /\ Elements(table) \union E \subseteq 1..(MaxRows + changes)
      /\ Len(out) + offset <= batch_offset
      /\ limit # 0 => Len(out) < limit + BATCH_SIZE /\ batch_offset < offset + limit
  BY <1>1 DEF ExportInv, E
<1>10. (Len(out) + Len(f)) + Cardinality((E \union F) \intersect rest)
           <= Cardinality(E \union F) + come
  <2>1. (Len(out) + Cardinality(F)) + Cardinality((E \union F) \intersect rest)
            <= Cardinality(E \union F) + come
    BY <1>3, <1>4, <1>7, <1>9, ReadOn
  <2> QED
    BY <1>7, <2>1
<1>11. Cardinality(steady \ ((E \union F) \union rest)) <= gone
  <2>1. (E \union F) \union rest = E \union Ahead
    BY <1>3
  <2> QED
    BY <1>9, <2>1, Zenon
<1>12. \/ Len(out) + Len(f) + offset = batch_offset + BATCH_SIZE
       \/ Cardinality(steady \ (E \union F)) <= gone
  <2>1. CASE Len(f) # BATCH_SIZE
    <3>1. (E \union F) \union rest = E \union F
      BY <1>3, <2>1
    <3> QED
      BY <1>11, <3>1, Zenon
  <2>2. CASE Len(f) = BATCH_SIZE
    <3>1. CASE Len(out) + offset = batch_offset
      BY <1>3, <1>4, <2>2, <3>1
    <3>2. CASE Cardinality(steady \ E) <= gone
      <4>1. steady \ E \subseteq Export!Ids /\ steady \ (E \union F) \subseteq steady \ E
        BY <1>4
      <4>2. IsFiniteSet(steady \ E) /\ Cardinality(steady \ E) \in Nat
        BY <4>1, ExportFacts
      <4>3. /\ Cardinality(steady \ (E \union F)) <= Cardinality(steady \ E)
            /\ Cardinality(steady \ (E \union F)) \in Nat
        BY <4>1, <4>2, FS_Subset, FS_CardinalityType
      <4> QED
        BY <1>4, <3>2, <4>2, <4>3
    <3> QED
      BY <1>9, <3>1, <3>2
  <2> QED
    BY <2>1, <2>2
<1>13. /\ (Len(out) + Len(f)) + offset <= batch_offset + BATCH_SIZE
       /\ limit # 0 => (Len(out) + Len(f)) < limit + BATCH_SIZE
       /\ limit # 0 /\ phase' = "fetching" => batch_offset + BATCH_SIZE < offset + limit
       /\ phase' = "success" /\ (Len(out) + Len(f)) + offset = batch_offset + BATCH_SIZE =>
              limit # 0 /\ (Len(out) + Len(f)) >= limit
  BY <1>1, <1>3, <1>4, <1>9
<1>14. Elements(table) \union (E \union F) \subseteq 1..(MaxRows + changes)
  <2>1. Ahead \subseteq Elements(table)
    BY DEF Ahead, After, Elements
  <2> QED
    BY <1>3, <1>9, <2>1
<1> QED
  BY <1>1, <1>5, <1>6, <1>8, <1>9, <1>10, <1>11, <1>12, <1>13, <1>14 DEF ExportInv

\* Nothing is ahead when a batch is empty.
LEMMA ExportFindNoMore == ASSUME ExportInv, Export!FindNoMore PROVE ExportInv'
<1>1. /\ phase = "fetching" /\ phase' = "success" /\ Export!Fetched = << >>
      /\ UNCHANGED <<table, changes, limit, offset, batch_offset, out, steady, gone, come>>
  BY DEF Export!FindNoMore, Export!arguments, Export!history
<1>2. Len(Export!Fetched) = 0 /\ Elements(Export!Fetched) = {} /\ BATCH_SIZE # 0
  BY <1>1, ExportFacts DEF Elements
<1>3. Ahead = {}
  BY <1>2, FetchedFacts
<1>4. Elements(out) \union Ahead = Elements(out)
  BY <1>3
<1>5. Cardinality(steady \ Elements(out)) <= gone
  BY <1>4, Zenon DEF ExportInv
<1>6. Export!TypeOK'
  BY <1>1 DEF ExportInv, Export!TypeOK
<1>7. Ahead' = Ahead
  BY <1>1 DEF Ahead
<1> QED
  BY <1>1, <1>5, <1>6, <1>7 DEF ExportInv

LEMMA ExportNext == ASSUME ExportInv, [Export!Next]_exportVars PROVE ExportInv'
<1>1. CASE UNCHANGED exportVars
  BY <1>1 DEF exportVars, ExportInv, Export!TypeOK, Ahead
<1>2. CASE Export!Fail
  BY <1>2 DEF ExportInv, Export!TypeOK, Ahead, Export!Fail, Export!arguments, Export!history
<1> QED
  BY <1>1, <1>2, ExportFetch, ExportFindNoMore, ExportInsert, ExportDelete, ExportUpdate
     DEF Export!Next

LEMMA ExportSound == ExportInv => Export!ExportOffByChanges
<1> SUFFICES ASSUME ExportInv PROVE Export!ExportOffByChanges
  OBVIOUS
<1>1. Export!TypeOK
  BY DEF ExportInv
<1>2. /\ Len(out) \in Nat /\ come \in Nat /\ steady \subseteq Export!Ids
      /\ Elements(out) \subseteq Export!Ids /\ Ahead \subseteq Export!Ids
  BY <1>1, ExportTypes
<1>3. /\ Cardinality(Elements(out)) \in Nat
      /\ Cardinality(Elements(out) \intersect Ahead) \in Nat
  <2>1. Elements(out) \intersect Ahead \subseteq Export!Ids
    BY <1>2
  <2> QED
    BY <1>2, <2>1, ExportFacts
<1>4. Len(out) - Cardinality(Elements(out)) <= come
  <2>1. Len(out) + Cardinality(Elements(out) \intersect Ahead) <= Cardinality(Elements(out)) + come
    BY DEF ExportInv
  <2> QED
    BY <1>2, <1>3, <2>1
<1>5. Export!ToSet(out) = Elements(out)
  BY ExportFacts
<1>6. /\ limit # 0 => Len(out) < limit + BATCH_SIZE
      /\ phase = "success" => \/ Cardinality(steady \ Elements(out)) <= gone
                              \/ limit # 0 /\ Len(out) >= limit
  BY DEF ExportInv
<1> QED
  BY <1>4, <1>5, <1>6, ExportFacts DEF Export!ExportOffByChanges

LEMMA ExportInvariance == MCSpec => []ExportInv
<1>1. MCInit => ExportInv
  BY ExportInit DEF MCInit
<1>2. ExportInv /\ [MCNext]_MCvars => ExportInv'
  BY ExportNext, Moves
<1> QED
  BY <1>1, <1>2, PTL DEF MCSpec

------------------------------------------------------------------------------
(* Bookmarks: the counts *)

\* The counts are made in one order.  The rows that are active now differ from those that
\* were counted by no more than the rows that changed, and as many collections as active
\* bookmarks are named at most.
CountsInv ==
    /\ counts = [c \in DOMAIN counts |-> counts[c]]
    /\ DOMAIN counts \in {{}, {"favorites"}, {"favorites", "bookmarks"},
                          {"favorites", "bookmarks", "collections"},
                          {"favorites", "bookmarks", "collections", "cities"}}
    /\ DOMAIN counts = {} => rowsChanged = 0
    /\ "favorites" \in DOMAIN counts =>
           /\ Cardinality(Bookmark!Active("favorite")) <= counts.favorites + rowsChanged
           /\ counts.favorites <= Cardinality(Bookmark!Active("favorite")) + rowsChanged
    /\ "bookmarks" \in DOMAIN counts =>
           Cardinality(Bookmark!Active("bookmark")) <= counts.bookmarks + rowsChanged
    /\ "collections" \in DOMAIN counts => counts.collections <= counts.bookmarks + rowsChanged
    /\ "cities" \in DOMAIN counts =>
           /\ counts.cities <= counts.favorites + rowsChanged
           /\ counts.favorites <= counts.cities + rowsChanged

LEMMA ActiveCounts ==
    /\ \A S \in SUBSET Bookmark!RowKeys : IsFiniteSet(S) /\ Cardinality(S) \in Nat
    /\ Bookmark!Active("favorite") \in SUBSET Bookmark!RowKeys
    /\ Bookmark!Active("bookmark") \in SUBSET Bookmark!RowKeys
    /\ Cardinality(Bookmark!Named) \in Nat
    /\ Cardinality(Bookmark!Named) <= Cardinality(Bookmark!Active("bookmark"))
<1>1. IsFiniteSet(Properties)
  BY ServicesAssumption, BookmarkCardinality DEF Bookmark!BookmarksAssumption
<1>2. IsFiniteSet(Bookmark!Types)
  <2>1. IsFiniteSet({}) /\ IsFiniteSet({} \union {"favorite"})
    BY FS_EmptySet, FS_AddElement
  <2>2. IsFiniteSet(({} \union {"favorite"}) \union {"bookmark"})
    BY <2>1, FS_AddElement
  <2>3. ({} \union {"favorite"}) \union {"bookmark"} = Bookmark!Types
    BY DEF Bookmark!Types
  <2> QED
    BY <2>2, <2>3
<1>3. IsFiniteSet(Bookmark!RowKeys)
  BY <1>1, <1>2, FS_Product DEF Bookmark!RowKeys
<1>4. \A S \in SUBSET Bookmark!RowKeys : IsFiniteSet(S) /\ Cardinality(S) \in Nat
  BY <1>3, FS_Subset, FS_CardinalityType
<1>5. \A type \in Bookmark!Types : Bookmark!Active(type) \in SUBSET Bookmark!RowKeys
  BY DEF Bookmark!Active, Bookmark!Existing, Bookmark!RowKeys
<1>6. /\ Bookmark!Active("favorite") \in SUBSET Bookmark!RowKeys
      /\ Bookmark!Active("bookmark") \in SUBSET Bookmark!RowKeys
  BY <1>5 DEF Bookmark!Types
<1> DEFINE keys == Bookmark!Active("bookmark")
           given == {rows[k].collection : k \in keys}
<1>7. Bookmark!Named = given \ {None}
  BY DEF Bookmark!Named
<1> HIDE DEF keys
<1>8. IsFiniteSet(keys) /\ Cardinality(keys) \in Nat
  BY <1>4, <1>6 DEF keys
<1>9. IsFiniteSet(given) /\ Cardinality(given) <= Cardinality(keys)
  <2> DEFINE f == [k \in keys |-> rows[k].collection]
  <2>1. f \in Surjection(keys, given)
    BY DEF Surjection
  <2> QED
    BY <1>8, <2>1, FS_Surjection
<1>10. /\ IsFiniteSet(given \ {None}) /\ Cardinality(given \ {None}) <= Cardinality(given)
       /\ Cardinality(given \ {None}) \in Nat /\ Cardinality(given) \in Nat
  BY <1>9, FS_Subset, FS_CardinalityType
<1> HIDE DEF given
<1>11. Cardinality(given \ {None}) <= Cardinality(keys)
  BY <1>8, <1>9, <1>10
<1>12. Cardinality(Bookmark!Named) \in Nat /\ Cardinality(Bookmark!Named) <= Cardinality(keys)
  BY <1>7, <1>10, <1>11
<1> QED
  BY <1>4, <1>6, <1>12 DEF keys

LEMMA CountsInit == Bookmark!Init => CountsInv
<1> SUFFICES ASSUME Bookmark!Init PROVE CountsInv
  OBVIOUS
<1>1. counts = Bookmark!NoCounts /\ rowsChanged = 0 /\ DOMAIN Bookmark!NoCounts = {}
  BY DEF Bookmark!Init, Bookmark!NoCounts
<1>2. Bookmark!NoCounts = [c \in DOMAIN Bookmark!NoCounts |-> Bookmark!NoCounts[c]]
  BY DEF Bookmark!NoCounts
<1> QED
  BY <1>1, <1>2 DEF CountsInv

LEMMA CountsCommit ==
    ASSUME BookmarksInv, CountsInv, NEW s \in Sessions, Bookmark!Commit(s)
    PROVE  CountsInv'
<1> DEFINE keys == DOMAIN pending[s]
           k == Cardinality(keys)
           F == Bookmark!Active("favorite")
           B == Bookmark!Active("bookmark")
<1>1. /\ rows' = [l \in Bookmark!RowKeys |-> IF l \in keys THEN pending[s][l] ELSE rows[l]]
      /\ rowsChanged' = IF counts = Bookmark!NoCounts THEN 0
                        ELSE rowsChanged + Bookmark!Cardinality(keys)
      /\ counts' = counts
  BY DEF Bookmark!Commit
<1>2. keys \subseteq Bookmark!RowKeys /\ rowsChanged \in Nat /\ \A c \in DOMAIN counts : counts[c] \in Nat
  BY DEF BookmarksInv, Bookmark!TypeOK
<1>3. IsFiniteSet(keys) /\ k \in Nat /\ k = Bookmark!Cardinality(keys)
  BY <1>2, ActiveCounts, BookmarkCardinality
<1>4. ASSUME NEW type \in Bookmark!Types
      PROVE  /\ Bookmark!Active(type)' \subseteq Bookmark!Active(type) \union keys
             /\ Bookmark!Active(type) \subseteq Bookmark!Active(type)' \union keys
  <2>1. Properties \X {type} \subseteq Bookmark!RowKeys
    BY DEF Bookmark!RowKeys
  <2>2. \A l \in Properties \X {type} : l \notin keys => rows'[l] = rows[l]
    BY <1>1, <2>1
  <2> QED
    BY <2>2 DEF Bookmark!Active, Bookmark!Existing
<1>5. /\ F' \subseteq F \union keys /\ F \subseteq F' \union keys /\ B' \subseteq B \union keys
      /\ F \in SUBSET Bookmark!RowKeys /\ B \in SUBSET Bookmark!RowKeys
      /\ F' \in SUBSET Bookmark!RowKeys /\ B' \in SUBSET Bookmark!RowKeys
  <2>1. "favorite" \in Bookmark!Types /\ "bookmark" \in Bookmark!Types
    BY DEF Bookmark!Types
  <2>2. \A type \in Bookmark!Types : Bookmark!Active(type)' \in SUBSET Bookmark!RowKeys
    BY DEF Bookmark!Active, Bookmark!Existing, Bookmark!RowKeys
  <2> QED
    BY <1>4, <2>1, <2>2, ActiveCounts
<1>6. PICK f, g, b, c : f = F /\ g = F' /\ b = B /\ c = B'
  OBVIOUS
<1> HIDE DEF keys, F, B
<1>7. \A S \in SUBSET Bookmark!RowKeys : IsFiniteSet(S) /\ Cardinality(S) \in Nat
  BY ActiveCounts
<1>8. /\ IsFiniteSet(f) /\ IsFiniteSet(g) /\ IsFiniteSet(b) /\ IsFiniteSet(c)
      /\ Cardinality(f) \in Nat /\ Cardinality(g) \in Nat
      /\ Cardinality(b) \in Nat /\ Cardinality(c) \in Nat
      /\ g \subseteq f \union keys /\ f \subseteq g \union keys /\ c \subseteq b \union keys
  BY <1>5, <1>6, <1>7
<1>9. ASSUME NEW X, NEW Y, IsFiniteSet(X), IsFiniteSet(Y), X \subseteq Y \union keys,
             Cardinality(X) \in Nat, Cardinality(Y) \in Nat
      PROVE  Cardinality(X) <= Cardinality(Y) + k
  <2>1. /\ IsFiniteSet(Y \union keys) /\ Cardinality(Y \union keys) \in Nat
        /\ Cardinality(Y \union keys) + Cardinality(Y \intersect keys) = Cardinality(Y) + k
        /\ Cardinality(Y \intersect keys) \in Nat
    BY <1>3, <1>9, Gains
  <2>2. Cardinality(X) <= Cardinality(Y \union keys)
    BY <1>9, <2>1, FS_Subset
  <2> QED
    BY <1>3, <1>9, <2>1, <2>2
<1>10. /\ Cardinality(g) <= Cardinality(f) + k
       /\ Cardinality(f) <= Cardinality(g) + k
       /\ Cardinality(c) <= Cardinality(b) + k
  BY <1>8, <1>9
<1>11. CASE DOMAIN counts = {}
  <2>1. counts = Bookmark!NoCounts
    BY <1>11 DEF CountsInv, Bookmark!NoCounts
  <2> QED
    BY <1>1, <1>11, <2>1 DEF CountsInv
<1>12. CASE DOMAIN counts # {}
  <2>1. counts # Bookmark!NoCounts
    BY <1>12 DEF Bookmark!NoCounts
  <2>2. rowsChanged' = rowsChanged + k /\ k \in Nat
    BY <1>1, <1>3, <2>1
  <2> HIDE DEF k
  <2>3. "favorites" \in DOMAIN counts =>
            /\ Cardinality(f) <= counts.favorites + rowsChanged
            /\ counts.favorites <= Cardinality(f) + rowsChanged
    BY <1>6 DEF CountsInv, F
  <2>4. "bookmarks" \in DOMAIN counts => Cardinality(b) <= counts.bookmarks + rowsChanged
    BY <1>6 DEF CountsInv, B
  <2>5. "favorites" \in DOMAIN counts =>
            /\ Cardinality(g) <= counts.favorites + rowsChanged'
            /\ counts.favorites <= Cardinality(g) + rowsChanged'
    BY <1>2, <1>8, <1>10, <2>2, <2>3
  <2>6. "bookmarks" \in DOMAIN counts => Cardinality(c) <= counts.bookmarks + rowsChanged'
    BY <1>2, <1>8, <1>10, <2>2, <2>4
  <2>7. /\ "collections" \in DOMAIN counts => counts.collections <= counts.bookmarks + rowsChanged'
        /\ "cities" \in DOMAIN counts =>
               /\ counts.cities <= counts.favorites + rowsChanged'
               /\ counts.favorites <= counts.cities + rowsChanged'
    <3>1. /\ "collections" \in DOMAIN counts => counts.collections <= counts.bookmarks + rowsChanged
          /\ "cities" \in DOMAIN counts =>
               /\ counts.cities <= counts.favorites + rowsChanged
               /\ counts.favorites <= counts.cities + rowsChanged
          /\ "collections" \in DOMAIN counts => "bookmarks" \in DOMAIN counts
          /\ "cities" \in DOMAIN counts => "favorites" \in DOMAIN counts
      BY DEF CountsInv
    <3> QED
      BY <1>2, <2>2, <3>1
  <2>8. g = Bookmark!Active("favorite")' /\ c = Bookmark!Active("bookmark")'
    BY <1>6 DEF F, B
  <2> QED
    BY <1>1, <1>12, <2>5, <2>6, <2>7, <2>8 DEF CountsInv
<1> QED
  BY <1>11, <1>12

LEMMA CountsCount ==
    ASSUME BookmarksInv, CountsInv,
           \/ Bookmark!CountFavorites \/ Bookmark!CountBookmarks
           \/ Bookmark!CountCollections \/ Bookmark!CountCities
    PROVE  CountsInv'
<1> DEFINE F == Cardinality(Bookmark!Active("favorite"))
           B == Cardinality(Bookmark!Active("bookmark"))
           N == Cardinality(Bookmark!Named)
<1>1. /\ F \in Nat /\ B \in Nat /\ N \in Nat /\ N <= B
      /\ F = Bookmark!Cardinality(Bookmark!Active("favorite"))
      /\ B = Bookmark!Cardinality(Bookmark!Active("bookmark"))
      /\ N = Bookmark!Cardinality(Bookmark!Named)
  BY ActiveCounts, BookmarkCardinality
<1>2. rowsChanged \in Nat /\ \A c \in DOMAIN counts : counts[c] \in Nat
  BY DEF BookmarksInv, Bookmark!TypeOK
<1>3. PICK c, n : /\ Bookmark!Count(c, n)
                  /\ \/ counts = Bookmark!NoCounts /\ c = "favorites" /\ n = F
                     \/ DOMAIN counts = {"favorites"} /\ c = "bookmarks" /\ n = B
                     \/ DOMAIN counts = {"favorites", "bookmarks"} /\ c = "collections" /\ n = N
                     \/ /\ DOMAIN counts = {"favorites", "bookmarks", "collections"}
                        /\ c = "cities" /\ n = F
  BY <1>1 DEF Bookmark!CountFavorites, Bookmark!CountBookmarks, Bookmark!CountCollections,
              Bookmark!CountCities
<1>4. /\ counts' = [d \in DOMAIN counts \union {c} |-> IF d = c THEN n ELSE counts[d]]
      /\ rows' = rows /\ rowsChanged' = rowsChanged
  BY <1>3 DEF Bookmark!Count
<1>5. /\ DOMAIN counts' = DOMAIN counts \union {c} /\ counts'[c] = n
      /\ \A d \in DOMAIN counts : d # c => counts'[d] = counts[d]
      /\ counts' = [d \in DOMAIN counts' |-> counts'[d]]
  BY <1>4
<1>6. Cardinality(Bookmark!Active("favorite"))' = F /\ Cardinality(Bookmark!Active("bookmark"))' = B
  BY <1>4 DEF Bookmark!Active, Bookmark!Existing
<1>7. /\ "favorites" \in DOMAIN counts => F <= counts.favorites + rowsChanged
                                          /\ counts.favorites <= F + rowsChanged
      /\ "bookmarks" \in DOMAIN counts => B <= counts.bookmarks + rowsChanged
      /\ "collections" \in DOMAIN counts => counts.collections <= counts.bookmarks + rowsChanged
      /\ DOMAIN counts = {} => rowsChanged = 0
  BY DEF CountsInv
<1> HIDE DEF F, B, N
<1>8. CASE counts = Bookmark!NoCounts
  <2>1. DOMAIN counts = {} /\ c = "favorites" /\ n = F
    BY <1>3, <1>8 DEF Bookmark!NoCounts
  <2>2. DOMAIN counts' = {"favorites"} /\ counts'.favorites = F
    BY <1>5, <2>1
  <2>3. F <= F + rowsChanged'
    BY <1>1, <1>2, <1>4
  <2> QED
    BY <1>4, <1>5, <1>6, <2>2, <2>3 DEF CountsInv
<1>9. CASE DOMAIN counts = {"favorites"} /\ c = "bookmarks" /\ n = B
  <2>1. /\ DOMAIN counts' = {"favorites", "bookmarks"} /\ counts'.bookmarks = B
        /\ counts'.favorites = counts.favorites
    BY <1>5, <1>9
  <2>2. B <= B + rowsChanged'
    BY <1>1, <1>2, <1>4
  <2> QED
    BY <1>4, <1>5, <1>6, <1>7, <1>9, <2>1, <2>2 DEF CountsInv
<1>10. CASE DOMAIN counts = {"favorites", "bookmarks"} /\ c = "collections" /\ n = N
  <2>1. /\ DOMAIN counts' = {"favorites", "bookmarks", "collections"} /\ counts'.collections = N
        /\ counts'.favorites = counts.favorites /\ counts'.bookmarks = counts.bookmarks
    BY <1>5, <1>10
  <2>2. N <= counts.bookmarks + rowsChanged /\ B <= counts.bookmarks + rowsChanged
    <3>1. counts.bookmarks \in Nat
      BY <1>2, <1>10
    <3> QED
      BY <1>1, <1>2, <1>7, <1>10, <3>1
  <2> QED
    BY <1>4, <1>5, <1>6, <1>7, <1>10, <2>1, <2>2 DEF CountsInv
<1>11. CASE DOMAIN counts = {"favorites", "bookmarks", "collections"} /\ c = "cities" /\ n = F
  <2>1. /\ DOMAIN counts' = {"favorites", "bookmarks", "collections", "cities"} /\ counts'.cities = F
        /\ counts'.favorites = counts.favorites /\ counts'.bookmarks = counts.bookmarks
        /\ counts'.collections = counts.collections
    BY <1>5, <1>11
  <2> QED
    BY <1>4, <1>5, <1>6, <1>7, <1>11, <2>1 DEF CountsInv
<1> QED
  BY <1>3, <1>8, <1>9, <1>10, <1>11

LEMMA CountsNext ==
    ASSUME BookmarksInv, CountsInv, [Bookmark!Next]_bookmarkVars PROVE CountsInv'
<1>1. ASSUME rows' = rows, counts' = counts, rowsChanged' = rowsChanged PROVE CountsInv'
  <2>1. /\ Bookmark!Active("favorite")' = Bookmark!Active("favorite")
        /\ Bookmark!Active("bookmark")' = Bookmark!Active("bookmark")
    BY <1>1 DEF Bookmark!Active, Bookmark!Existing
  <2> QED
    BY <1>1, <2>1 DEF CountsInv
<1>2. CASE Bookmark!Answer
  <2>1. counts' = Bookmark!NoCounts /\ rowsChanged' = 0 /\ DOMAIN Bookmark!NoCounts = {}
    BY <1>2 DEF Bookmark!Answer, Bookmark!NoCounts
  <2>2. Bookmark!NoCounts = [c \in DOMAIN Bookmark!NoCounts |-> Bookmark!NoCounts[c]]
    BY DEF Bookmark!NoCounts
  <2> QED
    BY <2>1, <2>2 DEF CountsInv
<1>3. CASE \/ Bookmark!CountFavorites \/ Bookmark!CountBookmarks
           \/ Bookmark!CountCollections \/ Bookmark!CountCities
  BY <1>3, CountsCount
<1>4. ASSUME NEW s \in Sessions,
             \/ \E p \in Properties : Bookmark!AddBookmark(s, p) \/ Bookmark!UpdateBookmark(s, p)
             \/ \E k \in Bookmark!RowKeys : Bookmark!RemoveBookmark(s, k) \/ Bookmark!Write(s, k)
             \/ Bookmark!Rollback(s)
      PROVE  CountsInv'
  <2>1. rows' = rows /\ counts' = counts /\ rowsChanged' = rowsChanged
    BY <1>4 DEF Bookmark!AddBookmark, Bookmark!UpdateBookmark, Bookmark!RemoveBookmark,
                Bookmark!Begin, Bookmark!Write, Bookmark!Rollback
  <2> QED
    BY <1>1, <2>1
<1>5. CASE UNCHANGED bookmarkVars
  BY <1>1, <1>5 DEF bookmarkVars
<1> QED
  BY <1>2, <1>3, <1>4, <1>5, CountsCommit DEF Bookmark!Next

LEMMA CountsInvariance == MCSpec => []CountsInv
<1>1. MCInit => CountsInv
  BY CountsInit DEF MCInit
<1>2. BookmarksInv /\ CountsInv /\ [MCNext]_MCvars => CountsInv'
  BY CountsNext, Moves
<1> QED
  BY <1>1, <1>2, BookmarksInvariance, PTL DEF MCSpec

LEMMA StatsSound == ASSUME BookmarksInv, CountsInv PROVE Bookmark!StatsOffByChanges
<1>1. CASE DOMAIN counts = {"favorites", "bookmarks", "collections", "cities"}
  <2>1. /\ counts.favorites \in Nat /\ counts.bookmarks \in Nat /\ counts.collections \in Nat
        /\ counts.cities \in Nat /\ rowsChanged \in Nat
    BY <1>1 DEF BookmarksInv, Bookmark!TypeOK
  <2>2. /\ counts.collections <= counts.bookmarks + rowsChanged
        /\ counts.cities <= counts.favorites + rowsChanged
        /\ counts.favorites <= counts.cities + rowsChanged
    BY <1>1 DEF CountsInv
  <2>3. \A a, b, r \in Nat : a <= b + r /\ b <= a + r => a - b \in (-r)..r
    OBVIOUS
  <2>4. counts.cities - counts.favorites \in (-rowsChanged)..rowsChanged
    BY <2>1, <2>2, <2>3
  <2> QED
    BY <2>2, <2>4, Zenon DEF Bookmark!StatsOffByChanges
<1>2. CASE DOMAIN counts # {"favorites", "bookmarks", "collections", "cities"}
  BY <1>2, Zenon DEF Bookmark!StatsOffByChanges
<1> QED
  BY <1>1, <1>2

------------------------------------------------------------------------------
(* ListingSearch: the order *)

\* A strict total order on a set, and what comes before an element.
StrictOrder(L, P) ==
    /\ \A i \in P : <<i, i>> \notin L
    /\ \A i, j \in P : i # j => <<i, j>> \in L \/ <<j, i>> \in L
    /\ \A i, j, k \in P : <<i, j>> \in L /\ <<j, k>> \in L => <<i, k>> \in L

Below(L, P, i) == {j \in P : <<j, i>> \in L}

\* In a strict total order on n elements, as many come before each as before no other:
\* 0 to n - 1 of them.
LEMMA Ranks ==
    ASSUME NEW P, IsFiniteSet(P), NEW L, StrictOrder(L, P)
    PROVE  /\ Cardinality(P) \in Nat
           /\ \A i \in P : /\ Cardinality(Below(L, P, i)) \in Nat
                           /\ Cardinality(Below(L, P, i)) < Cardinality(P)
           /\ \A i, j \in P :
                  <<i, j>> \in L <=> Cardinality(Below(L, P, i)) < Cardinality(Below(L, P, j))
           /\ \A i, j \in P :
                  Cardinality(Below(L, P, i)) = Cardinality(Below(L, P, j)) => i = j
           /\ \A p \in 0..(Cardinality(P) - 1) : \E i \in P : Cardinality(Below(L, P, i)) = p
<1> DEFINE n == Cardinality(P)
           R(i) == Cardinality(Below(L, P, i))
<1>1. n \in Nat
  BY FS_CardinalityType
<1>2. \A i \in P : Below(L, P, i) \subseteq P /\ i \notin Below(L, P, i)
  BY DEF StrictOrder, Below
<1>3. \A i \in P : IsFiniteSet(Below(L, P, i)) /\ R(i) \in Nat
  BY <1>2, FS_Subset, FS_CardinalityType
<1>4. ASSUME NEW i \in P PROVE R(i) < n
  <2>1. R(i) <= n /\ (n = R(i) => P = Below(L, P, i))
    BY <1>2, FS_Subset
  <2> QED
    BY <1>1, <1>2, <1>3, <2>1
<1>5. ASSUME NEW i \in P, NEW j \in P, <<i, j>> \in L PROVE R(i) < R(j)
  <2>1. Below(L, P, i) \subseteq Below(L, P, j) /\ i \in Below(L, P, j)
    BY <1>5 DEF StrictOrder, Below
  <2>2. R(i) <= R(j) /\ (R(j) = R(i) => Below(L, P, j) = Below(L, P, i))
    BY <1>3, <2>1, FS_Subset
  <2> QED
    BY <1>2, <1>3, <2>1, <2>2
<1>6. \A i, j \in P : R(i) = R(j) => i = j
  <2> SUFFICES ASSUME NEW i \in P, NEW j \in P, R(i) = R(j), i # j PROVE FALSE
    OBVIOUS
  <2>1. R(i) < R(j) \/ R(j) < R(i)
    BY <1>5 DEF StrictOrder
  <2> HIDE DEF R
  <2> QED
    BY <1>3, <2>1
<1>7. \A i, j \in P : R(i) < R(j) => <<i, j>> \in L
  <2> SUFFICES ASSUME NEW i \in P, NEW j \in P, R(i) < R(j) PROVE <<i, j>> \in L
    OBVIOUS
  <2>1. i # j /\ ~(<<j, i>> \in L)
    BY <1>3, <1>5
  <2> QED
    BY <2>1 DEF StrictOrder
<1>8. ASSUME NEW p \in 0..(n - 1) PROVE \E i \in P : R(i) = p
  <2> DEFINE f == [i \in P |-> R(i)]
             T == 0..(n - 1)
  <2>1. IsFiniteSet(T) /\ Cardinality(T) = n
    BY <1>1, FS_Interval
  <2>2. f \in Injection(P, T)
    <3>1. \A i \in P : R(i) \in T
      BY <1>1, <1>3, <1>4
    <3> HIDE DEF R
    <3> QED
      BY <1>6, <3>1 DEF Injection, IsInjective
  <2>3. f \in Surjection(P, T)
    <3> HIDE DEF f, T
    <3> QED
      BY <2>1, <2>2, FS_Injection
  <2> QED
    BY <2>3 DEF Surjection
<1> HIDE DEF R
<1> QED
  BY <1>1, <1>3, <1>4, <1>5, <1>6, <1>7, <1>8 DEF R

LEMMA ListingFacts ==
    /\ PageLimits \subseteq Nat \ {0} /\ MaxFound \in Nat /\ ListingChanges \in Nat
    /\ \A l \in Offers : l.price \in Nat /\ l.rooms \in Nat \union {None}
    /\ \A S : Listing!Cardinality(S) = Cardinality(S)
    /\ \A s : Listing!ToSet(s) = Elements(s)
    /\ \A r : \A l \in Offers : Listing!Value(r, l) \in Nat
<1>1. /\ PageLimits \subseteq Nat \ {0} /\ MaxFound \in Nat /\ ListingChanges \in Nat
      /\ \A l \in Offers : l.price \in Nat /\ l.rooms \in Nat \union {None}
  BY ServicesAssumption DEF Listing!ListingSearchAssumption
<1>2. \A S : Listing!Cardinality(S) = Cardinality(S)
  BY DEF Listing!Cardinality, Cardinality
<1>3. \A s : Listing!ToSet(s) = Elements(s)
  BY DEF Listing!ToSet, Elements
<1>4. \A r : \A l \in Offers : Listing!Value(r, l) \in Nat
  BY <1>1 DEF Listing!Value
<1> QED
  BY <1>1, <1>2, <1>3, <1>4

\* The order of the places of a list.
PlaceOrder(r, list, P) == {e \in P \X P : Listing!Before(r, list, e[1], e[2])}

LEMMA PlacesOrdered ==
    ASSUME NEW r, NEW list \in Seq(Offers), NEW P \in SUBSET DOMAIN list
    PROVE  /\ StrictOrder(PlaceOrder(r, list, P), P) /\ IsFiniteSet(P)
           /\ \A i \in P : Listing!Rank(r, list, P, i) = Cardinality(Below(PlaceOrder(r, list, P), P, i))
           /\ \A i, j \in P : <<i, j>> \in PlaceOrder(r, list, P) <=> Listing!Before(r, list, i, j)
           /\ \A i, j \in P : Listing!Before(r, list, i, j) => ~Listing!Ahead(r, list[j], list[i])
<1> DEFINE w == [i \in P |-> Listing!Value(r, list[i])]
           L == PlaceOrder(r, list, P)
<1>1. /\ DOMAIN list = 1..Len(list) /\ Len(list) \in Nat /\ \A i \in P : list[i] \in Offers /\ i \in Nat
  OBVIOUS
<1>2. \A i \in P : w[i] \in Nat /\ w[i] = Listing!Value(r, list[i])
  BY <1>1, ListingFacts
<1> HIDE DEF w
<1>3. \A i, j \in P :
          /\ Listing!Ahead(r, list[i], list[j]) <=> IF r.order = "desc" THEN w[i] > w[j] ELSE w[i] < w[j]
          /\ Listing!Before(r, list, i, j) <=>
                 \/ IF r.order = "desc" THEN w[i] > w[j] ELSE w[i] < w[j]
                 \/ w[i] = w[j] /\ i < j
  BY <1>2 DEF Listing!Ahead, Listing!Before
<1>4. \A i, j \in P : <<i, j>> \in L <=> Listing!Before(r, list, i, j)
  BY DEF PlaceOrder
<1> HIDE DEF L
<1>5. \A i \in P : ~Listing!Before(r, list, i, i)
  BY <1>1, <1>2, <1>3
<1>6. \A i, j \in P : i # j => Listing!Before(r, list, i, j) \/ Listing!Before(r, list, j, i)
  BY <1>1, <1>2, <1>3
<1>7. \A i, j, k \in P : Listing!Before(r, list, i, j) /\ Listing!Before(r, list, j, k)
                             => Listing!Before(r, list, i, k)
  BY <1>1, <1>2, <1>3
<1>8. \A i, j \in P : Listing!Before(r, list, i, j) => ~Listing!Ahead(r, list[j], list[i])
  BY <1>1, <1>2, <1>3
<1>9. StrictOrder(L, P)
  BY <1>4, <1>5, <1>6, <1>7 DEF StrictOrder
<1>10. IsFiniteSet(P)
  BY <1>1, UpTo, FS_Subset
<1>11. \A i \in P : Listing!Rank(r, list, P, i) = Cardinality(Below(L, P, i))
  <2> TAKE i \in P
  <2>1. {j \in P : Listing!Before(r, list, j, i)} = Below(L, P, i)
    BY <1>4 DEF Below
  <2>2. Listing!Rank(r, list, P, i) = Listing!Cardinality(Below(L, P, i))
    BY <2>1, Zenon DEF Listing!Rank
  <2> QED
    BY <2>2, ListingFacts
<1> QED
  BY <1>4, <1>8, <1>9, <1>10, <1>11 DEF L

\* Each place has its own rank, and the listing there is in the order at that rank.
Ranked(r, list, P, s, place) ==
    /\ Cardinality(P) \in Nat
    /\ s \in Seq(Offers) /\ Len(s) = Cardinality(P) /\ DOMAIN s = 1..Cardinality(P)
    /\ place \in [1..Cardinality(P) -> P]
    /\ \A p \in 1..Cardinality(P) :
           Listing!Rank(r, list, P, place[p]) = p - 1 /\ s[p] = list[place[p]]
    /\ \A i \in P : /\ Listing!Rank(r, list, P, i) \in Nat
                    /\ Listing!Rank(r, list, P, i) < Cardinality(P)
                    /\ s[Listing!Rank(r, list, P, i) + 1] = list[i]
    /\ \A i, j \in P :
           /\ Listing!Rank(r, list, P, i) = Listing!Rank(r, list, P, j) => i = j
           /\ Listing!Before(r, list, i, j)
                  <=> Listing!Rank(r, list, P, i) < Listing!Rank(r, list, P, j)
           /\ Listing!Before(r, list, i, j) => ~Listing!Ahead(r, list[j], list[i])

LEMMA SortedPlaces ==
    ASSUME NEW r, NEW list \in Seq(Offers), NEW P \in SUBSET DOMAIN list
    PROVE  \E place : Ranked(r, list, P, Listing!Sorted(r, list, P), place)
<1> DEFINE n == Cardinality(P)
           L == PlaceOrder(r, list, P)
           R(i) == Listing!Rank(r, list, P, i)
           s == Listing!Sorted(r, list, P)
           place(p) == CHOOSE i \in P : R(i) = p - 1
<1>1. /\ StrictOrder(L, P) /\ IsFiniteSet(P)
      /\ \A i \in P : R(i) = Cardinality(Below(L, P, i))
      /\ \A i, j \in P : <<i, j>> \in L <=> Listing!Before(r, list, i, j)
      /\ \A i, j \in P : Listing!Before(r, list, i, j) => ~Listing!Ahead(r, list[j], list[i])
  BY PlacesOrdered
<1> HIDE DEF L
<1>2. /\ n \in Nat
      /\ \A i \in P : R(i) \in Nat /\ R(i) < n
      /\ \A i, j \in P : <<i, j>> \in L <=> R(i) < R(j)
      /\ \A i, j \in P : R(i) = R(j) => i = j
      /\ \A p \in 0..(n - 1) : \E i \in P : R(i) = p
  BY <1>1, Ranks
<1> HIDE DEF R
<1>3. \A p \in 1..n : place(p) \in P /\ R(place(p)) = p - 1
  <2> TAKE p \in 1..n
  <2>1. p - 1 \in 0..(n - 1)
    BY <1>2
  <2>2. \E i \in P : R(i) = p - 1
    BY <1>2, <2>1
  <2> QED
    BY <2>2
<1>4. s = [p \in 1..n |-> list[place(p)]]
  <2>1. Listing!Cardinality(P) = n
    BY ListingFacts
  <2>2. s = [p \in 1..Listing!Cardinality(P) |-> list[place(p)]]
    BY DEF Listing!Sorted, R
  <2> HIDE DEF s, place, n
  <2> QED
    BY <2>1, <2>2
<1> HIDE DEF place, s, n
<1>5. \A i \in P : list[i] \in Offers
  OBVIOUS
<1>6. s \in Seq(Offers) /\ Len(s) = n /\ DOMAIN s = 1..n
  <2>1. s \in [1..n -> Offers]
    BY <1>3, <1>4, <1>5
  <2>2. s \in Seq(Offers)
    BY <1>2, <2>1, SeqDef
  <2> QED
    BY <1>2, <2>1, <2>2, LenProperties
<1>7. PICK h \in [1..n -> P] : \A p \in 1..n : R(h[p]) = p - 1 /\ s[p] = list[h[p]]
  <2> DEFINE h == [p \in 1..n |-> place(p)]
  <2>1. h \in [1..n -> P] /\ \A p \in 1..n : h[p] = place(p)
    BY <1>3
  <2> HIDE DEF h
  <2>2. \A p \in 1..n : R(h[p]) = p - 1 /\ s[p] = list[h[p]]
    BY <1>3, <1>4, <2>1
  <2> QED
    BY <2>1, <2>2
<1>8. \A i \in P : s[R(i) + 1] = list[i]
  <2> TAKE i \in P
  <2>1. R(i) + 1 \in 1..n /\ (R(i) + 1) - 1 = R(i)
    BY <1>2
  <2>2. place(R(i) + 1) = i
    BY <1>2, <1>3, <2>1
  <2> QED
    BY <1>4, <2>1, <2>2
<1>9. Ranked(r, list, P, s, h)
  BY <1>1, <1>2, <1>6, <1>7, <1>8 DEF R, n, Ranked
<1> QED
  BY <1>9 DEF s

LEMMA SortedInOrder ==
    ASSUME NEW r, NEW list \in Seq(Offers), NEW P \in SUBSET DOMAIN list,
           NEW p \in DOMAIN Listing!Sorted(r, list, P), NEW q \in DOMAIN Listing!Sorted(r, list, P),
           p < q
    PROVE  ~Listing!Ahead(r, Listing!Sorted(r, list, P)[q], Listing!Sorted(r, list, P)[p])
<1> DEFINE R(i) == Listing!Rank(r, list, P, i)
           s == Listing!Sorted(r, list, P)
<1>1. PICK place : Ranked(r, list, P, s, place)
  BY SortedPlaces
<1> HIDE DEF s
<1>2. /\ Cardinality(P) \in Nat /\ DOMAIN s = 1..Cardinality(P)
      /\ place[p] \in P /\ place[q] \in P /\ R(place[p]) = p - 1 /\ R(place[q]) = q - 1
      /\ s[p] = list[place[p]] /\ s[q] = list[place[q]]
  BY <1>1 DEF Ranked, s
<1>3. R(place[p]) < R(place[q]) /\ p \in Nat /\ q \in Nat
  BY <1>2 DEF s
<1> HIDE DEF R
<1>4. Listing!Before(r, list, place[p], place[q])
  BY <1>1, <1>2, <1>3 DEF Ranked, R
<1>5. ~Listing!Ahead(r, s[q], s[p])
  BY <1>1, <1>2, <1>4 DEF Ranked
<1> QED
  BY <1>5 DEF s

LEMMA SortedAfter ==
    ASSUME NEW r, NEW list \in Seq(Offers), NEW P \in SUBSET DOMAIN list, NEW n \in Nat
    PROVE  After(Listing!Sorted(r, list, P), n)
               = {list[i] : i \in {j \in P : Listing!Rank(r, list, P, j) >= n}}
<1> DEFINE R(i) == Listing!Rank(r, list, P, i)
           s == Listing!Sorted(r, list, P)
<1>0. PICK place : Ranked(r, list, P, s, place)
  BY SortedPlaces
<1>1. /\ Cardinality(P) \in Nat /\ DOMAIN s = 1..Cardinality(P)
      /\ place \in [1..Cardinality(P) -> P]
      /\ \A k \in 1..Cardinality(P) : R(place[k]) = k - 1 /\ s[k] = list[place[k]]
      /\ \A i \in P : R(i) \in Nat /\ R(i) < Cardinality(P) /\ s[R(i) + 1] = list[i]
  BY <1>0, Zenon DEF Ranked
<1> HIDE DEF R, s
<1>2. ASSUME NEW k \in DOMAIN s, k > n PROVE \E i \in P : R(i) >= n /\ s[k] = list[i]
  <2>1. place[k] \in P /\ R(place[k]) = k - 1 /\ s[k] = list[place[k]]
    BY <1>1
  <2> QED
    BY <1>1, <1>2, <2>1
<1>3. ASSUME NEW i \in P, R(i) >= n PROVE \E k \in DOMAIN s : k > n /\ s[k] = list[i]
  <2>1. R(i) + 1 \in DOMAIN s /\ R(i) + 1 > n
    BY <1>1, <1>3
  <2> QED
    BY <1>1, <2>1
<1>4. After(s, n) = {list[i] : i \in {j \in P : R(j) >= n}}
  BY <1>2, <1>3 DEF After
<1> QED
  BY <1>4 DEF R, s

Fitted(r, list) == {i \in DOMAIN list : Listing!Fits(r, list[i])}

Rest(r, list, n) == After(Listing!Sorted(r, list, Fitted(r, list)), n)

\* As many elements as an injective function takes them to.
LEMMA SameNumber ==
    ASSUME NEW A, NEW B, IsFiniteSet(A), NEW f \in [A -> B],
           \A x, y \in A : f[x] = f[y] => x = y, \A z \in B : \E x \in A : f[x] = z
    PROVE  IsFiniteSet(B) /\ Cardinality(B) = Cardinality(A)
<1>1. f \in Bijection(A, B)
  BY DEF Bijection, Injection, Surjection, IsInjective
<1> QED
  BY <1>1, FS_Bijection DEF ExistsBijection

\* What an insertion does to the ranks: those of the listings after the new one in the
\* order grow by one.
RanksMove(r, list, i, l, t, up) ==
    /\ \A k \in Fitted(r, list) : up[k] \in Fitted(r, t) /\ t[up[k]] = list[k]
    /\ \A k \in Fitted(r, t) : k # i => \E j \in Fitted(r, list) : up[j] = k
    /\ i \in DOMAIN t /\ t[i] = l
    /\ \A k \in Fitted(r, list) :
           \/ Listing!Rank(r, t, Fitted(r, t), up[k]) = Listing!Rank(r, list, Fitted(r, list), k)
           \/ /\ Listing!Rank(r, t, Fitted(r, t), up[k])
                     = Listing!Rank(r, list, Fitted(r, list), k) + 1
              /\ i \in Fitted(r, t) /\ Listing!Before(r, t, i, up[k])

LEMMA RanksWith ==
    ASSUME NEW r, NEW list \in Seq(Offers), NEW i \in 1..(Len(list) + 1), NEW l \in Offers
    PROVE  \E up : RanksMove(r, list, i, l, With(list, i, l), up)
<1>a. PICK t : t = With(list, i, l)
  OBVIOUS
<1>b. PICK up : up = [k \in DOMAIN list |-> IF k < i THEN k ELSE k + 1]
  OBVIOUS
<1> DEFINE P == Fitted(r, list)
           Q == Fitted(r, t)
           B(k) == {j \in P : Listing!Before(r, list, j, k)}
           C(k) == {j \in Q : Listing!Before(r, t, j, k)}
<1>1. /\ Len(list) \in Nat /\ DOMAIN list = 1..Len(list) /\ i \in Nat /\ i <= Len(list) + 1
      /\ DOMAIN t = 1..(Len(list) + 1) /\ t \in Seq(Offers)
  BY <1>a, WithType
<1>2. \A k \in 1..(Len(list) + 1) : t[k] = IF k < i THEN list[k] ELSE IF k = i THEN l ELSE list[k - 1]
  BY <1>a DEF With
<1>3. /\ \A k \in DOMAIN list : up[k] \in DOMAIN t /\ up[k] # i /\ t[up[k]] = list[k]
      /\ i \in DOMAIN t /\ t[i] = l
      /\ \A j, k \in DOMAIN list : (up[j] < up[k] <=> j < k) /\ (up[j] = up[k] => j = k)
  BY <1>b, <1>1, <1>2
<1>4. ASSUME NEW k \in DOMAIN t, k # i PROVE \E j \in DOMAIN list : up[j] = k
  <2> DEFINE j == IF k < i THEN k ELSE k - 1
  <2>1. j \in DOMAIN list /\ (j < i <=> k < i) /\ (~(k < i) => j + 1 = k)
    BY <1>1, <1>4
  <2>2. up[j] = k
    BY <1>b, <1>1, <2>1
  <2> QED
    BY <2>1, <2>2
<1>5. \A k \in DOMAIN list : k \in P <=> up[k] \in Q
  BY <1>3 DEF Fitted
<1>6. \A j, k \in DOMAIN list : Listing!Before(r, list, j, k) <=> Listing!Before(r, t, up[j], up[k])
  BY <1>3, Zenon DEF Listing!Before
<1>7. P \subseteq DOMAIN list /\ Q \subseteq DOMAIN t
  BY DEF Fitted
<1>8. IsFiniteSet(P) /\ IsFiniteSet(Q)
  BY <1>1, <1>7, UpTo, FS_Subset
<1>9. ASSUME NEW k \in P
      PROVE  \/ Cardinality(C(up[k])) = Cardinality(B(k))
             \/ /\ Cardinality(C(up[k])) = Cardinality(B(k)) + 1
                /\ i \in Q /\ Listing!Before(r, t, i, up[k])
  <2> DEFINE A == B(k)
             D == C(up[k]) \ {i}
             f == [j \in A |-> up[j]]
  <2>1. IsFiniteSet(A) /\ IsFiniteSet(C(up[k])) /\ Cardinality(A) \in Nat /\ Cardinality(C(up[k])) \in Nat
    <3>1. A \subseteq P /\ C(up[k]) \subseteq Q
      OBVIOUS
    <3> HIDE DEF A, C
    <3> QED
      BY <1>8, <3>1, FS_Subset, FS_CardinalityType
  <2>2. \A j \in A : j \in DOMAIN list /\ up[j] \in D
    BY <1>3, <1>5, <1>6, <1>7
  <2>3. \A z \in D : \E j \in A : up[j] = z
    BY <1>3, <1>4, <1>5, <1>6, <1>7
  <2> HIDE DEF A, D
  <2>4. f \in [A -> D] /\ \A x, y \in A : f[x] = f[y] => x = y
    BY <1>3, <2>2
  <2>5. \A z \in D : \E x \in A : f[x] = z
    BY <2>3
  <2> HIDE DEF f
  <2>6. Cardinality(D) = Cardinality(A)
    BY <2>1, <2>4, <2>5, SameNumber
  <2>7. Cardinality(D) = IF i \in C(up[k]) THEN Cardinality(C(up[k])) - 1 ELSE Cardinality(C(up[k]))
    <3> HIDE DEF C
    <3> QED
      BY <2>1, FS_RemoveElement DEF D
  <2>8. i \in C(up[k]) => i \in Q /\ Listing!Before(r, t, i, up[k])
    OBVIOUS
  <2> HIDE DEF C, B
  <2> QED
    BY <2>1, <2>6, <2>7, <2>8 DEF A
<1>10. \A k \in P : up[k] \in Q /\ t[up[k]] = list[k]
  BY <1>3, <1>5, <1>7
<1>11. \A k \in Q : k # i => \E j \in P : up[j] = k
  BY <1>4, <1>5, <1>7
<1>12. \A k \in P : /\ Listing!Rank(r, list, P, k) = Cardinality(B(k))
                    /\ Listing!Rank(r, t, Q, up[k]) = Cardinality(C(up[k]))
  BY ListingFacts DEF Listing!Rank
<1> HIDE DEF P, Q, B, C
<1>13. \A k \in P :
          \/ Listing!Rank(r, t, Q, up[k]) = Listing!Rank(r, list, P, k)
          \/ /\ Listing!Rank(r, t, Q, up[k]) = Listing!Rank(r, list, P, k) + 1
             /\ i \in Q /\ Listing!Before(r, t, i, up[k])
  BY <1>9, <1>12
<1>14. RanksMove(r, list, i, l, t, up)
  BY <1>3, <1>10, <1>11, <1>13 DEF P, Q, RanksMove
<1> QED
  BY <1>a, <1>14

\* A listing more brings at most one listing past the n-th in the order, and none back.
LEMMA RestWith ==
    ASSUME NEW r, NEW list \in Seq(Offers), NEW i \in 1..(Len(list) + 1), NEW l \in Offers,
           NEW n \in Nat
    PROVE  /\ Rest(r, list, n) \subseteq Rest(r, With(list, i, l), n)
           /\ \E y : Rest(r, With(list, i, l), n) \subseteq Rest(r, list, n) \union {y}
<1>1. PICK t \in Seq(Offers) : t = With(list, i, l)
  BY WithType
<1>2. PICK up : RanksMove(r, list, i, l, t, up)
  BY <1>1, RanksWith
<1> DEFINE P == Fitted(r, list)
           Q == Fitted(r, t)
           R(k) == Listing!Rank(r, list, P, k)
           S(k) == Listing!Rank(r, t, Q, k)
<1>3. /\ \A k \in P : up[k] \in Q /\ t[up[k]] = list[k]
      /\ \A k \in Q : k # i => \E j \in P : up[j] = k
      /\ t[i] = l
      /\ \A k \in P : \/ S(up[k]) = R(k)
                      \/ S(up[k]) = R(k) + 1 /\ i \in Q /\ Listing!Before(r, t, i, up[k])
  BY <1>2, Zenon DEF RanksMove
<1>4. P \in SUBSET DOMAIN list /\ Q \in SUBSET DOMAIN t
  BY DEF Fitted
<1> HIDE DEF P, Q
<1>5. /\ Rest(r, list, n) = {list[k] : k \in {j \in P : R(j) >= n}}
      /\ Rest(r, t, n) = {t[k] : k \in {j \in Q : S(j) >= n}}
  BY <1>4, SortedAfter DEF Rest, P, Q
<1>6. PICK s, place : Ranked(r, list, P, s, place)
  BY <1>4, SortedPlaces
<1>7. PICK u, spot : Ranked(r, t, Q, u, spot)
  BY <1>4, SortedPlaces
<1>8. /\ \A k \in P : R(k) \in Nat
      /\ \A j, k \in P : R(j) = R(k) => j = k
      /\ \A k \in Q : S(k) \in Nat
      /\ \A j, k \in Q : Listing!Before(r, t, j, k) => S(j) < S(k)
  BY <1>6, <1>7 DEF Ranked
<1> HIDE DEF R, S
<1>9. Rest(r, list, n) \subseteq Rest(r, t, n)
  <2>1. \A k \in P : R(k) >= n => up[k] \in Q /\ S(up[k]) >= n /\ t[up[k]] = list[k]
    BY <1>3, <1>8
  <2> QED
    BY <1>5, <2>1
<1>10. CASE i \in Q /\ S(i) >= n
  <2>1. ASSUME NEW k \in Q, S(k) >= n, k # i PROVE t[k] \in Rest(r, list, n)
    <3>1. PICK j \in P : up[j] = k
      BY <1>3, <2>1
    <3>2. R(j) >= n
      BY <1>3, <1>8, <1>10, <2>1, <3>1
    <3> QED
      BY <1>3, <1>5, <3>1, <3>2
  <2>2. Rest(r, t, n) \subseteq Rest(r, list, n) \union {l}
    BY <1>3, <1>5, <2>1
  <2> QED
    BY <1>1, <1>9, <2>2
<1>11. CASE ~(i \in Q /\ S(i) >= n)
  <2>1. ASSUME NEW k \in Q, S(k) >= n, t[k] \notin Rest(r, list, n)
        PROVE  \E j \in P : up[j] = k /\ R(j) = n - 1
    <3>1. PICK j \in P : up[j] = k
      BY <1>3, <1>11, <2>1
    <3>2. ~(R(j) >= n)
      BY <1>3, <1>5, <2>1, <3>1
    <3>3. R(j) = n - 1
      BY <1>3, <1>8, <2>1, <3>1, <3>2
    <3> QED
      BY <3>1, <3>3
  <2>2. CASE \E j \in P : R(j) = n - 1
    <3>1. PICK j \in P : R(j) = n - 1
      BY <2>2
    <3>2. Rest(r, t, n) \subseteq Rest(r, list, n) \union {t[up[j]]}
      BY <1>5, <1>8, <2>1, <3>1
    <3> QED
      BY <1>1, <1>9, <3>2
  <2>3. CASE ~\E j \in P : R(j) = n - 1
    <3>1. Rest(r, t, n) \subseteq Rest(r, list, n) \union {l}
      BY <1>5, <2>1, <2>3
    <3> QED
      BY <1>1, <1>9, <3>1
  <2> QED
    BY <2>2, <2>3
<1> QED
  BY <1>10, <1>11

LEMMA Quotient ==
    ASSUME NEW a \in Nat, NEW b \in Nat, b > 0
    PROVE  /\ a \div b \in Nat /\ (a \div b) * b <= a /\ a < ((a \div b) + 1) * b
  OBVIOUS

LEMMA ExactQuotient == ASSUME NEW q \in Nat, NEW b \in Nat, b > 0 PROVE (q * b) \div b = q
  OBVIOUS

LEMMA OneMorePage ==
    ASSUME NEW q \in Nat, NEW b \in Nat, b > 0, NEW c \in Nat, NEW n \in Nat,
           c * b <= n + b - 1, n + b - 1 < (c + 1) * b
    PROVE  q * b + b < n <=> q + 1 < c
  OBVIOUS

------------------------------------------------------------------------------
(* ListingSearch: the pages *)

Ids == {l.external_id : l \in Offers}

IdsOf(s) == [k \in DOMAIN s |-> s[k].external_id]

LEMMA IdsType ==
    ASSUME NEW s \in Seq(Offers)
    PROVE  /\ IdsOf(s) \in Seq(Ids) /\ Len(IdsOf(s)) = Len(s) /\ Len(s) \in Nat
           /\ DOMAIN IdsOf(s) = DOMAIN s /\ DOMAIN s = 1..Len(s)
           /\ \A k \in DOMAIN s : IdsOf(s)[k] = s[k].external_id
           /\ Elements(IdsOf(s)) = {l.external_id : l \in Elements(s)}
           /\ \A n : After(IdsOf(s), n) = {l.external_id : l \in After(s, n)}
<1> DEFINE n == Len(s)
           t == IdsOf(s)
<1>1. n \in Nat /\ DOMAIN s = 1..n /\ \A k \in 1..n : s[k].external_id \in Ids
  BY DEF Ids
<1>2. t \in [1..n -> Ids] /\ \A k \in DOMAIN s : t[k] = s[k].external_id
  BY <1>1 DEF IdsOf
<1> HIDE DEF n, t
<1>3. t \in Seq(Ids)
  BY <1>1, <1>2, SeqDef
<1>4. Len(t) = n /\ DOMAIN t = DOMAIN s
  BY <1>1, <1>2, <1>3, LenProperties
<1>5. Elements(t) = {l.external_id : l \in Elements(s)}
  BY <1>2, <1>4 DEF Elements
<1>6. \A m : After(t, m) = {l.external_id : l \in After(s, m)}
  BY <1>2, <1>4 DEF After
<1> QED
  BY <1>1, <1>2, <1>3, <1>4, <1>5, <1>6 DEF n, t

LEMMA IdsOfWith ==
    ASSUME NEW s \in Seq(Offers), NEW i \in 1..(Len(s) + 1), NEW l \in Offers
    PROVE  /\ Elements(IdsOf(With(s, i, l))) = Elements(IdsOf(s)) \union {l.external_id}
           /\ Distinct(IdsOf(With(s, i, l)))
                  <=> Distinct(IdsOf(s)) /\ l.external_id \notin Elements(IdsOf(s))
<1> DEFINE t == IdsOf(s)
           e == l.external_id
<1>1. t \in Seq(Ids) /\ Len(t) = Len(s) /\ e \in Ids /\ Len(s) \in Nat /\ DOMAIN s = 1..Len(s)
  BY IdsType DEF Ids
<1>2. IdsOf(With(s, i, l)) = With(t, i, e)
  <2>1. /\ DOMAIN With(s, i, l) = 1..(Len(s) + 1) /\ DOMAIN t = DOMAIN s
        /\ \A k \in DOMAIN s : t[k] = s[k].external_id
    BY WithType, IdsType
  <2>2. With(s, i, l) = [k \in 1..(Len(s) + 1) |-> IF k < i THEN s[k] ELSE IF k = i THEN l ELSE s[k - 1]]
    BY DEF With
  <2>3. \A k \in 1..(Len(s) + 1) : (k < i => k \in DOMAIN s) /\ (~(k < i) /\ k # i => k - 1 \in DOMAIN s)
    BY <1>1
  <2> HIDE DEF t
  <2>4. IdsOf(With(s, i, l)) = [k \in 1..(Len(s) + 1) |-> With(s, i, l)[k].external_id]
    BY <2>1 DEF IdsOf
  <2>5. With(t, i, e) = [k \in 1..(Len(s) + 1) |-> IF k < i THEN t[k] ELSE IF k = i THEN e ELSE t[k - 1]]
    BY <1>1 DEF With
  <2>6. \A k \in 1..(Len(s) + 1) :
            With(s, i, l)[k].external_id = IF k < i THEN t[k] ELSE IF k = i THEN e ELSE t[k - 1]
    BY <2>1, <2>2, <2>3
  <2> QED
    BY <2>4, <2>5, <2>6
<1> HIDE DEF t, e
<1>3. /\ Elements(With(t, i, e)) = Elements(t) \union {e}
      /\ Distinct(With(t, i, e)) <=> Distinct(t) /\ e \notin Elements(t)
  BY <1>1, WithElements
<1> QED
  BY <1>2, <1>3 DEF t, e

LEMMA ElementsFinite ==
    ASSUME NEW R, NEW s \in Seq(R)
    PROVE  IsFiniteSet(Elements(s)) /\ \A n : After(s, n) \subseteq Elements(s)
<1>1. Len(s) \in Nat /\ DOMAIN s = 1..Len(s) /\ s = [k \in 1..Len(s) |-> s[k]]
  OBVIOUS
<1>2. IsFiniteSet(1..Len(s))
  BY <1>1, UpTo
<1>3. s \in Surjection(1..Len(s), Elements(s))
  BY <1>1 DEF Surjection, Elements
<1>4. IsFiniteSet(Elements(s))
  BY <1>2, <1>3, FS_Surjection
<1>5. \A n : After(s, n) \subseteq Elements(s)
  BY DEF After, Elements
<1> QED
  BY <1>4, <1>5

\* What the client has still to come to, and what it could have seen all along.
ToCome == Rest(request, listings, skip)
Wanted == {l \in stayed : Listing!Fits(request, l)}

\* As for the export; the pages that are followed by another are full, so that as many
\* listings have been seen as are skipped.
PagesInv ==
    /\ Listing!TypeOK
    /\ Distinct(IdsOf(listings)) /\ stayed \subseteq Elements(listings)
    /\ left <= listingChanges /\ appeared <= listingChanges
    /\ stage = "new" => read = << >> /\ skip = 0
    /\ stage # "new" => pageLimit \in PageLimits
    /\ stage \in {"found", "paging"} =>
           /\ Len(read) = skip /\ \E q \in Nat : skip = q * pageLimit
           /\ Len(read) + Cardinality(Elements(IdsOf(read)) \intersect {l.external_id : l \in ToCome})
                  <= Cardinality(Elements(IdsOf(read))) + appeared
           /\ Cardinality(Wanted \ (Elements(read) \union ToCome)) <= left
    /\ Len(read) <= Cardinality(Elements(IdsOf(read))) + appeared
    /\ stage = "read" => Cardinality(Wanted \ Elements(read)) <= left
    /\ stage = "found" => read = << >> /\ skip = 0
    /\ stage \in {"found", "paging", "read"} /\ listingChanges = 0 =>
           LET order == Listing!Sorted(request, listings, Fitted(request, listings))
           IN  Len(read) <= Len(order) /\ \A k \in DOMAIN read : read[k] = order[k]
    /\ pages.page > 0 => (pages.has_next <=> pages.page < pages.pages)
    /\ stage = "answered" => Listing!AnswerDistinctAndComplete

LEMMA PagesTypes ==
    ASSUME Listing!TypeOK
    PROVE  /\ listings \in Seq(Offers) /\ Len(listings) \in Nat /\ DOMAIN listings = 1..Len(listings)
           /\ read \in Seq(Offers) /\ Len(read) \in Nat /\ DOMAIN read = 1..Len(read)
           /\ stayed \subseteq Offers /\ skip \in Nat /\ listingChanges \in 0..ListingChanges
           /\ listingChanges \in Nat /\ left \in Nat /\ appeared \in Nat /\ ListingChanges \in Nat
           /\ IsFiniteSet(Elements(read)) /\ IsFiniteSet(Elements(IdsOf(read)))
           /\ IsFiniteSet(Elements(listings))
           /\ stage \in {"new", "found", "paging", "read", "answered"}
           /\ pages.page \in Nat /\ pages.pages \in Nat
<1>1. /\ listings \in Seq(Offers) /\ read \in Seq(Offers) /\ stayed \subseteq Offers
      /\ skip \in Nat /\ listingChanges \in 0..ListingChanges /\ left \in Nat /\ appeared \in Nat
      /\ ListingChanges \in Nat /\ stage \in {"new", "found", "paging", "read", "answered"}
      /\ pages \in [page : Nat, pages : Nat \ {0}, has_next : BOOLEAN]
  BY ListingFacts DEF Listing!TypeOK
<1>2. \A s \in Seq(Offers) : Len(s) \in Nat /\ DOMAIN s = 1..Len(s)
  OBVIOUS
<1>3. IsFiniteSet(Elements(read)) /\ IsFiniteSet(Elements(listings))
  BY <1>1, ElementsFinite
<1>4. IsFiniteSet(Elements(IdsOf(read)))
  <2>1. IdsOf(read) \in Seq(Ids)
    BY <1>1, IdsType
  <2> QED
    BY <2>1, ElementsFinite
<1> QED
  BY <1>1, <1>2, <1>3, <1>4

LEMMA ListingInit == Listing!Init => PagesInv
<1> SUFFICES ASSUME Listing!Init PROVE PagesInv
  OBVIOUS
<1>1. /\ listings = << >> /\ stage = "new" /\ request = None /\ pageLimit = None
      /\ skip = 0 /\ read = << >> /\ pages = [page |-> 0, pages |-> 1, has_next |-> TRUE]
      /\ listingChanges = 0 /\ stayed = {} /\ left = 0 /\ appeared = 0
  BY DEF Listing!Init
<1>2. Listing!TypeOK
  <2>1. << >> \in Seq(Offers) /\ pages \in [page : Nat, pages : Nat \ {0}, has_next : BOOLEAN]
    BY <1>1
  <2> QED
    BY <1>1, <2>1, ListingFacts DEF Listing!TypeOK
<1>3. Distinct(IdsOf(listings)) /\ Elements(IdsOf(read)) = {} /\ Len(read) = 0
  BY <1>1 DEF Distinct, IdsOf, Elements
<1>4. Cardinality(Elements(IdsOf(read))) = 0
  BY <1>3, FS_EmptySet
<1> QED
  BY <1>1, <1>2, <1>3, <1>4 DEF PagesInv

LEMMA ListingFind ==
    ASSUME PagesInv, NEW list \in Listing!Lists, NEW r \in Requests, NEW n \in PageLimits,
           Listing!Find(list, r, n)
    PROVE  PagesInv'
<1>1. /\ stage = "new" /\ stage' = "found" /\ listings' = list /\ stayed' = Listing!ToSet(list)
      /\ request' = r /\ pageLimit' = n /\ skip' = skip /\ read' = read /\ pages' = pages
      /\ listingChanges' = listingChanges /\ left' = left /\ appeared' = appeared
  BY DEF Listing!Find, Listing!answer
<1>2. Listing!TypeOK /\ read = << >> /\ skip = 0 /\ left <= listingChanges /\ appeared <= listingChanges
  BY <1>1 DEF PagesInv
<1>3. list \in Seq(Offers) /\ Distinct(IdsOf(list)) /\ stayed' = Elements(list)
  <2>1. list \in Listing!SeqOf(Offers, MaxFound) /\ Listing!IsInjective([i \in DOMAIN list |-> list[i].external_id])
    BY DEF Listing!Lists
  <2>2. list \in Seq(Offers)
    BY <2>1, ListingFacts, SeqDef DEF Listing!SeqOf
  <2>3. Distinct(IdsOf(list))
    BY <2>1 DEF Listing!IsInjective, Distinct, IdsOf
  <2> QED
    BY <1>1, <2>2, <2>3, ListingFacts
<1>4. \A k \in DOMAIN list : list[k] \in Offers
  BY <1>3
<1>5. stayed' \subseteq Offers /\ stayed' \subseteq Elements(listings')
  BY <1>1, <1>3, <1>4 DEF Elements
<1>6. Listing!TypeOK'
  BY <1>1, <1>2, <1>3, <1>5 DEF Listing!TypeOK
<1>7. /\ Elements(read)' = {} /\ Elements(IdsOf(read))' = {} /\ Len(read') = 0 /\ DOMAIN read' = {}
      /\ Elements(IdsOf(read)) = {}
  BY <1>1, <1>2 DEF Elements, IdsOf
<1>8. /\ Cardinality({}) = 0 /\ left \in Nat /\ appeared \in Nat
  BY <1>2, PagesTypes, FS_EmptySet
<1>9. Cardinality((Elements(IdsOf(read)) \intersect {l.external_id : l \in ToCome})') = 0
  <2>1. (Elements(IdsOf(read)) \intersect {l.external_id : l \in ToCome})' = {}
    BY <1>7
  <2> QED
    BY <1>8, <2>1, Zenon
<1>10. Cardinality(Elements(IdsOf(read))') = 0
  BY <1>7, <1>8
<1>11. Cardinality((Wanted \ (Elements(read) \union ToCome))') = 0
  <2>1. skip' = 0 /\ listings' = list /\ request' = r
    BY <1>1, <1>2
  <2>2. ASSUME NEW l \in Wanted' PROVE l \in ToCome'
    <3>1. l \in Elements(list) /\ Listing!Fits(r, l)
      BY <1>1, <1>3, <2>2 DEF Wanted
    <3>2. PICK k \in DOMAIN list : list[k] = l
      BY <3>1 DEF Elements
    <3> DEFINE P == Fitted(r, list)
    <3>3. k \in P /\ P \in SUBSET DOMAIN list
      BY <3>1, <3>2 DEF Fitted
    <3> HIDE DEF P
    <3>4. After(Listing!Sorted(r, list, P), 0) = {list[i] : i \in {j \in P : Listing!Rank(r, list, P, j) >= 0}}
      BY <1>3, <3>3, SortedAfter
    <3>5. PICK s, place : Ranked(r, list, P, s, place)
      BY <1>3, <3>3, SortedPlaces
    <3>6. Listing!Rank(r, list, P, k) >= 0
      BY <3>3, <3>5 DEF Ranked
    <3>7. l \in After(Listing!Sorted(r, list, P), 0)
      BY <3>2, <3>3, <3>4, <3>6
    <3> QED
      BY <2>1, <3>7 DEF ToCome, Rest, P
  <2>3. (Wanted \ (Elements(read) \union ToCome))' = {}
    BY <2>2
  <2> QED
    BY <1>8, <2>3, Zenon
<1>12. /\ (\E q \in Nat : skip = q * pageLimit)' /\ pageLimit' \in PageLimits
  <2>1. n \in Nat /\ 0 * n = 0
    BY ListingFacts
  <2> QED
    BY <1>1, <1>2, <2>1
<1>13. Len(Listing!Sorted(r, list, Fitted(r, list))) \in Nat
  <2>1. Fitted(r, list) \in SUBSET DOMAIN list
    BY DEF Fitted
  <2>2. PICK place : Ranked(r, list, Fitted(r, list), Listing!Sorted(r, list, Fitted(r, list)), place)
    BY <1>3, <2>1, SortedPlaces
  <2> QED
    BY <2>2 DEF Ranked
<1>14. (LET order == Listing!Sorted(request, listings, Fitted(request, listings))
        IN  Len(read) <= Len(order) /\ \A k \in DOMAIN read : read[k] = order[k])'
  BY <1>1, <1>7, <1>13
<1>15. /\ (Len(read) + Cardinality(Elements(IdsOf(read)) \intersect {l.external_id : l \in ToCome})
              <= Cardinality(Elements(IdsOf(read))) + appeared)'
       /\ (Cardinality(Wanted \ (Elements(read) \union ToCome)) <= left)'
       /\ (Len(read) <= Cardinality(Elements(IdsOf(read))) + appeared)'
  BY <1>1, <1>7, <1>8, <1>9, <1>10, <1>11
<1>16. (pages.page > 0 => (pages.has_next <=> pages.page < pages.pages))'
  BY <1>1 DEF PagesInv
<1> QED
  BY <1>1, <1>2, <1>3, <1>5, <1>6, <1>7, <1>12, <1>14, <1>15, <1>16 DEF PagesInv

\* A change moves at most one listing over the place that the client has come to.
LEMMA ListingChanged ==
    ASSUME PagesInv, Listing!Change,
           listings' \in Seq(Offers), Distinct(IdsOf(listings')),
           stayed' \subseteq stayed, stayed' \subseteq Elements(listings'),
           NEW c \in {0, 1}, NEW g \in {0, 1}, appeared' = appeared + c, left' = left + g,
           NEW y, NEW z,
           IF c = 0 THEN ToCome' \subseteq ToCome ELSE ToCome' \subseteq ToCome \union {y},
           IF g = 0 THEN ToCome \subseteq ToCome' ELSE ToCome \subseteq ToCome' \union {z}
    PROVE  PagesInv'
<1>1. /\ stage = "paging" /\ stage' = stage /\ listingChanges < ListingChanges
      /\ listingChanges' = listingChanges + 1 /\ request' = request /\ pageLimit' = pageLimit
      /\ skip' = skip /\ read' = read /\ pages' = pages
  BY DEF Listing!Change, Listing!arguments, Listing!answer
<1>2. Listing!TypeOK
  BY DEF PagesInv
<1>3. /\ listingChanges \in 0..ListingChanges /\ ListingChanges \in Nat
      /\ left \in Nat /\ appeared \in Nat /\ Len(read) \in Nat
      /\ IsFiniteSet(Elements(read)) /\ IsFiniteSet(Elements(IdsOf(read)))
      /\ IsFiniteSet(Elements(listings)) /\ stayed \subseteq Offers
  BY <1>2, PagesTypes
<1>4. c \in Nat /\ g \in Nat /\ c <= 1 /\ g <= 1
  OBVIOUS
<1>5. left <= listingChanges /\ appeared <= listingChanges
  BY DEF PagesInv
<1>6. /\ listingChanges' \in 0..ListingChanges /\ left' \in 0..ListingChanges
      /\ appeared' \in 0..ListingChanges
      /\ left' <= listingChanges' /\ appeared' <= listingChanges' /\ listingChanges' # 0
  BY <1>1, <1>3, <1>4, <1>5
<1>7. Listing!TypeOK'
  BY <1>1, <1>2, <1>3, <1>6 DEF Listing!TypeOK
<1> DEFINE E == Elements(IdsOf(read))
           D == Elements(read)
           A == {l.external_id : l \in ToCome}
           B == {l.external_id : l \in ToCome'}
<1>8. IF c = 0 THEN E \intersect B \subseteq A ELSE B \subseteq A \union {y.external_id}
  <2> HIDE DEF E
  <2>1. CASE c = 0
    BY <2>1
  <2>2. CASE c = 1
    <3>1. ToCome' \subseteq ToCome \union {y}
      BY <2>2
    <3>2. B \subseteq A \union {y.external_id}
      BY <3>1
    <3> QED
      BY <2>2, <3>2
  <2> QED
    BY <2>1, <2>2
<1>9. Wanted' \subseteq Wanted /\ IsFiniteSet(Wanted)
  <2>1. Wanted' \subseteq Wanted
    BY <1>1 DEF Wanted
  <2>2. Wanted \subseteq Elements(listings)
    BY DEF Wanted, PagesInv
  <2> QED
    BY <1>3, <2>1, <2>2, FS_Subset
<1>10. IF g = 0 THEN ToCome \intersect Wanted' \subseteq ToCome'
       ELSE ToCome \intersect Wanted' \subseteq ToCome' \union {z}
  OBVIOUS
<1>11. /\ Len(read) + Cardinality(E \intersect A) <= Cardinality(E) + appeared
       /\ Cardinality(Wanted \ (D \union ToCome)) <= left
       /\ Len(read) <= Cardinality(E) + appeared
  BY <1>1 DEF PagesInv
<1> HIDE DEF E, A, B, D
<1>12. /\ Cardinality(E \intersect A) \in Nat /\ Cardinality(E \intersect B) \in Nat
       /\ Cardinality(E \intersect B) <= Cardinality(E \intersect A) + c
  <2>1. IsFiniteSet(E)
    BY <1>3 DEF E
  <2> QED
    BY <1>8, <2>1, MovedBack
<1>13. /\ Cardinality(Wanted \ (D \union ToCome)) \in Nat
       /\ Cardinality(Wanted' \ (D \union ToCome')) \in Nat
       /\ Cardinality(Wanted' \ (D \union ToCome')) <= Cardinality(Wanted \ (D \union ToCome)) + g
  BY <1>9, <1>10, MovedOver
<1>14. Cardinality(E) \in Nat
  BY <1>3, FS_CardinalityType DEF E
<1>15. /\ Len(read) + Cardinality(E \intersect B) <= Cardinality(E) + appeared'
       /\ Cardinality(Wanted' \ (D \union ToCome')) <= left'
       /\ Len(read) <= Cardinality(E) + appeared'
  <2>1. Len(read) + Cardinality(E \intersect B) <= Cardinality(E) + appeared'
    BY <1>3, <1>4, <1>11, <1>12, <1>14
  <2>2. Cardinality(Wanted' \ (D \union ToCome')) <= left'
    BY <1>3, <1>4, <1>11, <1>13
  <2>3. Len(read) <= Cardinality(E) + appeared'
    BY <1>3, <1>4, <1>11, <1>14
  <2> QED
    BY <2>1, <2>2, <2>3
<1>16. E = Elements(IdsOf(read))' /\ B = {l.external_id : l \in ToCome}' /\ D = Elements(read)'
  BY <1>1 DEF E, B, D
<1>17. /\ (Len(read) = skip /\ \E q \in Nat : skip = q * pageLimit)'
       /\ (pages.page > 0 => (pages.has_next <=> pages.page < pages.pages))'
       /\ (pageLimit \in PageLimits)'
  BY <1>1 DEF PagesInv
<1>18. /\ (Len(read) + Cardinality(Elements(IdsOf(read)) \intersect {l.external_id : l \in ToCome})
              <= Cardinality(Elements(IdsOf(read))) + appeared)'
       /\ (Cardinality(Wanted \ (Elements(read) \union ToCome)) <= left)'
       /\ (Len(read) <= Cardinality(Elements(IdsOf(read))) + appeared)'
  BY <1>1, <1>15, <1>16, Zenon
<1> QED
  BY <1>1, <1>6, <1>7, <1>17, <1>18 DEF PagesInv

LEMMA ListingAppear ==
    ASSUME PagesInv, NEW l \in Offers, NEW i \in 1..(Len(listings) + 1), Listing!Appear(l, i)
    PROVE  PagesInv'
<1>1. /\ Listing!Change /\ \A k \in Elements(listings) : k.external_id # l.external_id
      /\ listings' = Listing!InsertAt(listings, i, l)
      /\ appeared' = appeared + 1 /\ stayed' = stayed /\ left' = left
      /\ skip' = skip /\ request' = request
  BY ListingFacts DEF Listing!Appear, Listing!Change, Listing!answer, Listing!arguments
<1>2. Listing!TypeOK /\ Distinct(IdsOf(listings)) /\ stayed \subseteq Elements(listings)
  BY DEF PagesInv
<1>3. listings \in Seq(Offers) /\ skip \in Nat /\ left \in Nat
  BY <1>2, PagesTypes
<1>4. listings' = With(listings, i, l) /\ listings' \in Seq(Offers)
  BY <1>1, <1>3, InsertIsWith, WithType
<1>5. Distinct(IdsOf(listings'))
  <2>1. l.external_id \notin Elements(IdsOf(listings))
    BY <1>1, <1>3, IdsType
  <2> QED
    BY <1>2, <1>3, <1>4, <2>1, IdsOfWith
<1>6. stayed' \subseteq Elements(listings')
  <2>1. Elements(listings') = Elements(listings) \union {l}
    BY <1>3, <1>4, WithElements
  <2> QED
    BY <1>1, <1>2, <2>1
<1>7. /\ Rest(request, listings, skip) \subseteq Rest(request, With(listings, i, l), skip)
      /\ \E y : Rest(request, With(listings, i, l), skip) \subseteq Rest(request, listings, skip) \union {y}
  BY <1>3, RestWith
<1>8. ToCome \subseteq ToCome' /\ \E y : ToCome' \subseteq ToCome \union {y}
  BY <1>1, <1>4, <1>7 DEF ToCome
<1>9. PICK y : ToCome' \subseteq ToCome \union {y}
  BY <1>8
<1>10. PICK c \in {0, 1}, g \in {0, 1} : c = 1 /\ g = 0
  OBVIOUS
<1>11. appeared' = appeared + c /\ left' = left + g /\ stayed' \subseteq stayed
  BY <1>1, <1>3, <1>10
<1>12. /\ IF c = 0 THEN ToCome' \subseteq ToCome ELSE ToCome' \subseteq ToCome \union {y}
       /\ IF g = 0 THEN ToCome \subseteq ToCome' ELSE ToCome \subseteq ToCome' \union {y}
  BY <1>8, <1>9, <1>10
<1> QED
  BY <1>1, <1>4, <1>5, <1>6, <1>11, <1>12, ListingChanged

\* The list without the listing at place i, and what is still to come in it.
LEMMA ListingRemoved ==
    ASSUME PagesInv, NEW i \in 1..Len(listings), NEW rest, rest = Listing!RemoveAt(listings, i)
    PROVE  /\ rest \in Seq(Offers) /\ Len(rest) = Len(listings) - 1
           /\ Distinct(IdsOf(rest)) /\ listings[i] \in Offers
           /\ listings[i].external_id \notin Elements(IdsOf(rest))
           /\ Elements(listings) = Elements(rest) \union {listings[i]}
           /\ Rest(request, rest, skip) \subseteq ToCome
           /\ \E z : ToCome \subseteq Rest(request, rest, skip) \union {z}
<1>1. Listing!TypeOK /\ Distinct(IdsOf(listings))
  BY DEF PagesInv
<1>2. /\ listings \in Seq(Offers) /\ Len(listings) \in Nat /\ skip \in Nat /\ listings[i] \in Offers
  BY <1>1, PagesTypes
<1>3. rest \in Seq(Offers) /\ Len(rest) = Len(listings) - 1 /\ With(rest, i, listings[i]) = listings
  BY <1>2, RemoveThenWith
<1>4. i \in 1..(Len(rest) + 1)
  BY <1>2, <1>3
<1>5. /\ Elements(listings) = Elements(rest) \union {listings[i]}
      /\ Distinct(IdsOf(listings))
             <=> Distinct(IdsOf(rest)) /\ listings[i].external_id \notin Elements(IdsOf(rest))
  <2>1. Elements(With(rest, i, listings[i])) = Elements(rest) \union {listings[i]}
    BY <1>2, <1>3, <1>4, WithElements
  <2>2. Distinct(IdsOf(With(rest, i, listings[i])))
             <=> Distinct(IdsOf(rest)) /\ listings[i].external_id \notin Elements(IdsOf(rest))
    BY <1>2, <1>3, <1>4, IdsOfWith
  <2> QED
    BY <1>3, <2>1, <2>2
<1>6. /\ Rest(request, rest, skip) \subseteq ToCome
      /\ \E z : ToCome \subseteq Rest(request, rest, skip) \union {z}
  <2>1. /\ Rest(request, rest, skip) \subseteq Rest(request, With(rest, i, listings[i]), skip)
        /\ \E z : Rest(request, With(rest, i, listings[i]), skip)
                      \subseteq Rest(request, rest, skip) \union {z}
    BY <1>2, <1>3, <1>4, RestWith
  <2> QED
    BY <1>3, <2>1 DEF ToCome
<1> QED
  BY <1>1, <1>2, <1>3, <1>5, <1>6

LEMMA ListingDisappear ==
    ASSUME PagesInv, NEW i \in 1..Len(listings), Listing!Disappear(i)
    PROVE  PagesInv'
<1>1. /\ Listing!Change /\ listings' = Listing!RemoveAt(listings, i)
      /\ appeared' = appeared /\ stayed' = stayed \ {listings[i]} /\ left' = left + 1
      /\ skip' = skip /\ request' = request
  BY DEF Listing!Disappear, Listing!Change, Listing!answer, Listing!arguments
<1>2. Listing!TypeOK /\ stayed \subseteq Elements(listings)
  BY DEF PagesInv
<1>3. appeared \in Nat
  BY <1>2, PagesTypes
<1>4. /\ listings' \in Seq(Offers) /\ Distinct(IdsOf(listings'))
      /\ Elements(listings) = Elements(listings') \union {listings[i]}
      /\ ToCome' \subseteq ToCome /\ \E z : ToCome \subseteq ToCome' \union {z}
  BY <1>1, ListingRemoved DEF ToCome
<1>5. stayed' \subseteq stayed /\ stayed' \subseteq Elements(listings')
  BY <1>1, <1>2, <1>4
<1>6. PICK z : ToCome \subseteq ToCome' \union {z}
  BY <1>4
<1>7. PICK c \in {0, 1}, g \in {0, 1} : c = 0 /\ g = 1
  OBVIOUS
<1>8. appeared' = appeared + c /\ left' = left + g
  BY <1>1, <1>3, <1>7
<1>9. /\ IF c = 0 THEN ToCome' \subseteq ToCome ELSE ToCome' \subseteq ToCome \union {z}
      /\ IF g = 0 THEN ToCome \subseteq ToCome' ELSE ToCome \subseteq ToCome' \union {z}
  BY <1>4, <1>6, <1>7
<1> QED
  BY <1>1, <1>4, <1>5, <1>8, <1>9, ListingChanged

LEMMA ListingMove ==
    ASSUME PagesInv, NEW l \in Offers, NEW i \in 1..Len(listings), NEW j \in 1..Len(listings),
           Listing!Move(i, l, j)
    PROVE  PagesInv'
<1> DEFINE rest == Listing!RemoveAt(listings, i)
<1>1. /\ Listing!Change /\ l.external_id = listings[i].external_id
      /\ listings' = Listing!InsertAt(rest, j, l)
      /\ appeared' = appeared + 1 /\ stayed' = stayed \ {listings[i]} /\ left' = left + 1
      /\ skip' = skip /\ request' = request
  BY DEF Listing!Move, Listing!Change, Listing!answer, Listing!arguments
<1>2. Listing!TypeOK /\ stayed \subseteq Elements(listings)
  BY DEF PagesInv
<1>3. skip \in Nat /\ Len(listings) \in Nat
  BY <1>2, PagesTypes
<1>4. /\ rest \in Seq(Offers) /\ Len(rest) = Len(listings) - 1
      /\ Distinct(IdsOf(rest)) /\ listings[i].external_id \notin Elements(IdsOf(rest))
      /\ Elements(listings) = Elements(rest) \union {listings[i]}
      /\ Rest(request, rest, skip) \subseteq ToCome
      /\ \E z : ToCome \subseteq Rest(request, rest, skip) \union {z}
  BY ListingRemoved
<1> HIDE DEF rest
<1>5. j \in 1..(Len(rest) + 1)
  BY <1>3, <1>4
<1>6. listings' = With(rest, j, l) /\ listings' \in Seq(Offers)
  BY <1>1, <1>4, <1>5, InsertIsWith, WithType
<1>7. Distinct(IdsOf(listings'))
  BY <1>1, <1>4, <1>5, <1>6, IdsOfWith
<1>8. stayed' \subseteq stayed /\ stayed' \subseteq Elements(listings')
  <2>1. Elements(listings') = Elements(rest) \union {l}
    BY <1>4, <1>5, <1>6, WithElements
  <2> QED
    BY <1>1, <1>2, <1>4, <2>1
<1>9. /\ Rest(request, rest, skip) \subseteq ToCome'
      /\ \E y : ToCome' \subseteq Rest(request, rest, skip) \union {y}
  <2>1. /\ Rest(request, rest, skip) \subseteq Rest(request, With(rest, j, l), skip)
        /\ \E y : Rest(request, With(rest, j, l), skip) \subseteq Rest(request, rest, skip) \union {y}
    <3>1. rest \in Seq(Offers) /\ skip \in Nat
      BY <1>3, <1>4
    <3> QED
      BY <1>5, <3>1, RestWith
  <2> QED
    BY <1>1, <1>6, <2>1 DEF ToCome
<1>10. PICK y : ToCome' \subseteq Rest(request, rest, skip) \union {y}
  BY <1>9
<1>11. PICK z : ToCome \subseteq Rest(request, rest, skip) \union {z}
  BY <1>4
<1>12. PICK c \in {0, 1}, g \in {0, 1} : c = 1 /\ g = 1
  OBVIOUS
<1>13. appeared' = appeared + c /\ left' = left + g
  BY <1>1, <1>12
<1>14. /\ IF c = 0 THEN ToCome' \subseteq ToCome ELSE ToCome' \subseteq ToCome \union {y}
       /\ IF g = 0 THEN ToCome \subseteq ToCome' ELSE ToCome \subseteq ToCome' \union {z}
  BY <1>4, <1>9, <1>10, <1>11, <1>12
<1> QED
  BY <1>1, <1>6, <1>7, <1>8, <1>13, <1>14, ListingChanged

\* The page that starts where the client is, and what comes after it.
NextPage == Slice(Listing!Sorted(request, listings, Fitted(request, listings)), skip, skip + pageLimit)

LEMMA SortedIds ==
    ASSUME NEW r, NEW list \in Seq(Offers), NEW P \in SUBSET DOMAIN list, Distinct(IdsOf(list))
    PROVE  /\ Distinct(IdsOf(Listing!Sorted(r, list, P)))
           /\ Listing!Sorted(r, list, P) \in Seq(Offers)
           /\ Cardinality(P) \in Nat /\ Len(Listing!Sorted(r, list, P)) = Cardinality(P)
<1> DEFINE s == Listing!Sorted(r, list, P)
<1>1. PICK place : Ranked(r, list, P, s, place)
  BY SortedPlaces
<1> HIDE DEF s
<1>2. /\ Cardinality(P) \in Nat /\ s \in Seq(Offers) /\ Len(s) = Cardinality(P)
      /\ DOMAIN s = 1..Cardinality(P)
      /\ \A p \in DOMAIN s : /\ place[p] \in DOMAIN list /\ s[p] = list[place[p]]
                             /\ Listing!Rank(r, list, P, place[p]) = p - 1
  BY <1>1 DEF Ranked
<1>3. ASSUME NEW p \in DOMAIN s, NEW q \in DOMAIN s, s[p].external_id = s[q].external_id
      PROVE  p = q
  <2>1. list[place[p]].external_id = list[place[q]].external_id
    BY <1>2, <1>3
  <2>2. place[p] = place[q]
    BY <1>2, <2>1 DEF Distinct, IdsOf
  <2>3. p - 1 = q - 1
    BY <1>2, <2>2
  <2> QED
    BY <1>2, <2>3
<1>4. Distinct(IdsOf(s))
  BY <1>3 DEF Distinct, IdsOf
<1> QED
  BY <1>2, <1>4 DEF s

LEMMA PageFacts ==
    ASSUME PagesInv, stage # "new",
           NEW rest, rest = Rest(request, listings, skip + pageLimit)
    PROVE  /\ NextPage \in Seq(Offers) /\ Len(NextPage) \in Nat /\ Distinct(IdsOf(NextPage))
           /\ Elements(NextPage) \union rest = ToCome
           /\ {l.external_id : l \in Elements(NextPage)} \intersect {l.external_id : l \in rest} = {}
           /\ DOMAIN NextPage = 1..Len(NextPage)
           /\ \A k \in DOMAIN NextPage :
                  /\ skip + k \in DOMAIN Listing!Sorted(request, listings, Fitted(request, listings))
                  /\ NextPage[k]
                         = Listing!Sorted(request, listings, Fitted(request, listings))[skip + k]
           /\ Cardinality(Fitted(request, listings)) \in Nat
           /\ IF skip + pageLimit < Cardinality(Fitted(request, listings))
              THEN Len(NextPage) = pageLimit ELSE rest = {}
<1> DEFINE P == Fitted(request, listings)
<1>1. Listing!TypeOK /\ Distinct(IdsOf(listings)) /\ pageLimit \in PageLimits
  BY DEF PagesInv
<1>2. listings \in Seq(Offers) /\ skip \in Nat /\ pageLimit \in Nat /\ P \in SUBSET DOMAIN listings
  BY <1>1, PagesTypes, ListingFacts DEF Fitted
<1>3. PICK b \in Nat : b = skip + pageLimit /\ skip <= b /\ b - skip = pageLimit
  BY <1>2
<1>a. PICK s : s = Listing!Sorted(request, listings, P)
  OBVIOUS
<1>4. /\ Distinct(IdsOf(s)) /\ s \in Seq(Offers) /\ Cardinality(P) \in Nat /\ Len(s) = Cardinality(P)
  <2> HIDE DEF P
  <2> QED
    BY <1>a, <1>1, <1>2, SortedIds
<1>b. PICK f : f = Slice(s, skip, b)
  OBVIOUS
<1>5. /\ f \in Seq(Offers) /\ Len(f) \in Nat /\ Len(f) <= b - skip
      /\ Elements(f) \union After(s, b) = After(s, skip)
      /\ Len(f) # b - skip => After(s, b) = {}
      /\ DOMAIN f = 1..Len(f)
      /\ \A k \in DOMAIN f : skip + k \in DOMAIN s /\ ~(skip + k > b) /\ f[k] = s[skip + k]
  <2>1. s \in Seq(Offers) /\ skip \in Nat /\ b \in Nat /\ skip <= b
    BY <1>2, <1>3, <1>4
  <2>2. /\ Slice(s, skip, b) \in Seq(Offers) /\ Len(Slice(s, skip, b)) \in Nat
        /\ Len(Slice(s, skip, b)) <= b - skip
        /\ Elements(Slice(s, skip, b)) \union After(s, b) = After(s, skip)
        /\ Len(Slice(s, skip, b)) # b - skip => After(s, b) = {}
        /\ CutAt(Slice(s, skip, b), s, skip, b)
    BY <2>1, SliceElements
  <2>3. DOMAIN f = 1..Len(f)
    BY <1>b, <2>2
  <2> QED
    BY <1>b, <2>2, <2>3, Zenon DEF CutAt
<1>6. f = NextPage /\ rest = After(s, b) /\ ToCome = After(s, skip)
  BY <1>a, <1>b, <1>3 DEF NextPage, Rest, ToCome
<1>7. DOMAIN s = 1..Len(s)
  BY <1>4
<1>8. \A j, k \in DOMAIN s : s[j].external_id = s[k].external_id => j = k
  BY <1>4 DEF Distinct, IdsOf
<1>9. Distinct(IdsOf(f))
  <2>1. ASSUME NEW j \in DOMAIN f, NEW k \in DOMAIN f, f[j].external_id = f[k].external_id
        PROVE  j = k
    <3>1. skip + j = skip + k
      BY <1>5, <1>8, <2>1
    <3> QED
      BY <1>2, <1>5, <3>1
  <2> QED
    BY <2>1 DEF Distinct, IdsOf
<1>10. {l.external_id : l \in Elements(f)} \intersect {l.external_id : l \in After(s, b)} = {}
  <2>1. ASSUME NEW k \in DOMAIN f, NEW j \in DOMAIN s, j > b PROVE f[k].external_id # s[j].external_id
    BY <1>5, <1>8, <2>1
  <2> QED
    BY <2>1 DEF Elements, After
<1>11. CASE skip + pageLimit < Cardinality(P)
  <2>1. b + 1 \in DOMAIN s /\ b + 1 > b
    BY <1>3, <1>4, <1>7, <1>11
  <2>2. After(s, b) # {}
    BY <2>1 DEF After
  <2> QED
    BY <1>3, <1>4, <1>5, <1>6, <1>9, <1>10, <1>11, <2>2, <1>a DEF P
<1>12. CASE ~(skip + pageLimit < Cardinality(P))
  <2>1. \A j \in DOMAIN s : ~(j > b)
    BY <1>3, <1>4, <1>7, <1>12
  <2>2. After(s, b) = {}
    BY <2>1 DEF After
  <2> QED
    BY <1>3, <1>4, <1>5, <1>6, <1>9, <1>10, <1>12, <2>2, <1>a DEF P
<1> QED
  BY <1>11, <1>12

\* The page that get_properties answers with.
LEMMA PageIsNext ==
    ASSUME PagesInv, stage # "new"
    PROVE  /\ Listing!Fitting(listings) = Fitted(request, listings)
           /\ Listing!Page(Listing!Fitting(listings)) = NextPage
<1> DEFINE P == Fitted(request, listings)
<1>1. Listing!TypeOK /\ Distinct(IdsOf(listings)) /\ pageLimit \in PageLimits
  BY DEF PagesInv
<1>2. listings \in Seq(Offers) /\ skip \in Nat /\ pageLimit \in Nat /\ P \in SUBSET DOMAIN listings
  BY <1>1, PagesTypes, ListingFacts DEF Fitted
<1>3. Listing!Fitting(listings) = P
  BY DEF Listing!Fitting, Fitted
<1> HIDE DEF P
<1>4. PICK s : s = Listing!Sorted(request, listings, P)
  OBVIOUS
<1>5. s \in Seq(Offers)
  BY <1>1, <1>2, <1>4, SortedIds
<1>6. Len(s) \in Int /\ skip + pageLimit \in Int
  BY <1>2, <1>5
<1>7. Listing!Min({skip + pageLimit, Len(s)})
          = IF skip + pageLimit <= Len(s) THEN skip + pageLimit ELSE Len(s)
  BY <1>6, LeastOfTwo
<1>8. Listing!Page(P) = Slice(s, skip, skip + pageLimit)
  BY <1>4, <1>7, Zenon DEF Listing!Page, Listing!Slice, Slice
<1> QED
  BY <1>3, <1>4, <1>8 DEF NextPage, P

\* What the page says of the pages.
PageCount(n, b) == IF n > 0 THEN (n + b - 1) \div b ELSE 1

LEMMA PageNumbers ==
    ASSUME NEW q \in Nat, NEW b \in Nat, b > 0, NEW n \in Nat
    PROVE  /\ (q * b) \div b = q /\ PageCount(n, b) \in Nat /\ PageCount(n, b) # 0
           /\ q * b + b < n <=> q + 1 < PageCount(n, b)
<1> DEFINE c == PageCount(n, b)
<1>0. c = IF n > 0 THEN (n + b - 1) \div b ELSE 1
  BY DEF PageCount
<1> HIDE DEF c
<1>1. (q * b) \div b = q
  BY ExactQuotient
<1>2. PICK e \in Nat : e = q * b
  OBVIOUS
<1>3. CASE n = 0
  <2>1. ~(q * b + b < n) /\ c = 1
    BY <1>0, <1>2, <1>3
  <2> QED
    BY <1>1, <2>1 DEF c
<1>4. CASE n > 0
  <2>1. PICK m \in Nat : m = n + b - 1
    BY <1>4
  <2>2. c \in Nat /\ c * b <= m /\ m < (c + 1) * b
    <3>1. c = m \div b
      BY <1>0, <1>4, <2>1
    <3> QED
      BY <2>1, <3>1, Quotient
  <2>3. c # 0
    BY <1>4, <2>1, <2>2
  <2>4. q * b + b < n <=> q + 1 < c
    <3>1. c * b <= n + b - 1 /\ n + b - 1 < (c + 1) * b
      BY <2>1, <2>2
    <3> QED
      BY <2>2, <3>1, OneMorePage
  <2> QED
    BY <1>1, <2>2, <2>3, <2>4 DEF c
<1> QED
  BY <1>3, <1>4

LEMMA FiniteIds == ASSUME NEW S, IsFiniteSet(S) PROVE IsFiniteSet({l.external_id : l \in S})
<1> DEFINE T == {l.external_id : l \in S}
           h == [l \in S |-> l.external_id]
<1>1. h \in Surjection(S, T)
  BY DEF Surjection
<1> QED
  BY <1>1, FS_Surjection

LEMMA ListingPage == ASSUME PagesInv, Listing!GetProperties PROVE PagesInv'
<1> DEFINE f == NextPage
           E == Elements(IdsOf(read))
           F == Elements(IdsOf(f))
           D == Elements(read)
           n == Cardinality(Fitted(request, listings))
           rest == Rest(request, listings, skip + pageLimit)
           A == {l.external_id : l \in ToCome}
           B == {l.external_id : l \in rest}
           order == Listing!Sorted(request, listings, Fitted(request, listings))
<1>1. stage \in {"found", "paging"} /\ stage # "new"
  BY DEF Listing!GetProperties
<1>2. /\ Listing!Fitting(listings) = Fitted(request, listings)
      /\ Listing!Page(Listing!Fitting(listings)) = f
      /\ Listing!Cardinality(Listing!Fitting(listings)) = n
  BY <1>1, PageIsNext, ListingFacts
<1>3. /\ read' = read \o f
      /\ pages' = [page |-> (skip \div pageLimit) + 1,
                   pages |-> IF n > 0 THEN (n + pageLimit - 1) \div pageLimit ELSE 1,
                   has_next |-> skip + pageLimit < n]
      /\ IF skip + pageLimit < n THEN stage' = "paging" /\ skip' = skip + pageLimit
         ELSE stage' = "read" /\ skip' = skip
      /\ listings' = listings /\ request' = request /\ pageLimit' = pageLimit
      /\ listingChanges' = listingChanges /\ stayed' = stayed /\ left' = left
      /\ appeared' = appeared
  <2> HIDE DEF f, n
  <2> QED
    BY <1>2 DEF Listing!GetProperties, Listing!HasNext, Listing!arguments, Listing!history
<1>4. Listing!TypeOK /\ pageLimit \in PageLimits /\ Distinct(IdsOf(listings))
  BY <1>1 DEF PagesInv
<1>5. /\ read \in Seq(Offers) /\ Len(read) \in Nat /\ DOMAIN read = 1..Len(read)
      /\ skip \in Nat /\ appeared \in Nat /\ left \in Nat
      /\ IsFiniteSet(Elements(read)) /\ IsFiniteSet(E)
      /\ listings \in Seq(Offers) /\ pageLimit \in Nat /\ pageLimit > 0
  BY <1>4, PagesTypes, ListingFacts
<1>6. /\ f \in Seq(Offers) /\ Len(f) \in Nat /\ Distinct(IdsOf(f))
      /\ Elements(f) \union rest = ToCome
      /\ {l.external_id : l \in Elements(f)} \intersect B = {}
      /\ DOMAIN f = 1..Len(f)
      /\ \A k \in DOMAIN f : skip + k \in DOMAIN order /\ f[k] = order[skip + k]
      /\ n \in Nat
      /\ IF skip + pageLimit < n THEN Len(f) = pageLimit ELSE rest = {}
  BY <1>1, PageFacts
<1>7. Len(order) \in Nat /\ DOMAIN order = 1..Len(order) /\ order \in Seq(Offers)
  <2>1. Fitted(request, listings) \in SUBSET DOMAIN listings
    BY DEF Fitted
  <2>2. order \in Seq(Offers)
    BY <1>4, <1>5, <2>1, SortedIds
  <2> HIDE DEF order
  <2> QED
    BY <2>2
<1>8. PICK q \in Nat : skip = q * pageLimit
  BY <1>1 DEF PagesInv
<1>9. /\ Len(read) = skip
      /\ Len(read) + Cardinality(E \intersect A) <= Cardinality(E) + appeared
      /\ Cardinality(Wanted \ (D \union ToCome)) <= left
      /\ listingChanges = 0 => Len(read) <= Len(order) /\ \A k \in DOMAIN read : read[k] = order[k]
      /\ left <= listingChanges /\ appeared <= listingChanges /\ stayed \subseteq Elements(listings)
  BY <1>1 DEF PagesInv
<1>10. IsFiniteSet(rest)
  <2>1. rest \subseteq Elements(order)
    BY DEF Rest, After, Elements
  <2> HIDE DEF order, rest
  <2>2. IsFiniteSet(Elements(order))
    BY <1>7, ElementsFinite
  <2> QED
    BY <2>1, <2>2, FS_Subset
<1>11. \A S, T : A = {l.external_id : l \in S \union T} =>
                     A = {l.external_id : l \in S} \union {l.external_id : l \in T}
  OBVIOUS
<1> HIDE DEF f, n, rest, order, D
<1>12. F \union B = A /\ F \intersect B = {} /\ IsFiniteSet(B) /\ IsFiniteSet(F)
       /\ Cardinality(F) = Len(f)
  <2>1. F = {l.external_id : l \in Elements(f)} /\ IdsOf(f) \in Seq(Ids) /\ Len(IdsOf(f)) = Len(f)
    BY <1>6, IdsType
  <2>2. F \union B = A
    BY <1>6, <2>1
  <2>3. IsFiniteSet(B)
    BY <1>10, FiniteIds DEF B
  <2>4. IsFiniteSet(F) /\ Cardinality(F) = Len(IdsOf(f))
    BY <1>6, <2>1, DistinctCount
  <2> QED
    BY <1>6, <2>1, <2>2, <2>3, <2>4
<1>13. /\ read' \in Seq(Offers) /\ Len(read') = Len(read) + Len(f)
       /\ Elements(read') = D \union Elements(f)
  BY <1>3, <1>5, <1>6, JoinedElements DEF D
<1>14. Elements(IdsOf(read')) = E \union F
  <2>1. /\ Elements(IdsOf(read')) = {l.external_id : l \in Elements(read')}
        /\ E = {l.external_id : l \in D}
        /\ F = {l.external_id : l \in Elements(f)}
    BY <1>5, <1>6, <1>13, IdsType DEF D
  <2> HIDE DEF E, F
  <2> QED
    BY <1>13, <2>1
<1> HIDE DEF E, F, A, B
<1>15. /\ Len(read') + Cardinality((E \union F) \intersect B) <= Cardinality(E \union F) + appeared
       /\ Cardinality(E \union F) \in Nat /\ Cardinality((E \union F) \intersect B) \in Nat
  <2>1. /\ (Len(read) + Cardinality(F)) + Cardinality((E \union F) \intersect B)
               <= Cardinality(E \union F) + appeared
        /\ Cardinality(E \union F) \in Nat /\ Cardinality((E \union F) \intersect B) \in Nat
    BY <1>5, <1>9, <1>12, ReadOn
  <2> QED
    BY <1>12, <1>13, <2>1
<1>16. Len(read') <= Cardinality(E \union F) + appeared
  <2>1. Len(read') \in Nat
    BY <1>13
  <2> QED
    BY <1>5, <1>15, <2>1
<1>17. Cardinality(Wanted \ ((D \union Elements(f)) \union rest)) <= left
  <2>1. (D \union Elements(f)) \union rest = D \union ToCome
    BY <1>6
  <2> QED
    BY <1>9, <2>1, Zenon
<1>18. ASSUME listingChanges = 0
       PROVE  Len(read') <= Len(order) /\ \A k \in DOMAIN read' : read'[k] = order[k]
  <2>1. /\ DOMAIN read' = 1..(Len(read) + Len(f))
        /\ \A k \in 1..(Len(read) + Len(f)) :
               read'[k] = IF k <= Len(read) THEN read[k] ELSE f[k - Len(read)]
    BY <1>3, <1>5, <1>6, Joined
  <2>a. PICK a \in Nat, b \in Nat : a = Len(read) /\ b = Len(f)
    BY <1>5, <1>6
  <2>2. Len(read') <= Len(order)
    <3>1. CASE Len(f) = 0
      BY <1>5, <1>9, <1>13, <1>18, <3>1
    <3>2. CASE Len(f) # 0
      <4>1. skip + Len(f) \in DOMAIN order
        BY <1>6, <3>2
      <4> QED
        BY <1>7, <1>9, <1>13, <4>1
    <3> QED
      BY <3>1, <3>2
  <2>3. ASSUME NEW k \in DOMAIN read' PROVE read'[k] = order[k]
    <3>1. CASE k <= Len(read)
      <4>1. k \in 1..(a + b) /\ k <= a
        BY <2>a, <2>1, <3>1
      <4>2. k \in 1..a
        BY <4>1
      <4>3. k \in DOMAIN read
        BY <1>5, <2>a, <4>2
      <4> QED
        BY <1>9, <1>18, <2>1, <3>1, <4>3
    <3>2. CASE ~(k <= Len(read))
      <4>1. k \in 1..(a + b) /\ ~(k <= a)
        BY <2>a, <2>1, <3>2
      <4>2. k - a \in 1..b /\ a + (k - a) = k
        BY <4>1
      <4>3. k - a \in DOMAIN f /\ skip + (k - a) = k
        BY <1>6, <1>9, <2>a, <4>2
      <4> QED
        BY <1>6, <2>a, <2>1, <3>2, <4>3
    <3> QED
      BY <3>1, <3>2
  <2> QED
    BY <2>2, <2>3
<1>19. /\ pages' \in [page : Nat, pages : Nat \ {0}, has_next : BOOLEAN]
       /\ pages'.has_next <=> pages'.page < pages'.pages
  <2>1. /\ (q * pageLimit) \div pageLimit = q
        /\ PageCount(n, pageLimit) \in Nat /\ PageCount(n, pageLimit) # 0
        /\ q * pageLimit + pageLimit < n <=> q + 1 < PageCount(n, pageLimit)
    BY <1>5, <1>6, PageNumbers
  <2>2. PICK c \in Nat \ {0} : c = PageCount(n, pageLimit)
    BY <2>1
  <2>3. skip + pageLimit < n <=> q + 1 < c
    BY <1>8, <2>1, <2>2
  <2>4. pages' = [page |-> q + 1, pages |-> c, has_next |-> skip + pageLimit < n]
    BY <1>3, <1>8, <2>1, <2>2 DEF PageCount
  <2>5. pages'.page = q + 1 /\ pages'.pages = c
    BY <2>4
  <2>6. pages'.has_next <=> skip + pageLimit < n
    BY <2>4, Zenon
  <2>7. pages' \in [page : Nat, pages : Nat \ {0}, has_next : BOOLEAN]
    <3>1. q + 1 \in Nat /\ c \in Nat \ {0} /\ (skip + pageLimit < n) \in BOOLEAN
      OBVIOUS
    <3> QED
      BY <2>4, <3>1, Zenon
  <2> QED
    BY <2>3, <2>5, <2>6, <2>7
<1>20. Listing!TypeOK'
  <2>1. skip' \in Nat /\ stage' \in {"new", "found", "paging", "read", "answered"}
    BY <1>3, <1>5
  <2> QED
    BY <1>3, <1>4, <1>13, <1>19, <2>1 DEF Listing!TypeOK
<1>21. order = Listing!Sorted(request, listings, Fitted(request, listings))'
  BY <1>3 DEF order
<1>22. Wanted' = Wanted
  BY <1>3 DEF Wanted
<1>23. /\ Elements(IdsOf(read))' = E \union F
       /\ Elements(read)' = D \union Elements(f)
  BY <1>13, <1>14
<1>24. /\ (Len(read) <= Cardinality(Elements(IdsOf(read))) + appeared)'
       /\ (pages.page > 0 => (pages.has_next <=> pages.page < pages.pages))'
       /\ (Distinct(IdsOf(listings)) /\ stayed \subseteq Elements(listings))'
       /\ (left <= listingChanges /\ appeared <= listingChanges)'
       /\ (pageLimit \in PageLimits)' /\ stage' \in {"paging", "read"}
  BY <1>3, <1>4, <1>9, <1>16, <1>19, <1>23
<1>25. (listingChanges = 0 =>
            LET o == Listing!Sorted(request, listings, Fitted(request, listings))
            IN  Len(read) <= Len(o) /\ \A k \in DOMAIN read : read[k] = o[k])'
  BY <1>3, <1>18, <1>21
<1>26. CASE skip + pageLimit < n
  <2>1. stage' = "paging" /\ skip' = skip + pageLimit /\ Len(f) = pageLimit
    BY <1>3, <1>6, <1>26
  <2>2. ToCome' = rest
    BY <1>3, <2>1 DEF ToCome, rest
  <2>3. {l.external_id : l \in ToCome}' = B
    BY <2>2 DEF B
  <2>4. /\ (Len(read) + Cardinality(Elements(IdsOf(read)) \intersect {l.external_id : l \in ToCome})
               <= Cardinality(Elements(IdsOf(read))) + appeared)'
        /\ (Cardinality(Wanted \ (Elements(read) \union ToCome)) <= left)'
    BY <1>3, <1>15, <1>17, <1>22, <1>23, <2>2, <2>3, Zenon
  <2>5. Len(read') = skip'
    BY <1>9, <1>13, <2>1
  <2>6. (\E m \in Nat : skip = m * pageLimit)'
    <3>1. skip + pageLimit = (q + 1) * pageLimit /\ q + 1 \in Nat
      BY <1>5, <1>8
    <3> QED
      BY <1>3, <2>1, <3>1
  <2> QED
    BY <1>20, <1>24, <1>25, <2>1, <2>4, <2>5, <2>6 DEF PagesInv
<1>27. CASE ~(skip + pageLimit < n)
  <2>1. stage' = "read" /\ rest = {}
    BY <1>3, <1>6, <1>27
  <2>2. (D \union Elements(f)) \union rest = D \union Elements(f)
    BY <2>1
  <2>3. (Cardinality(Wanted \ Elements(read)) <= left)'
    BY <1>3, <1>17, <1>22, <1>23, <2>2, Zenon
  <2> QED
    BY <1>20, <1>24, <1>25, <2>1, <2>3 DEF PagesInv
<1> QED
  BY <1>26, <1>27

------------------------------------------------------------------------------
(* ListingSearch: the engine's answer *)

Grown(S, i) ==
    IF Listing!Matches(request, listings[i]) /\ ~Listing!DuplicateOfKept(listings[i], S)
    THEN S \union {i} ELSE S

GrownBy(g, n) == g = [i \in 0..n |-> IF i = 0 THEN {} ELSE Grown(g[i - 1], i)]

LEMMA UniqueUnfolds ==
    ASSUME NEW n \in Nat, n = Len(listings)
    PROVE  \E g : GrownBy(g, n) /\ Listing!Unique = g[n]
<1> DEFINE T == {m \in 0..n : \E g : GrownBy(g, m)}
           h[i \in 0..n] == IF i = 0 THEN {}
                            ELSE IF Listing!Matches(request, listings[i])
                                    /\ ~Listing!DuplicateOfKept(listings[i], h[i - 1])
                                 THEN h[i - 1] \union {i}
                            ELSE h[i - 1]
<1>1. Listing!Unique = h[n]
  BY Zenon DEF Listing!Unique
<1>2. 0 \in T
  <2>1. GrownBy([i \in 0..0 |-> {}], 0)
    BY DEF GrownBy
  <2> QED
    BY <2>1
<1>3. ASSUME NEW m \in 0..(n - 1), m \in T PROVE m + 1 \in T
  <2>1. PICK g : GrownBy(g, m)
    BY <1>3
  <2> DEFINE f == [i \in 0..(m + 1) |-> IF i = m + 1 THEN Grown(g[m], i) ELSE g[i]]
  <2>2. ASSUME NEW i \in 0..(m + 1) PROVE f[i] = IF i = 0 THEN {} ELSE Grown(f[i - 1], i)
    <3>1. CASE i = m + 1
      <4>1. i - 1 = m /\ m \in 0..(m + 1) /\ m # m + 1 /\ i # 0
        BY <3>1
      <4> QED
        BY <3>1, <4>1
    <3>2. CASE i # m + 1
      <4>1. i \in 0..m /\ (i # 0 => i - 1 \in 0..(m + 1) /\ i - 1 # m + 1)
        BY <3>2
      <4>2. g[i] = IF i = 0 THEN {} ELSE Grown(g[i - 1], i)
        BY <2>1, <4>1 DEF GrownBy
      <4>3. f[i] = g[i] /\ (i # 0 => f[i - 1] = g[i - 1])
        BY <3>2, <4>1
      <4> HIDE DEF f
      <4> QED
        BY <4>2, <4>3
    <3> QED
      BY <3>1, <3>2
  <2>3. f = [i \in 0..(m + 1) |-> f[i]]
    OBVIOUS
  <2> HIDE DEF f
  <2>4. GrownBy(f, m + 1)
    BY <2>2, <2>3 DEF GrownBy
  <2> QED
    BY <2>4
<1>4. n \in T
  <2> HIDE DEF T
  <2> QED
    BY <1>2, <1>3, InductionTo
<1>5. PICK g : GrownBy(g, n)
  BY <1>4
<1>6. g = [i \in 0..n |-> IF i = 0 THEN {}
                           ELSE IF Listing!Matches(request, listings[i])
                                   /\ ~Listing!DuplicateOfKept(listings[i], g[i - 1])
                                THEN g[i - 1] \union {i}
                           ELSE g[i - 1]]
  BY <1>5, Zenon DEF GrownBy, Grown
<1>7. h = [i \in 0..n |-> IF i = 0 THEN {}
                           ELSE IF Listing!Matches(request, listings[i])
                                   /\ ~Listing!DuplicateOfKept(listings[i], h[i - 1])
                                THEN h[i - 1] \union {i}
                           ELSE h[i - 1]]
  BY <1>6, Zenon
<1> HIDE DEF h, T
<1>8. GrownBy(h, n)
  BY <1>7, Zenon DEF GrownBy, Grown
<1> QED
  BY <1>1, <1>8

\* The places that are kept of the first m: they match, no two are duplicates, and each
\* place that matches is kept or a duplicate of one that is.
Kept(S, m) ==
    /\ S \subseteq 1..m
    /\ \A i \in S : Listing!Matches(request, listings[i])
    /\ \A i, j \in S : i # j => ~Listing!IsDuplicate(listings[i], listings[j])
    /\ \A i \in 1..m : Listing!Matches(request, listings[i]) =>
           \E k \in S : k = i \/ Listing!IsDuplicate(listings[i], listings[k])

LEMMA DuplicatesBothWays ==
    ASSUME NEW k, NEW l, Listing!IsDuplicate(k, l) PROVE Listing!IsDuplicate(l, k)
<1>1. /\ {k.price - l.price, l.price - k.price} = {l.price - k.price, k.price - l.price}
      /\ {k.price, l.price} = {l.price, k.price}
  OBVIOUS
<1>2. Listing!NearPrice(k, l) => Listing!NearPrice(l, k)
  BY <1>1, Zenon DEF Listing!NearPrice
<1> QED
  BY <1>2, Zenon DEF Listing!IsDuplicate

LEMMA KeptGrows ==
    ASSUME NEW m \in Nat, NEW S, Kept(S, m) PROVE Kept(Grown(S, m + 1), m + 1)
<1> DEFINE i == m + 1
           l == listings[i]
<1>1. S \subseteq 1..m /\ i \in Nat /\ i \notin 1..m /\ 1..i = (1..m) \union {i}
  BY DEF Kept
<1>2. CASE Listing!Matches(request, l) /\ \A k \in S : ~Listing!IsDuplicate(l, listings[k])
  <2>1. Grown(S, i) = S \union {i}
    BY <1>2 DEF Grown, Listing!DuplicateOfKept
  <2>2. S \union {i} \subseteq 1..i
    BY <1>1
  <2>3. \A k \in S \union {i} : Listing!Matches(request, listings[k])
    BY <1>2 DEF Kept
  <2>4. \A j, k \in S \union {i} : j # k => ~Listing!IsDuplicate(listings[j], listings[k])
    BY <1>2, DuplicatesBothWays DEF Kept
  <2>5. \A j \in 1..i : Listing!Matches(request, listings[j]) =>
            \E k \in S \union {i} : k = j \/ Listing!IsDuplicate(listings[j], listings[k])
    BY <1>1 DEF Kept
  <2> QED
    BY <2>1, <2>2, <2>3, <2>4, <2>5 DEF Kept
<1>3. CASE ~(Listing!Matches(request, l) /\ \A k \in S : ~Listing!IsDuplicate(l, listings[k]))
  <2>1. Grown(S, i) = S
    BY <1>3 DEF Grown, Listing!DuplicateOfKept
  <2>2. S \subseteq 1..i
    BY <1>1
  <2>3. \A j \in 1..i : Listing!Matches(request, listings[j]) =>
            \E k \in S : k = j \/ Listing!IsDuplicate(listings[j], listings[k])
    BY <1>1, <1>3 DEF Kept
  <2> QED
    BY <2>1, <2>2, <2>3 DEF Kept
<1> QED
  BY <1>2, <1>3

LEMMA UniqueKept ==
    ASSUME NEW n \in Nat, n = Len(listings) PROVE Kept(Listing!Unique, n)
<1>1. PICK g : GrownBy(g, n) /\ Listing!Unique = g[n]
  BY UniqueUnfolds
<1> DEFINE T == {m \in 0..n : Kept(g[m], m)}
<1>2. 0 \in T
  <2>1. g[0] = {}
    BY <1>1 DEF GrownBy
  <2> QED
    BY <2>1 DEF Kept
<1>3. ASSUME NEW m \in 0..(n - 1), m \in T PROVE m + 1 \in T
  <2>1. m + 1 \in 0..n /\ m + 1 # 0 /\ (m + 1) - 1 = m /\ m \in Nat
    OBVIOUS
  <2>2. g[m + 1] = Grown(g[m], m + 1)
    BY <1>1, <2>1 DEF GrownBy
  <2>3. Kept(Grown(g[m], m + 1), m + 1)
    BY <1>3, <2>1, KeptGrows
  <2> QED
    BY <2>1, <2>2, <2>3
<1>4. n \in T
  <2> HIDE DEF T
  <2> QED
    BY <1>2, <1>3, InductionTo
<1> QED
  BY <1>1, <1>4

\* The engine's answer: the first places in the order of what is kept.
BestOnes == Slice(Listing!Sorted(request, listings, Listing!Unique), 0, pageLimit)

LEMMA BestFacts ==
    ASSUME PagesInv, stage # "new"
    PROVE  LET s == Listing!Sorted(request, listings, Listing!Unique)
               f == BestOnes
           IN  /\ Listing!Best(Listing!Unique) = f
               /\ f \in Seq(Offers) /\ Len(f) \in Nat /\ Len(f) <= pageLimit
               /\ Distinct(IdsOf(f)) /\ DOMAIN f = 1..Len(f)
               /\ \A k \in DOMAIN f : k \in DOMAIN s /\ f[k] = s[k]
               /\ Elements(f) \union After(s, pageLimit) = After(s, 0)
               /\ After(s, pageLimit) # {} => Len(f) = pageLimit
<1> DEFINE U == Listing!Unique
<1>1. Listing!TypeOK /\ Distinct(IdsOf(listings)) /\ pageLimit \in PageLimits
  BY DEF PagesInv
<1>2. /\ listings \in Seq(Offers) /\ Len(listings) \in Nat /\ DOMAIN listings = 1..Len(listings)
      /\ pageLimit \in Nat
  BY <1>1, PagesTypes, ListingFacts
<1>3. U \in SUBSET DOMAIN listings
  BY <1>2, UniqueKept DEF Kept
<1> HIDE DEF U
<1>4. PICK s : s = Listing!Sorted(request, listings, U)
  OBVIOUS
<1>5. s \in Seq(Offers) /\ Distinct(IdsOf(s))
  BY <1>1, <1>2, <1>3, <1>4, SortedIds
<1>6. Len(s) \in Int /\ 0 + pageLimit \in Int /\ pageLimit - 0 = pageLimit /\ 0 <= pageLimit
  BY <1>2, <1>5
<1>7. Listing!Min({pageLimit, Len(s)}) = IF pageLimit <= Len(s) THEN pageLimit ELSE Len(s)
  <2>1. pageLimit \in Int /\ Len(s) \in Int
    BY <1>2, <1>6
  <2> QED
    BY <2>1, LeastOfTwo
<1>8. Listing!Best(U) = Slice(s, 0, pageLimit)
  BY <1>4, <1>7, Zenon DEF Listing!Best, Listing!Slice, Slice
<1>b. PICK f : f = Slice(s, 0, pageLimit)
  OBVIOUS
<1>9. /\ f \in Seq(Offers) /\ Len(f) \in Nat /\ Len(f) <= pageLimit - 0
      /\ Elements(f) \union After(s, pageLimit) = After(s, 0)
      /\ Len(f) # pageLimit - 0 => After(s, pageLimit) = {}
      /\ \A k \in DOMAIN f : 0 + k \in DOMAIN s /\ ~(0 + k > pageLimit) /\ f[k] = s[0 + k]
  <2>1. s \in Seq(Offers) /\ 0 \in Nat /\ pageLimit \in Nat /\ 0 <= pageLimit
    BY <1>2, <1>5, <1>6
  <2>2. /\ Slice(s, 0, pageLimit) \in Seq(Offers) /\ Len(Slice(s, 0, pageLimit)) \in Nat
        /\ Len(Slice(s, 0, pageLimit)) <= pageLimit - 0
        /\ Elements(Slice(s, 0, pageLimit)) \union After(s, pageLimit) = After(s, 0)
        /\ Len(Slice(s, 0, pageLimit)) # pageLimit - 0 => After(s, pageLimit) = {}
        /\ CutAt(Slice(s, 0, pageLimit), s, 0, pageLimit)
    BY <2>1, SliceElements
  <2> QED
    BY <1>b, <2>2, Zenon DEF CutAt
<1>10. DOMAIN f = 1..Len(f)
  BY <1>9
<1>11. \A k \in DOMAIN f : k \in DOMAIN s /\ f[k] = s[k]
  BY <1>9, <1>10
<1>12. Distinct(IdsOf(f))
  BY <1>5, <1>11 DEF Distinct, IdsOf
<1>13. f = BestOnes
  BY <1>b, <1>4 DEF BestOnes, U
<1> QED
  BY <1>4, <1>6, <1>8, <1>9, <1>10, <1>11, <1>12, <1>13, <1>b DEF U

LEMMA BestAnswer ==
    ASSUME PagesInv, stage # "new", read' = BestOnes,
           listings' = listings, request' = request, pageLimit' = pageLimit
    PROVE  Listing!AnswerDistinctAndComplete'
<1> DEFINE U == Listing!Unique
           s == Listing!Sorted(request, listings, U)
           f == BestOnes
<1>1. Listing!TypeOK /\ pageLimit \in PageLimits
  BY DEF PagesInv
<1>2. /\ listings \in Seq(Offers) /\ Len(listings) \in Nat /\ DOMAIN listings = 1..Len(listings)
      /\ pageLimit \in Nat
  BY <1>1, PagesTypes, ListingFacts
<1>3. Kept(U, Len(listings)) /\ U \in SUBSET DOMAIN listings
  BY <1>2, UniqueKept DEF Kept
<1>4. /\ f \in Seq(Offers) /\ Len(f) \in Nat /\ Len(f) <= pageLimit
      /\ DOMAIN f = 1..Len(f)
      /\ \A k \in DOMAIN f : k \in DOMAIN s /\ f[k] = s[k]
      /\ Elements(f) \union After(s, pageLimit) = After(s, 0)
      /\ After(s, pageLimit) # {} => Len(f) = pageLimit
  BY BestFacts
<1>5. \A p, q \in DOMAIN s : p < q => ~Listing!Ahead(request, s[q], s[p])
  <2> HIDE DEF U
  <2> QED
    BY <1>2, <1>3, SortedInOrder
<1> HIDE DEF U
<1>6. PICK place : Ranked(request, listings, U, s, place)
  BY <1>2, <1>3, SortedPlaces
<1> HIDE DEF s
<1>7. /\ Cardinality(U) \in Nat /\ DOMAIN s = 1..Cardinality(U)
      /\ \A p \in DOMAIN s : /\ place[p] \in U /\ s[p] = listings[place[p]]
                             /\ Listing!Rank(request, listings, U, place[p]) = p - 1
      /\ \A i \in U : /\ Listing!Rank(request, listings, U, i) \in Nat
                      /\ Listing!Rank(request, listings, U, i) < Cardinality(U)
                      /\ s[Listing!Rank(request, listings, U, i) + 1] = listings[i]
  BY <1>6 DEF Ranked
<1> HIDE DEF f
<1>8. \A i, j \in DOMAIN f : i < j => ~Listing!Ahead(request, f[j], f[i])
  BY <1>4, <1>5
<1>9. \A i, j \in DOMAIN f : i # j => ~Listing!IsDuplicate(f[i], f[j])
  <2> TAKE i, j \in DOMAIN f
  <2>1. /\ i \in DOMAIN s /\ j \in DOMAIN s
        /\ f[i] = listings[place[i]] /\ f[j] = listings[place[j]]
    BY <1>4, <1>7
  <2>2. place[i] = place[j] => i - 1 = j - 1
    BY <1>7, <2>1
  <2>3. i # j => place[i] # place[j]
    BY <1>7, <2>1, <2>2
  <2>4. place[i] \in U /\ place[j] \in U
    BY <1>7, <2>1
  <2> QED
    BY <1>3, <2>1, <2>3, <2>4 DEF Kept
<1>10. ASSUME NEW l \in Elements(listings), Listing!Matches(request, l)
       PROVE  \E k \in Elements(listings) :
                  /\ Listing!Matches(request, k) /\ (k = l \/ Listing!IsDuplicate(k, l))
                  /\ \/ k \in Elements(f)
                     \/ Len(f) = pageLimit /\ ~Listing!Ahead(request, k, f[Len(f)])
  <2>1. PICK i \in DOMAIN listings : listings[i] = l
    BY DEF Elements
  <2>2. PICK u \in U : u = i \/ Listing!IsDuplicate(l, listings[u])
    BY <1>2, <1>3, <1>10, <2>1 DEF Kept
  <2>3. /\ listings[u] \in Elements(listings) /\ Listing!Matches(request, listings[u])
        /\ listings[u] = l \/ Listing!IsDuplicate(listings[u], l)
    BY <1>3, <2>1, <2>2, DuplicatesBothWays DEF Kept, Elements
  <2>4. listings[u] \in After(s, 0)
    <3>1. PICK p \in Nat : p = Listing!Rank(request, listings, U, u) + 1
      BY <1>7
    <3>2. p \in DOMAIN s /\ p > 0 /\ s[p] = listings[u]
      BY <1>7, <3>1
    <3> QED
      BY <3>2 DEF After
  <2>5. CASE listings[u] \in Elements(f)
    BY <2>3, <2>5
  <2>6. CASE listings[u] \in After(s, pageLimit)
    <3>1. PICK j \in DOMAIN s : j > pageLimit /\ s[j] = listings[u]
      BY <2>6 DEF After
    <3>2. Len(f) = pageLimit
      BY <1>4, <2>6
    <3>3. pageLimit \in DOMAIN f /\ pageLimit \in DOMAIN s /\ f[pageLimit] = s[pageLimit]
      <4>1. pageLimit > 0
        BY <1>1, ListingFacts
      <4>2. pageLimit \in 1..pageLimit
        BY <1>2, <4>1
      <4> QED
        BY <1>4, <3>2, <4>2
    <3>4. ~Listing!Ahead(request, listings[u], f[Len(f)])
      BY <1>2, <1>5, <1>7, <3>1, <3>2, <3>3
    <3> QED
      BY <2>3, <3>2, <3>4
  <2> QED
    BY <1>4, <2>4, <2>5, <2>6
<1>11. /\ Listing!InOrder(read)'
       /\ (Len(read) <= pageLimit)'
       /\ (\A i, j \in DOMAIN read : i # j => ~Listing!IsDuplicate(read[i], read[j]))'
  BY <1>4, <1>8, <1>9 DEF Listing!InOrder, f
<1>12. (\A l \in Listing!ToSet(listings) : Listing!Matches(request, l) =>
            \E k \in Listing!ToSet(listings) :
                /\ Listing!Matches(request, k) /\ (k = l \/ Listing!IsDuplicate(k, l))
                /\ \/ k \in Listing!ToSet(read)
                   \/ Len(read) = pageLimit /\ ~Listing!Ahead(request, k, Listing!Last(read)))'
  <2>1. \A t : Listing!ToSet(t) = Elements(t) /\ Listing!Last(t) = t[Len(t)]
    BY ListingFacts DEF Listing!Last
  <2> QED
    BY <1>10, <2>1 DEF f
<1> QED
  BY <1>11, <1>12, Zenon DEF Listing!AnswerDistinctAndComplete

LEMMA ListingAnswer == ASSUME PagesInv, Listing!AdvancedSearch PROVE PagesInv'
<1>1. /\ stage = "found" /\ stage' = "answered" /\ read' = Listing!Best(Listing!Unique)
      /\ UNCHANGED <<listings, request, pageLimit, skip, pages,
                     listingChanges, stayed, left, appeared>>
  BY DEF Listing!AdvancedSearch, Listing!arguments, Listing!history
<1>2. /\ read' = BestOnes /\ read' \in Seq(Offers) /\ Distinct(IdsOf(read'))
  BY <1>1, BestFacts
<1>3. Listing!AnswerDistinctAndComplete'
  BY <1>1, <1>2, BestAnswer
<1>4. Listing!TypeOK'
  BY <1>1, <1>2 DEF PagesInv, Listing!TypeOK
<1>5. /\ appeared \in Nat /\ IdsOf(read') \in Seq(Ids) /\ Len(IdsOf(read')) = Len(read')
  BY <1>2, PagesTypes, IdsType DEF PagesInv
<1>6. Cardinality(Elements(IdsOf(read'))) = Len(read') /\ Len(read') \in Nat
  BY <1>2, <1>5, DistinctCount
<1>7. (Len(read) <= Cardinality(Elements(IdsOf(read))) + appeared)'
  BY <1>1, <1>5, <1>6
<1>8. /\ (Distinct(IdsOf(listings)) /\ stayed \subseteq Elements(listings))'
      /\ (left <= listingChanges /\ appeared <= listingChanges)'
      /\ (pageLimit \in PageLimits)'
      /\ (pages.page > 0 => (pages.has_next <=> pages.page < pages.pages))'
  BY <1>1 DEF PagesInv
<1> QED
  BY <1>1, <1>3, <1>4, <1>7, <1>8 DEF PagesInv

LEMMA ListingNext == ASSUME PagesInv, [Listing!Next]_listingVars PROVE PagesInv'
<1>1. CASE UNCHANGED listingVars
  BY <1>1 DEF listingVars, PagesInv, Listing!TypeOK, ToCome, Wanted,
     Listing!AnswerDistinctAndComplete, Listing!InOrder
<1>2. CASE \E list \in Listing!Lists, r \in Requests, n \in PageLimits : Listing!Find(list, r, n)
  BY <1>2, ListingFind
<1>3. CASE \E l \in Offers, i \in 1..(Len(listings) + 1) : Listing!Appear(l, i)
  BY <1>3, ListingAppear
<1>4. CASE \E l \in Offers, i, j \in 1..Len(listings) : Listing!Move(i, l, j)
  BY <1>4, ListingMove
<1>5. CASE \E i \in 1..Len(listings) : Listing!Disappear(i)
  BY <1>5, ListingDisappear
<1> QED
  BY <1>1, <1>2, <1>3, <1>4, <1>5, ListingPage, ListingAnswer DEF Listing!Next

LEMMA PagesInvariance == MCSpec => []PagesInv
<1>1. MCInit => PagesInv
  BY ListingInit DEF MCInit
<1>2. PagesInv /\ [MCNext]_MCvars => PagesInv'
  BY ListingNext, Moves
<1> QED
  BY <1>1, <1>2, PTL DEF MCSpec

LEMMA PagesSound == ASSUME PagesInv PROVE Listing!PagesOffByChanges
<1> DEFINE order == Listing!Sorted(request, listings, Fitted(request, listings))
<1>1. Listing!TypeOK
  BY DEF PagesInv
<1>2. /\ listings \in Seq(Offers) /\ read \in Seq(Offers) /\ Len(read) \in Nat
      /\ DOMAIN read = 1..Len(read) /\ appeared \in Nat /\ IsFiniteSet(Elements(IdsOf(read)))
      /\ Fitted(request, listings) \in SUBSET DOMAIN listings
  BY <1>1, PagesTypes DEF Fitted
<1>3. Len(read) - Cardinality({l.external_id : l \in Elements(read)}) <= appeared
  <2>1. Elements(IdsOf(read)) = {l.external_id : l \in Elements(read)}
    BY <1>2, IdsType
  <2>2. Len(read) <= Cardinality(Elements(IdsOf(read))) + appeared
    BY DEF PagesInv
  <2>3. Cardinality(Elements(IdsOf(read))) \in Nat
    BY <1>2, FS_CardinalityType
  <2>4. Len(read) - Cardinality(Elements(IdsOf(read))) <= appeared
    BY <1>2, <2>2, <2>3
  <2> QED
    BY <2>1, <2>4, Zenon
<1>4. ASSUME stage = "read" PROVE Cardinality({l \in stayed : Listing!Fits(request, l)} \ Elements(read)) <= left
  BY <1>4 DEF PagesInv, Wanted
<1>5. ASSUME stage = "read", listingChanges = 0
      PROVE  /\ Listing!InOrder(read)
             /\ \A l \in Elements(read) : l \in Elements(listings) /\ Listing!Fits(request, l)
  <2>1. Len(read) <= Len(order) /\ \A k \in DOMAIN read : read[k] = order[k]
    BY <1>5 DEF PagesInv
  <2>2. PICK place : Ranked(request, listings, Fitted(request, listings), order, place)
    BY <1>2, SortedPlaces
  <2>3. \A p, q \in DOMAIN order : p < q => ~Listing!Ahead(request, order[q], order[p])
    BY <1>2, SortedInOrder
  <2> HIDE DEF order
  <2>4. /\ Cardinality(Fitted(request, listings)) \in Nat /\ Len(order) = Cardinality(Fitted(request, listings))
        /\ DOMAIN order = 1..Cardinality(Fitted(request, listings))
        /\ \A k \in DOMAIN order : place[k] \in Fitted(request, listings) /\ order[k] = listings[place[k]]
    BY <2>2 DEF Ranked
  <2>5. \A k \in DOMAIN read : k \in DOMAIN order
    BY <1>2, <2>1, <2>4
  <2>6. Listing!InOrder(read)
    BY <2>1, <2>3, <2>5 DEF Listing!InOrder
  <2>7. \A k \in DOMAIN read : read[k] \in Elements(listings) /\ Listing!Fits(request, read[k])
    BY <2>1, <2>4, <2>5 DEF Fitted, Elements
  <2> QED
    BY <2>6, <2>7 DEF Elements
<1>6. pages.page > 0 => (pages.has_next <=> pages.page < pages.pages)
  BY DEF PagesInv
<1>7. /\ \A S : Listing!Cardinality(S) = Cardinality(S)
      /\ \A s : Listing!ToSet(s) = Elements(s)
  BY ListingFacts
<1> QED
  BY <1>3, <1>4, <1>5, <1>6, <1>7, Zenon DEF Listing!PagesOffByChanges

------------------------------------------------------------------------------
(* What is read, and the types, together *)

\* Whatever is inserted, deleted, updated or moved while it is read: an export has as
\* many rows twice, and as many missing of those that stayed, as rows came and went; the
\* counts of the bookmarks' statistics differ by no more than the rows that changed
\* between them; and so for the pages of a search, whose numbers agree with each other.
THEOREM ReadsAreOffByChanges == MCSpec => []ReadsOffByChanges
<1>1. ExportInv /\ BookmarksInv /\ CountsInv /\ PagesInv => ReadsOffByChanges
  BY ExportSound, StatsSound, PagesSound DEF ReadsOffByChanges
<1> QED
  BY <1>1, ExportInvariance, BookmarksInvariance, CountsInvariance, PagesInvariance, PTL

\* Whatever the criteria, the order, the limit and the listings found: the engine's answer
\* is in order and holds no two duplicates, and each listing that matches is in it, or the
\* duplicate of one that is, or of one that comes after the last of a full answer.
THEOREM AnswerIsDistinctAndComplete == MCSpec => []AnswerDistinctAndComplete
<1>1. PagesInv => AnswerDistinctAndComplete
  BY DEF PagesInv, AnswerDistinctAndComplete, Listing!AnswerDistinctAndComplete
<1> QED
  BY <1>1, PagesInvariance, PTL

\* Every variable of the services keeps its type: counts, clocks and places stay in their
\* ranges, and the records in their maps are whole.
THEOREM ServicesAreWellTyped == MCSpec => []ServicesTypeOK
<1>1. TypeOK /\ NotifyInv /\ LocationsInv /\ PipelineInv /\ ResilientInv /\ MonitorInv
      /\ ExportInv /\ AuditInv /\ AsyncInv /\ AlertsInv /\ PoolInv /\ BookmarksInv /\ PagesInv
          => ServicesTypeOK
  BY DEF NotifyInv, LocationsInv, PipelineInv, ResilientInv, MonitorInv, ExportInv, AuditInv,
         AsyncInv, AlertsInv, PoolInv, BookmarksInv, PagesInv, ServicesTypeOK
<1> QED
  BY <1>1, FilterTyped, NotifyInvariance, LocationsInvariance, PipelineInvariance,
     ResilientInvariance, MonitorInvariance, ExportInvariance, AuditInvariance, AsyncInvariance,
     AlertsInvariance, PoolInvariance, BookmarksInvariance, PagesInvariance, PTL
==============================================================================

------------------------- MODULE PropertyStoreProofs -------------------------
(***************************************************************************)
(* Theorems about PropertyStore, for every set of sessions, listings and   *)
(* prices, every list given to a bulk operation and every StaleAfter. The  *)
(* first part proves Inv, the types and what transactions hold; the second *)
(* that the price history is complete for listings that serial upserts     *)
(* alone have changed, by the stronger IInv.                               *)
(***************************************************************************)
EXTENDS PropertyStore, TLAPS, FiniteSetTheorems, SequenceTheorems

Priceless == {"deactivate"} \union Switches

\* Only a deactivation and the switches have requests without a price.
Priced == \A c \in Sessions : op[c].kind \notin Priceless => op[c].todo \in Seq(Listed)

\* A row that one open transaction wrote is written by no other.
RowsHeld ==
    \A c, d \in Sessions : c # d => DOMAIN op[c].writes \intersect DOMAIN op[d].writes = {}

\* What a transaction is about to commit: a deactivation only rows that are still
\* stale, and anything but it and the switching off no active row made inactive.
WritesSound ==
    \A c \in Sessions :
        /\ op[c].started <= now
        /\ \A k \in DOMAIN op[c].writes :
            IF op[c].kind = "deactivate"
            THEN IsStale(table[k], op[c].started)
            ELSE op[c].kind # "switch_off" /\ table[k] # Missing /\ table[k].is_active
                    => op[c].writes[k].is_active

Inv == TypeOK /\ Priced /\ RowsHeld /\ WritesSound

LEMMA NoWritesType == NoWrites \in Writes /\ DOMAIN NoWrites = {}
  BY DEF NoWrites, Writes

LEMMA InitInv == Init => Inv
<1> SUFFICES ASSUME Init PROVE Inv
  OBVIOUS
<1>1. NoWrites \in Writes /\ DOMAIN NoWrites = {}
  BY NoWritesType
<1>2. << >> \in Seq(Request) /\ << >> \in Seq(Listed)
        /\ << >> \in Seq([old : Prices, new : Prices])
  BY EmptySeq
<1>3. Idle \in Transaction
  BY <1>1, <1>2, StoreAssumption DEF Idle, Transaction, Kind, Time
<1>4. TypeOK
  BY <1>2, <1>3, StoreAssumption DEF Init, TypeOK, Time
<1>5. now = 0 /\ \A c \in Sessions : op[c].writes = NoWrites /\ op[c].todo = << >>
                                    /\ op[c].started = 0
  BY DEF Init, Idle
<1>6. Priced /\ RowsHeld
  BY <1>1, <1>2, <1>5 DEF Priced, RowsHeld
<1>7. WritesSound
  BY <1>1, <1>5 DEF WritesSound
<1> QED
  BY <1>4, <1>6, <1>7 DEF Inv

\* Elements of a list with prices are requests.
LEMMA ListedRequest == Listed \subseteq Request /\ Seq(Listed) \subseteq Seq(Request)
<1>1. Listed \subseteq Request
  BY DEF Listed, Request
<1> QED
  BY <1>1, SeqMonotonic

LEMMA TickInv == Inv /\ Tick => Inv'
<1> SUFFICES ASSUME Inv, Tick PROVE Inv'
  OBVIOUS
<1>0. now' \in Time
  BY StoreAssumption DEF Inv, TypeOK, Tick, Time
<1>1. TypeOK'
  BY <1>0 DEF Inv, TypeOK, Tick
<1>2. Priced' /\ RowsHeld'
  BY DEF Inv, Priced, RowsHeld, Tick
<1>3. now' = now + 1 /\ now \in Nat /\ \A c \in Sessions : op[c].started \in Nat
  BY StoreAssumption DEF Inv, TypeOK, Transaction, Tick, Time
<1>4. WritesSound'
  BY <1>3 DEF Inv, WritesSound, Tick, IsStale
<1> QED
  BY <1>1, <1>2, <1>4 DEF Inv

\* A transaction that begins keeps the invariant.
LEMMA BeginInv ==
    ASSUME Inv,
           NEW c \in Sessions, NEW kind \in Kind, NEW read \in Prices \union {None},
           NEW todo \in Seq(Request), kind \notin Priceless => todo \in Seq(Listed),
           Begin(c, kind, read, todo)
    PROVE  Inv'
<1> DEFINE tx == [kind |-> kind, started |-> now, read |-> read,
                  todo |-> todo, writes |-> NoWrites]
<1>1. NoWrites \in Writes /\ DOMAIN NoWrites = {}
  BY NoWritesType
<1>2. tx \in Transaction
  BY <1>1 DEF Inv, TypeOK, Transaction
<1>3. op' = [op EXCEPT ![c] = tx]
  BY DEF Begin
<1>4. tx.kind = kind /\ tx.started = now /\ tx.todo = todo /\ tx.writes = NoWrites
  OBVIOUS
<1> HIDE DEF tx
<1>5. op'[c] = tx /\ \A d \in Sessions : d # c => op'[d] = op[d]
  BY <1>3 DEF Inv, TypeOK
<1>0. begun' \in 0..MaxTransactions
  BY StoreAssumption DEF Inv, TypeOK, Begin
<1>6. TypeOK'
  BY <1>0, <1>2, <1>3 DEF Inv, TypeOK, Begin
<1>7. Priced'
  BY <1>4, <1>5 DEF Inv, Priced
<1>8. RowsHeld'
  BY <1>1, <1>4, <1>5 DEF Inv, RowsHeld
<1>9. now' = now /\ table' = table /\ now \in Nat
  BY StoreAssumption DEF Inv, TypeOK, Begin, Time
<1>10. WritesSound'
  BY <1>1, <1>4, <1>5, <1>9 DEF Inv, WritesSound
<1> QED
  BY <1>6, <1>7, <1>8, <1>10 DEF Inv

\* A session whose transaction changes, and nothing else does.
LEMMA Replaced ==
    ASSUME TypeOK, NEW c \in Sessions, NEW tx \in Transaction,
           op' = [op EXCEPT ![c] = tx],
           UNCHANGED <<table, history, now, begun, tainted>>
    PROVE  /\ TypeOK'
           /\ op'[c] = tx
           /\ \A d \in Sessions : d # c => op'[d] = op[d]
  BY DEF TypeOK

\* The fields of a transaction.
LEMMA Fields ==
    ASSUME TypeOK, NEW c \in Sessions
    PROVE  /\ op[c] \in Transaction
           /\ op[c].started \in Time /\ op[c].kind \in Kind
           /\ op[c].todo \in Seq(Request) /\ op[c].writes \in Writes
  BY DEF TypeOK, Transaction

\* The request a transaction is at, and those that are left after it.
LEMMA NextRequest ==
    ASSUME Inv, NEW c \in Sessions, op[c].todo # << >>
    PROVE  /\ Head(op[c].todo) \in Request /\ Tail(op[c].todo) \in Seq(Request)
           /\ op[c].kind \notin Priceless => /\ Head(op[c].todo) \in Listed
                                             /\ Tail(op[c].todo) \in Seq(Listed)
<1>1. op[c].todo \in Seq(Request)
  BY Fields DEF Inv
<1>2. op[c].kind \notin Priceless => op[c].todo \in Seq(Listed)
  BY DEF Inv, Priced
<1> QED
  BY <1>1, <1>2, HeadTailProperties

\* The row that is written is a row, and active if it replaces an active one unless
\* the transaction deactivates or switches off.
LEMMA WrittenRow ==
    ASSUME Inv, NEW c \in Sessions, op[c].todo # << >>,
           ~PassesOver(op[c], Head(op[c].todo).key), NEW stamp \in Time
    PROVE  LET k   == Head(op[c].todo).key
               row == Written(op[c], k, Head(op[c].todo).price, stamp)
           IN  /\ row \in Row
               /\ op[c].kind \notin {"deactivate", "switch_off"} /\ table[k] # Missing
                       /\ table[k].is_active
                    => row.is_active
<1> DEFINE k == Head(op[c].todo).key
           price == Head(op[c].todo).price
           row == Written(op[c], k, price, stamp)
<1>1. k \in Listings /\ (op[c].kind \notin Priceless => price \in Prices)
  BY NextRequest DEF Request, Listed
<1>2. op[c].started \in Time
  BY Fields DEF Inv
<1>3. op[c].kind = "deactivate" => IsStale(table[k], op[c].started)
  BY DEF PassesOver
<1>4. table[k] \in Row \union {Missing}
  BY <1>1 DEF Inv, TypeOK
<1> HIDE DEF k, price
<1>5. CASE table[k] = Missing
  <2>1. op[c].kind \notin Priceless
    BY <1>3, <1>5 DEF IsStale, PassesOver, Priceless, k
  <2> DEFINE seen == IF op[c].kind = "merge" THEN stamp ELSE op[c].started
  <2>2. row = [price |-> price, last_seen |-> seen, is_active |-> TRUE]
    BY <1>5 DEF Written
  <2>3. seen \in Time
    BY <1>2
  <2> HIDE DEF seen
  <2>4. row \in Row
    BY <1>1, <2>1, <2>2, <2>3 DEF Row
  <2> QED
    BY <1>5, <2>4 DEF k, price
<1>6. CASE table[k] # Missing /\ op[c].kind \in Priceless
  <2> DEFINE active == SwitchedTo(op[c].kind, table[k].is_active)
  <2>1. row = [table[k] EXCEPT !.is_active = active, !.last_seen = op[c].started]
    BY <1>6 DEF Written, Priceless
  <2>2. active \in BOOLEAN
    BY <1>4, <1>6 DEF SwitchedTo, Row
  <2> HIDE DEF active
  <2>3. row \in Row /\ row.is_active = active
    BY <1>2, <1>4, <1>6, <2>1, <2>2 DEF Row
  <2> QED
    BY <1>6, <2>3 DEF k, price, active, SwitchedTo, Priceless, Switches
<1>7. CASE table[k] # Missing /\ op[c].kind \notin Priceless
  <2>1. \/ row = [table[k] EXCEPT !.price = price, !.last_seen = stamp]
        \/ row = [table[k] EXCEPT !.price = price]
    BY <1>7 DEF Written, Priceless
  <2>2. row \in Row /\ row.is_active = table[k].is_active
    BY <1>1, <1>4, <1>7, <2>1 DEF Row
  <2> QED
    BY <2>2 DEF k, price
<1> QED
  BY <1>5, <1>6, <1>7

LEMMA WriteRowInv == ASSUME Inv, NEW c \in Sessions, WriteRow(c) PROVE Inv'
<1> DEFINE tx == op[c]
           k == Head(tx.todo).key
           price == Head(tx.todo).price
<1>1. tx.todo # << >> /\ ~PassesOver(tx, k) /\ \A d \in Sessions : ~WaitsFor(c, d)
  BY DEF WriteRow, HasRow
<1>2. tx \in Transaction /\ tx.started \in Time /\ tx.writes \in Writes
  BY Fields DEF Inv
<1>3. k \in Listings /\ Tail(tx.todo) \in Seq(Request)
        /\ (tx.kind \notin Priceless => Tail(tx.todo) \in Seq(Listed))
  BY <1>1, NextRequest DEF Request
<1>4. now \in Time
  BY DEF Inv, TypeOK
<1> DEFINE w(stamp) == [j \in DOMAIN tx.writes \union {k} |->
                           IF j = k THEN Written(tx, k, price, stamp) ELSE tx.writes[j]]
           t2(stamp) == [tx EXCEPT !.todo = Tail(tx.todo), !.writes = w(stamp)]
<1>5. PICK stamp \in Time : op' = [op EXCEPT ![c] = t2(stamp)]
  <2>1. PICK stamp \in IF tx.kind \in {"upsert", "merge"} THEN tx.started..now ELSE {tx.started} :
            op' = [op EXCEPT ![c] = t2(stamp)]
    BY DEF WriteRow
  <2>2. stamp \in Time
    BY <1>2, <1>4, <2>1, StoreAssumption DEF Time
  <2> QED
    BY <2>1, <2>2
<1> DEFINE row == Written(tx, k, price, stamp)
           ws  == w(stamp)
           new == [tx EXCEPT !.todo = Tail(tx.todo), !.writes = ws]
<1>6. row \in Row /\ (tx.kind \notin {"deactivate", "switch_off"} /\ table[k] # Missing
                         /\ table[k].is_active => row.is_active)
  BY <1>1, <1>5, WrittenRow
<1>7. ws \in Writes /\ DOMAIN ws = DOMAIN tx.writes \union {k}
        /\ ws[k] = row /\ \A j \in DOMAIN tx.writes : j # k => ws[j] = tx.writes[j]
  <2>1. DOMAIN tx.writes \in SUBSET Listings /\ \A j \in DOMAIN tx.writes : tx.writes[j] \in Row
    BY <1>2 DEF Writes
  <2> HIDE DEF tx, k, row, price
  <2>2. ws \in [DOMAIN tx.writes \union {k} -> Row]
    BY <1>6, <2>1 DEF row
  <2>3. DOMAIN tx.writes \union {k} \in SUBSET Listings
    BY <1>3, <2>1
  <2> QED
    BY <2>2, <2>3 DEF Writes, row
<1>8. new \in Transaction /\ new.todo = Tail(tx.todo) /\ new.writes = ws
        /\ new.kind = tx.kind /\ new.started = tx.started
  <2> DEFINE t1 == [tx EXCEPT !.todo = Tail(tx.todo)]
             n2 == [t1 EXCEPT !.writes = ws]
  <2> HIDE DEF tx, ws
  <2>1. t1 \in Transaction /\ t1.todo = Tail(tx.todo)
          /\ t1.kind = tx.kind /\ t1.started = tx.started
    BY <1>2, <1>3 DEF Transaction
  <2>2. new = n2
    BY <1>2 DEF Transaction
  <2> HIDE DEF t1, new
  <2>3. n2 \in Transaction /\ n2.todo = t1.todo /\ n2.writes = ws
          /\ n2.kind = t1.kind /\ n2.started = t1.started
    BY <1>7, <2>1 DEF Transaction
  <2> HIDE DEF n2
  <2> QED
    BY <2>1, <2>2, <2>3
<1>9. op' = [op EXCEPT ![c] = new] /\ UNCHANGED <<table, history, now, begun, tainted>>
  BY <1>5 DEF WriteRow
<1> HIDE DEF new, ws, w, t2, row
<1>10. TypeOK' /\ op'[c] = new /\ \A d \in Sessions : d # c => op'[d] = op[d]
  BY <1>8, <1>9, Replaced DEF Inv
<1>11. Priced'
  BY <1>3, <1>8, <1>10 DEF Inv, Priced
<1>12. \A d \in Sessions : d # c => k \notin DOMAIN op[d].writes
  BY <1>1 DEF WaitsFor, PassesOver
<1>13. RowsHeld'
  BY <1>7, <1>8, <1>10, <1>12 DEF Inv, RowsHeld
<1>14. tx.kind = "deactivate" => IsStale(table[k], tx.started)
  BY <1>1 DEF PassesOver
<1>15. WritesSound'
  <2> SUFFICES ASSUME NEW d \in Sessions
               PROVE  /\ op'[d].started <= now
                      /\ \A j \in DOMAIN op'[d].writes :
                           IF op'[d].kind = "deactivate"
                           THEN IsStale(table[j], op'[d].started)
                           ELSE op'[d].kind # "switch_off" /\ table[j] # Missing
                                  /\ table[j].is_active => op'[d].writes[j].is_active
    BY <1>9 DEF WritesSound, IsStale
  <2>1. CASE d # c
    BY <1>10, <2>1 DEF Inv, WritesSound
  <2>2. CASE d = c
    <3>1. tx.started <= now /\ \A j \in DOMAIN tx.writes :
             IF tx.kind = "deactivate" THEN IsStale(table[j], tx.started)
             ELSE tx.kind # "switch_off" /\ table[j] # Missing /\ table[j].is_active
                    => tx.writes[j].is_active
      BY DEF Inv, WritesSound
    <3> HIDE DEF tx, k
    <3> QED
      BY <1>6, <1>7, <1>8, <1>10, <1>14, <2>2, <3>1
  <2> QED
    BY <2>1, <2>2
<1> QED
  BY <1>10, <1>11, <1>13, <1>15 DEF Inv

LEMMA PassOverInv == ASSUME Inv, NEW c \in Sessions, PassOver(c) PROVE Inv'
<1> DEFINE tx == op[c]
           new == [tx EXCEPT !.todo = Tail(tx.todo)]
<1>1. tx.todo # << >>
  BY DEF PassOver, HasRow
<1>2. tx \in Transaction
  BY Fields DEF Inv
<1>3. Tail(tx.todo) \in Seq(Request)
        /\ (tx.kind \notin Priceless => Tail(tx.todo) \in Seq(Listed))
  BY <1>1, NextRequest
<1>4. op' = [op EXCEPT ![c] = new] /\ UNCHANGED <<table, history, now, begun, tainted>>
  BY DEF PassOver
<1>5. new \in Transaction /\ new.todo = Tail(tx.todo) /\ new.writes = tx.writes
        /\ new.kind = tx.kind /\ new.started = tx.started
  <2> HIDE DEF tx
  <2> QED
    BY <1>2, <1>3 DEF Transaction
<1> HIDE DEF new
<1>6. TypeOK' /\ op'[c] = new /\ \A d \in Sessions : d # c => op'[d] = op[d]
  BY <1>4, <1>5, Replaced DEF Inv
<1>7. Priced'
  BY <1>3, <1>5, <1>6 DEF Inv, Priced
<1>8. \A d \in Sessions : op'[d].writes = op[d].writes /\ op'[d].kind = op[d].kind
                          /\ op'[d].started = op[d].started
  BY <1>5, <1>6
<1>9. RowsHeld' /\ WritesSound'
  BY <1>4, <1>8 DEF Inv, RowsHeld, WritesSound, IsStale
<1> QED
  BY <1>6, <1>7, <1>9 DEF Inv

\* A transaction that ends without a trace keeps the invariant.
LEMMA AbortInv == ASSUME Inv, NEW c \in Sessions, Abort(c) PROVE Inv'
<1>1. NoWrites \in Writes /\ DOMAIN NoWrites = {} /\ << >> \in Seq(Request) /\ << >> \in Seq(Listed)
  BY NoWritesType, EmptySeq
<1>2. Idle \in Transaction
  BY <1>1, StoreAssumption DEF Idle, Transaction, Kind, Time
<1>3. Idle.started = 0 /\ Idle.todo = << >> /\ Idle.writes = NoWrites
  BY DEF Idle
<1>4. TypeOK' /\ op'[c] = Idle /\ \A d \in Sessions : d # c => op'[d] = op[d]
  BY <1>2, Replaced DEF Inv, Abort
<1>5. Priced'
  BY <1>1, <1>3, <1>4 DEF Inv, Priced
<1>6. RowsHeld'
  BY <1>1, <1>3, <1>4 DEF Inv, RowsHeld
<1>7. table' = table /\ now' = now /\ now \in Nat
  BY StoreAssumption DEF Abort, Inv, TypeOK, Time
<1>8. WritesSound'
  BY <1>1, <1>3, <1>4, <1>7 DEF Inv, WritesSound
<1> QED
  BY <1>4, <1>5, <1>6, <1>8 DEF Inv

\* What is tracked of a transaction is a list of price changes.
LEMMA ChangesType ==
    ASSUME TypeOK, NEW c \in Sessions, NEW k \in DOMAIN op[c].writes
    PROVE  Changes(op[c], k) \in Seq([old : Prices, new : Prices])
<1>1. op[c].writes[k] \in Row /\ op[c].read \in Prices \union {None}
  BY DEF TypeOK, Transaction, Writes
<1>2. op[c].read # None => [old |-> op[c].read, new |-> op[c].writes[k].price]
                              \in [old : Prices, new : Prices]
  BY <1>1 DEF Row
<1> DEFINE change == [old |-> op[c].read, new |-> op[c].writes[k].price]
<1> HIDE DEF change
<1>3. op[c].read # None => <<change>> \in Seq([old : Prices, new : Prices])
  BY <1>2 DEF change
<1>4. << >> \in Seq([old : Prices, new : Prices])
  BY EmptySeq
<1> QED
  BY <1>3, <1>4 DEF Changes, change

LEMMA CommitInv == ASSUME Inv, NEW c \in Sessions, Commit(c) PROVE Inv'
<1> DEFINE Change == [old : Prices, new : Prices]
           written == DOMAIN op[c].writes
<1>1. written \in SUBSET Listings /\ \A k \in written : op[c].writes[k] \in Row
  BY Fields DEF Inv, Writes
<1>2. table' \in [Listings -> Row \union {Missing}]
  BY <1>1 DEF Commit, Inv, TypeOK
<1>3. \A k \in Listings : k \notin written => table'[k] = table[k]
  BY DEF Commit
<1>4. \A k \in written : history[k] \o Changes(op[c], k) \in Seq(Change)
  <2> SUFFICES ASSUME NEW k \in written PROVE history[k] \o Changes(op[c], k) \in Seq(Change)
    OBVIOUS
  <2>1. history[k] \in Seq(Change) /\ Changes(op[c], k) \in Seq(Change)
    BY <1>1, ChangesType DEF Inv, TypeOK
  <2> QED
    BY <2>1, ConcatProperties
<1>5. history' \in [Listings -> Seq(Change)]
  BY <1>4 DEF Commit, Inv, TypeOK
<1>6. tainted' \in SUBSET Listings
  BY <1>1 DEF Commit, Inv, TypeOK
<1>7. NoWrites \in Writes /\ DOMAIN NoWrites = {} /\ << >> \in Seq(Request) /\ << >> \in Seq(Listed)
  BY NoWritesType, EmptySeq
<1>8. Idle \in Transaction
  BY <1>7, StoreAssumption DEF Idle, Transaction, Kind, Time
<1>9. op' \in [Sessions -> Transaction] /\ op'[c] = Idle
        /\ \A d \in Sessions : d # c => op'[d] = op[d]
  BY <1>8 DEF Commit, Inv, TypeOK
<1>10. TypeOK'
  BY <1>2, <1>5, <1>6, <1>9 DEF TypeOK, Commit, Inv
<1>11. Idle.started = 0 /\ Idle.todo = << >> /\ Idle.writes = NoWrites
  BY DEF Idle
<1>12. Priced'
  BY <1>7, <1>9, <1>11 DEF Inv, Priced
<1>13. RowsHeld'
  BY <1>7, <1>9, <1>11 DEF Inv, RowsHeld
<1>14. now' = now /\ now \in Nat
  BY StoreAssumption DEF Commit, Inv, TypeOK, Time
<1>15. WritesSound'
  <2> SUFFICES ASSUME NEW d \in Sessions
               PROVE  /\ op'[d].started <= now
                      /\ \A j \in DOMAIN op'[d].writes :
                           IF op'[d].kind = "deactivate"
                           THEN IsStale(table'[j], op'[d].started)
                           ELSE op'[d].kind # "switch_off" /\ table'[j] # Missing
                                  /\ table'[j].is_active => op'[d].writes[j].is_active
    BY <1>14 DEF WritesSound, IsStale
  <2>1. CASE d = c
    BY <1>7, <1>9, <1>11, <1>14, <2>1
  <2>2. CASE d # c
    <3>1. \A j \in DOMAIN op[d].writes : j \in Listings /\ j \notin written
      BY <2>2, Fields DEF Inv, RowsHeld, Writes
    <3>2. \A j \in DOMAIN op[d].writes : table'[j] = table[j]
      BY <1>3, <3>1
    <3> QED
      BY <1>9, <2>2, <3>2 DEF Inv, WritesSound
  <2> QED
    BY <2>1, <2>2
<1> QED
  BY <1>10, <1>12, <1>13, <1>15 DEF Inv

\* The transactions that begin with one listing and its price.
LEMMA BeginOneInv ==
    ASSUME Inv, NEW c \in Sessions, NEW k \in Listings, NEW price \in Prices,
           UpdateOrCreate(c, k, price) \/ CreateProperty(c, k, price) \/ UpdateProperty(c, k, price)
    PROVE  Inv'
<1> DEFINE todo == <<[key |-> k, price |-> price]>>
           read == IF table[k] = Missing THEN None ELSE table[k].price
<1>1. [key |-> k, price |-> price] \in Listed
  BY DEF Listed
<1>2. todo \in Seq(Listed)
  BY <1>1
<1>3. todo \in Seq(Request)
  BY <1>2, ListedRequest
<1>4. read \in Prices \union {None}
  BY DEF Inv, TypeOK, Row
<1> HIDE DEF todo, read
<1>5. \/ Begin(c, "upsert", read, todo) \/ Begin(c, "create", None, todo)
      \/ Begin(c, "edit", None, todo)
  BY DEF UpdateOrCreate, CreateProperty, UpdateProperty, todo, read
<1>6. None \in Prices \union {None} /\ {"upsert", "create", "edit"} \subseteq Kind
  BY DEF Kind
<1> QED
  BY <1>2, <1>3, <1>4, <1>5, <1>6, BeginInv

LEMMA BeginBatchInv ==
    ASSUME Inv, NEW c \in Sessions, NEW batch \in Batches,
           BulkUpsert(c, batch) \/ BulkCreate(c, batch) \/ BatchInsert(c, batch)
    PROVE  Inv'
<1>1. batch \in Seq(Listed) /\ batch \in Seq(Request)
  BY StoreAssumption, ListedRequest
<1>2. None \in Prices \union {None} /\ {"bulk", "bulk_create", "merge"} \subseteq Kind
  BY DEF Kind
<1> QED
  BY <1>1, <1>2, BeginInv DEF BulkUpsert, BulkCreate, BatchInsert

\* The transactions that begin with a list of ids.
LEMMA ByIdsInv ==
    ASSUME Inv, NEW c \in Sessions, NEW ids \in IdLists, NEW price \in Prices \union {None},
           NEW kind \in Kind, kind \in Priceless \/ price \in Prices,
           Begin(c, kind, None, ByIds(ids, price))
    PROVE  Inv'
<1> DEFINE todo == ByIds(ids, price)
<1>1. ids \in Seq(Listings)
  BY StoreAssumption
<1>2. Len(ids) \in Nat /\ ids \in [1..Len(ids) -> Listings]
  BY <1>1, LenProperties
<1>3. todo \in [1..Len(ids) -> Request]
  BY <1>2 DEF ByIds, Request
<1>4. price \in Prices => todo \in [1..Len(ids) -> Listed]
  BY <1>2 DEF ByIds, Listed
<1>5. todo \in Seq(Request) /\ (price \in Prices => todo \in Seq(Listed))
  BY <1>2, <1>3, <1>4, SeqDef
<1>6. kind \notin Priceless => todo \in Seq(Listed)
  BY <1>5
<1>7. None \in Prices \union {None}
  OBVIOUS
<1>8. Begin(c, kind, None, todo)
  OBVIOUS
<1> HIDE DEF todo
<1> QED
  BY <1>5, <1>6, <1>7, <1>8, BeginInv

LEMMA DeactivateOldInv == ASSUME Inv, NEW c \in Sessions, DeactivateOld(c) PROVE Inv'
<1> DEFINE S == {k \in Listings : IsStale(table[k], now)}
           N == Cardinality(S)
<1>1. N \in Nat
  BY StoreAssumption, FS_Subset, FS_CardinalityType
<1>2. PICK order \in SetToSeqs(S) :
          Begin(c, "deactivate", None, [i \in DOMAIN order |-> [key |-> order[i], price |-> None]])
  BY DEF DeactivateOld
<1>3. order \in [1..N -> S]
  BY <1>2 DEF SetToSeqs
<1> DEFINE todo == [i \in DOMAIN order |-> [key |-> order[i], price |-> None]]
<1>4. todo \in [1..N -> Request]
  BY <1>3 DEF Request
<1>5. todo \in Seq(Request)
  BY <1>1, <1>4, SeqDef, ZenonT(30)
<1>6. None \in Prices \union {None} /\ "deactivate" \in Kind /\ "deactivate" \in Priceless
  BY DEF Kind, Priceless
<1> HIDE DEF todo
<1>7. Begin(c, "deactivate", None, todo)
  BY <1>2 DEF todo
<1> QED
  BY <1>5, <1>6, <1>7, BeginInv

LEMMA StepInv == Inv /\ [Next]_vars => Inv'
<1> SUFFICES ASSUME Inv, [Next]_vars PROVE Inv'
  OBVIOUS
<1>1. CASE Tick
  BY <1>1, TickInv
<1>2. ASSUME NEW c \in Sessions, NEW k \in Listings, NEW price \in Prices,
             UpdateOrCreate(c, k, price) \/ CreateProperty(c, k, price)
             \/ UpdateProperty(c, k, price)
      PROVE  Inv'
  BY <1>2, BeginOneInv
<1>3. ASSUME NEW c \in Sessions, NEW batch \in Batches,
             BulkUpsert(c, batch) \/ BulkCreate(c, batch) \/ BatchInsert(c, batch)
      PROVE  Inv'
  BY <1>3, BeginBatchInv
<1>4. ASSUME NEW c \in Sessions, DeactivateOld(c) PROVE Inv'
  BY <1>4, DeactivateOldInv
<1>5. ASSUME NEW c \in Sessions, WriteRow(c) PROVE Inv'
  BY <1>5, WriteRowInv
<1>6. ASSUME NEW c \in Sessions, PassOver(c) PROVE Inv'
  BY <1>6, PassOverInv
<1>7. ASSUME NEW c \in Sessions, Refuse(c) \/ BreakDeadlock(c) \/ Rollback(c) PROVE Inv'
  BY <1>7, AbortInv DEF Refuse, BreakDeadlock, Rollback
<1>8. ASSUME NEW c \in Sessions, Commit(c) PROVE Inv'
  BY <1>8, CommitInv
<1>9. CASE UNCHANGED vars
  BY <1>9 DEF vars, Inv, TypeOK, Priced, RowsHeld, WritesSound, IsStale
<1>10. ASSUME NEW c \in Sessions, NEW ids \in IdLists, NEW price \in Prices,
              BulkUpdate(c, ids, price)
       PROVE  Inv'
  <2>1. "edit" \in Kind
    BY DEF Kind
  <2> QED
    BY <1>10, <2>1, ByIdsInv DEF BulkUpdate
<1>11. ASSUME NEW c \in Sessions, NEW ids \in IdLists, NEW kind \in Switches,
              BulkSwitch(c, kind, ids)
       PROVE  Inv'
  <2>1. kind \in Kind /\ kind \in Priceless /\ None \in Prices \union {None}
    BY DEF Kind, Priceless
  <2> QED
    BY <1>11, <2>1, ByIdsInv DEF BulkSwitch
<1> QED
  BY <1>1, <1>2, <1>3, <1>4, <1>5, <1>6, <1>7, <1>8, <1>9, <1>10, <1>11 DEF Next, Progress

LEMMA Invariance == Spec => []Inv
  BY InitInv, StepInv, PTL DEF Spec

\* Every row, change and transaction is of its type, whatever order the steps of
\* the sessions come in.
THEOREM TypeCorrect == Spec => []TypeOK
<1>1. Inv => TypeOK
  BY DEF Inv
<1> QED
  BY <1>1, Invariance, PTL

\* Row locks: no two open transactions wrote the same listing.
THEOREM RowsHeldByOne == Spec => []RowsHeld
<1>1. Inv => RowsHeld
  BY DEF Inv
<1> QED
  BY <1>1, Invariance, PTL

\* A step that makes an active row inactive is the commit of a switching off, or of a
\* deactivation, which still finds the row stale.
LEMMA DeactivatingStep ==
    ASSUME Inv, [Next]_vars, NEW k \in Listings,
           table[k] # Missing, table[k].is_active, ~table'[k].is_active
    PROVE  table[k].last_seen < now - StaleAfter \/ SwitchedOff(k)
<1>1. table'[k] # table[k]
  OBVIOUS
<1>2. PICK c \in Sessions : Commit(c)
  BY <1>1, ZenonT(30) DEF Next, vars, Tick, UpdateOrCreate, CreateProperty, UpdateProperty, BulkUpsert,
     BulkCreate, BatchInsert, BulkUpdate, BulkSwitch, DeactivateOld, Begin, Progress, WriteRow,
     PassOver, Refuse, BreakDeadlock, Rollback, Abort
<1>3. k \in DOMAIN op[c].writes /\ table'[k] = op[c].writes[k]
  BY <1>1, <1>2 DEF Commit
<1>4. op[c].kind = "deactivate" => IsStale(table[k], op[c].started)
  BY <1>3 DEF Inv, WritesSound
<1>5. op[c].kind # "deactivate" => op[c].kind = "switch_off"
  BY <1>3 DEF Inv, WritesSound
<1>6. CASE op[c].kind = "switch_off"
  <2>1. op'[c] = Idle
    BY <1>2 DEF Commit, Inv, TypeOK
  <2> QED
    BY <1>3, <1>6, <2>1 DEF SwitchedOff
<1>7. CASE op[c].kind = "deactivate"
  <2>1. table[k].last_seen < op[c].started - StaleAfter
    BY <1>4, <1>7 DEF IsStale
  <2>2. op[c].started <= now
    BY DEF Inv, WritesSound
  <2>3. table[k].last_seen \in Int /\ op[c].started \in Int /\ now \in Int /\ StaleAfter \in Int
    <3>1. table[k] \in Row
      BY DEF Inv, TypeOK
    <3>2. op[c].started \in Time
      BY Fields DEF Inv
    <3> QED
      BY <3>1, <3>2, StoreAssumption DEF Inv, TypeOK, Row, Time
  <2> QED
    BY <2>1, <2>2, <2>3
<1> QED
  BY <1>5, <1>6, <1>7

\* deactivate_old_properties never switches off a listing seen in the last
\* StaleAfter hours, even if its UPDATE waited for the one that saw it.
THEOREM DeactivationsSafe == Spec => DeactivatesOnlyUnseen
<1> DEFINE Unseen == \A k \in Listings :
               table[k] # Missing /\ table[k].is_active /\ ~table'[k].is_active
               => table[k].last_seen < now - StaleAfter \/ SwitchedOff(k)
<1>1. Inv /\ [Next]_vars => [Unseen]_vars
  BY DeactivatingStep
<1>2. Spec => [][Unseen]_vars
  <2> HIDE DEF Unseen
  <2> QED
    BY <1>1, Invariance, PTL DEF Spec
<1> QED
  BY <1>2 DEF DeactivatesOnlyUnseen

------------------------------------------------------------------------------

Change == [old : Prices, new : Prices]

PriceOf(k) == IF table[k] = Missing THEN None ELSE table[k].price

\* The listings a transaction has written or is going to.
Targets(c) == DOMAIN op[c].writes \union {op[c].todo[i].key : i \in DOMAIN op[c].todo}

\* Changes that each start from the price the one before it led to, up to price.
Chain(h, price) ==
    /\ \A i \in 1..Len(h) : h[i].old # h[i].new
    /\ \A i \in 2..Len(h) : h[i].old = h[i - 1].new
    /\ h # << >> => h[Len(h)].new = price

Chained == \A k \in Listings \ tainted : Chain(history[k], PriceOf(k))

\* An open upsert has read the price its listing still has, until something taints it.
ReadsCurrent ==
    \A c \in Sessions, k \in Listings \ tainted :
        op[c].kind = "upsert" /\ k \in Targets(c) => op[c].read = PriceOf(k)

IInv == Inv /\ ReadsCurrent /\ Chained

\* The typed fields of a row in the table.
LEMMA PriceTypes ==
    ASSUME TypeOK, NEW k \in Listings
    PROVE  /\ table[k] # Missing => PriceOf(k) \in Prices
           /\ table[k] = Missing <=> PriceOf(k) = None
           /\ history[k] \in Seq(Change)
<1>1. table[k] \in Row \union {Missing} /\ history[k] \in Seq(Change)
  BY DEF TypeOK, Change
<1>2. table[k] # Missing => table[k].price \in Prices
  BY <1>1 DEF Row
<1> QED
  BY <1>1, <1>2, StoreAssumption DEF PriceOf, Missing

\* A chain whose last price is a price of the table says what the property says.
LEMMA ChainedIsComplete == TypeOK /\ Chained => HistoryCompleteUnlessOverlapped
<1> SUFFICES ASSUME TypeOK, Chained, NEW k \in Listings \ tainted
             PROVE  LET h == history[k] IN
                    /\ \A i \in 1..Len(h) : h[i].old # h[i].new
                    /\ \A i \in 2..Len(h) : h[i].old = h[i - 1].new
                    /\ h # << >> => table[k] # Missing /\ table[k].price = Last(h).new
  BY DEF HistoryCompleteUnlessOverlapped
<1> DEFINE h == history[k]
<1>1. Chain(h, PriceOf(k))
  BY DEF Chained
<1>2. h # << >> => table[k] # Missing /\ table[k].price = Last(h).new
  <2> SUFFICES ASSUME h # << >> PROVE table[k] # Missing /\ table[k].price = Last(h).new
    OBVIOUS
  <2>1. h \in Seq(Change)
    BY PriceTypes
  <2>2. Len(h) \in DOMAIN h /\ h[Len(h)] \in Change
    BY <2>1, LenProperties, ElementOfSeq, EmptySeq
  <2>3. h[Len(h)].new = PriceOf(k) /\ h[Len(h)].new \in Prices
    BY <1>1, <2>2 DEF Chain, Change
  <2>4. table[k] # Missing
    BY <2>3, PriceTypes, StoreAssumption
  <2> QED
    BY <2>3, <2>4 DEF PriceOf, Last
<1> QED
  BY <1>1, <1>2 DEF Chain

LEMMA InitIInv == Init => IInv
<1> SUFFICES ASSUME Init PROVE IInv
  OBVIOUS
<1>1. ReadsCurrent
  BY DEF Init, Idle, ReadsCurrent
<1>2. \A k \in Listings : history[k] = << >>
  BY DEF Init
<1>3. Chained
  BY <1>2 DEF Chained, Chain
<1> QED
  BY <1>1, <1>3, InitInv DEF IInv

\* A step that commits nothing keeps what the open upserts have read, if none of them
\* takes another listing and a new one has read the price there is.
LEMMA ReadsKept ==
    ASSUME IInv, UNCHANGED <<table, history, tainted>>,
           \A c \in Sessions : op'[c].kind = "upsert" =>
               \/ /\ op[c].kind = "upsert" /\ op'[c].read = op[c].read
                  /\ Targets(c)' \subseteq Targets(c)
               \/ \A k \in Targets(c)' : op'[c].read = PriceOf(k)
    PROVE  ReadsCurrent' /\ Chained'
<1>1. \A k \in Listings : PriceOf(k)' = PriceOf(k)
  BY DEF PriceOf
<1>2. Chained'
  BY <1>1 DEF IInv, Chained
<1>3. ReadsCurrent'
  BY <1>1 DEF IInv, ReadsCurrent
<1> QED
  BY <1>2, <1>3

LEMMA BeginReads ==
    ASSUME IInv, NEW c \in Sessions, NEW kind, NEW read, NEW todo,
           Begin(c, kind, read, todo),
           kind = "upsert" => \A i \in DOMAIN todo : read = PriceOf(todo[i].key)
    PROVE  ReadsCurrent' /\ Chained'
<1> DEFINE tx == [kind |-> kind, started |-> now, read |-> read, todo |-> todo, writes |-> NoWrites]
<1>1. op' = [op EXCEPT ![c] = tx] /\ UNCHANGED <<table, history, tainted>>
  BY DEF Begin
<1>2. op'[c] = tx /\ \A d \in Sessions : d # c => op'[d] = op[d]
  BY <1>1 DEF IInv, Inv, TypeOK
<1>3. tx.kind = kind /\ tx.read = read /\ tx.todo = todo /\ tx.writes = NoWrites
  OBVIOUS
<1> HIDE DEF tx
<1>4. Targets(c)' = {todo[i].key : i \in DOMAIN todo}
  BY <1>2, <1>3, NoWritesType DEF Targets
<1>5. op'[c].kind = "upsert" => \A k \in Targets(c)' : op'[c].read = PriceOf(k)
  BY <1>2, <1>3, <1>4
<1>6. \A d \in Sessions : d # c => Targets(d)' = Targets(d) /\ op'[d] = op[d]
  BY <1>2 DEF Targets
<1> QED
  BY <1>1, <1>5, <1>6, ReadsKept

\* A transaction that goes on with its next listing.
LEMMA AdvanceReads ==
    ASSUME IInv, NEW c \in Sessions, WriteRow(c) \/ PassOver(c)
    PROVE  ReadsCurrent' /\ Chained'
<1> DEFINE tx == op[c]
           k == Head(tx.todo).key
<1>1. tx.todo # << >> /\ tx.todo \in Seq(Request) /\ tx \in Transaction
  BY Fields DEF WriteRow, PassOver, HasRow, IInv, Inv
<1>2. UNCHANGED <<table, history, tainted>>
  BY DEF WriteRow, PassOver
<1>3. \E new : /\ op' = [op EXCEPT ![c] = new]
               /\ new.kind = tx.kind /\ new.read = tx.read /\ new.todo = Tail(tx.todo)
               /\ DOMAIN new.writes \subseteq DOMAIN tx.writes \union {k}
  <2>1. CASE PassOver(c)
    <3> DEFINE new == [tx EXCEPT !.todo = Tail(@)]
    <3>1. op' = [op EXCEPT ![c] = new]
      BY <2>1 DEF PassOver
    <3>2. new.kind = tx.kind /\ new.read = tx.read /\ new.todo = Tail(tx.todo) /\ new.writes = tx.writes
      BY <1>1 DEF Transaction
    <3> QED
      BY <3>1, <3>2
  <2>2. CASE WriteRow(c)
    <3> DEFINE w(stamp) == [j \in DOMAIN tx.writes \union {k} |->
                               IF j = k THEN Written(tx, k, Head(tx.todo).price, stamp) ELSE tx.writes[j]]
               new(stamp) == [tx EXCEPT !.todo = Tail(@), !.writes = w(stamp)]
    <3>1. PICK stamp : op' = [op EXCEPT ![c] = new(stamp)]
      BY <2>2 DEF WriteRow
    <3>2. DOMAIN w(stamp) = DOMAIN tx.writes \union {k}
      OBVIOUS
    <3> HIDE DEF w
    <3>3. /\ new(stamp).kind = tx.kind /\ new(stamp).read = tx.read
          /\ new(stamp).todo = Tail(tx.todo) /\ new(stamp).writes = w(stamp)
      BY <1>1 DEF Transaction
    <3> QED
      BY <3>1, <3>2, <3>3
  <2> QED
    BY <2>1, <2>2
<1>4. PICK new : /\ op' = [op EXCEPT ![c] = new]
                 /\ new.kind = tx.kind /\ new.read = tx.read /\ new.todo = Tail(tx.todo)
                 /\ DOMAIN new.writes \subseteq DOMAIN tx.writes \union {k}
  BY <1>3
<1>5. op'[c] = new /\ \A d \in Sessions : d # c => op'[d] = op[d]
  BY <1>4 DEF IInv, Inv, TypeOK
<1>6. k \in Targets(c)
  <2>1. 1 \in DOMAIN tx.todo /\ Head(tx.todo) = tx.todo[1]
    BY <1>1, HeadTailProperties, LenProperties, EmptySeq
  <2> QED
    BY <2>1 DEF Targets
<1>7. \A i \in DOMAIN new.todo : new.todo[i].key \in Targets(c)
  <2> SUFFICES ASSUME NEW i \in DOMAIN new.todo PROVE new.todo[i].key \in Targets(c)
    OBVIOUS
  <2>1. i + 1 \in DOMAIN tx.todo /\ new.todo[i] = tx.todo[i + 1]
    BY <1>1, <1>4
  <2> QED
    BY <2>1 DEF Targets
<1>8. Targets(c)' \subseteq Targets(c)
  <2>1. DOMAIN tx.writes \subseteq Targets(c)
    BY DEF Targets
  <2>2. DOMAIN new.writes \subseteq Targets(c)
    BY <1>4, <1>6, <2>1
  <2>3. Targets(c)' = DOMAIN new.writes \union {new.todo[i].key : i \in DOMAIN new.todo}
    BY <1>5 DEF Targets
  <2> QED
    BY <1>7, <2>2, <2>3
<1>9. \A d \in Sessions : d # c => Targets(d)' = Targets(d)
  BY <1>5 DEF Targets
<1> QED
  BY <1>2, <1>4, <1>5, <1>8, <1>9, ReadsKept

LEMMA AbortReads ==
    ASSUME IInv, NEW c \in Sessions, Abort(c) PROVE ReadsCurrent' /\ Chained'
<1>1. op'[c] = Idle /\ \A d \in Sessions : d # c => op'[d] = op[d]
  BY DEF Abort, IInv, Inv, TypeOK
<1>2. op'[c].kind # "upsert"
  BY <1>1 DEF Idle
<1>3. \A d \in Sessions : d # c => Targets(d)' = Targets(d)
  BY <1>1 DEF Targets
<1> QED
  BY <1>1, <1>2, <1>3, ReadsKept DEF Abort

\* One more change at the end of a chain.
LEMMA ExtendChain ==
    ASSUME NEW h \in Seq(Change), NEW p \in Prices, NEW q \in Prices, p # q, Chain(h, p)
    PROVE  Chain(h \o <<[old |-> p, new |-> q]>>, q)
<1> DEFINE x == [old |-> p, new |-> q]
           g == h \o <<x>>
<1>1. x.old = p /\ x.new = q /\ x \in Change
  BY DEF Change
<1> HIDE DEF x
<1>2. Len(h) \in Nat /\ Len(g) = Len(h) + 1 /\ g[Len(g)] = x
        /\ \A i \in 1..Len(h) : g[i] = h[i]
  BY <1>1
<1> HIDE DEF g
<1>3. \A i \in 1..Len(g) : g[i].old # g[i].new
  BY <1>1, <1>2 DEF Chain
<1>4. \A i \in 2..Len(g) : g[i].old = g[i - 1].new
  <2> SUFFICES ASSUME NEW i \in 2..Len(g) PROVE g[i].old = g[i - 1].new
    OBVIOUS
  <2>1. CASE i <= Len(h)
    BY <1>2, <2>1 DEF Chain
  <2>2. CASE i = Len(g)
    <3>1. h # << >> /\ g[i - 1] = h[Len(h)]
      BY <1>2, <2>2
    <3> QED
      BY <1>1, <1>2, <2>2, <3>1 DEF Chain
  <2> QED
    BY <1>2, <2>1, <2>2
<1>5. Chain(g, q)
  BY <1>1, <1>2, <1>3, <1>4 DEF Chain
<1> QED
  BY <1>5 DEF g, x

\* What a commit leaves of the history of a listing it does not taint.
LEMMA CommitChained ==
    ASSUME IInv, NEW c \in Sessions, Commit(c), NEW k \in Listings, k \notin tainted'
    PROVE  Chain(history[k], PriceOf(k))'
<1> DEFINE tx == op[c]
<1>1. k \notin tainted /\ Chain(history[k], PriceOf(k)) /\ history[k] \in Seq(Change)
  BY PriceTypes DEF Commit, IInv, Inv, Chained
<1>2. CASE k \notin DOMAIN tx.writes
  <2>1. table'[k] = table[k] /\ history'[k] = history[k]
    BY <1>2 DEF Commit
  <2> QED
    BY <1>1, <2>1 DEF PriceOf
<1>3. CASE k \in DOMAIN tx.writes
  <2>1. table'[k] = tx.writes[k] /\ history'[k] = history[k] \o Changes(tx, k)
    BY <1>3 DEF Commit
  <2>2. tx.writes[k] \in Row /\ tx.writes[k] # Missing /\ tx.writes[k].price \in Prices
    BY <1>3, Fields, StoreAssumption DEF IInv, Inv, Writes, Row, Missing
  <2>3. PriceOf(k)' = tx.writes[k].price
    BY <2>1, <2>2 DEF PriceOf
  <2>4. CASE tx.kind = "upsert"
    <3>1. tx.read = PriceOf(k)
      BY <1>1, <1>3, <2>4 DEF IInv, ReadsCurrent, Targets
    <3>2. CASE tx.read # None /\ tx.read # tx.writes[k].price
      <4>1. Changes(tx, k) = <<[old |-> tx.read, new |-> tx.writes[k].price]>>
        BY <2>4, <3>2 DEF Changes
      <4>2. tx.read \in Prices
        BY <3>1, <3>2, PriceTypes DEF IInv, Inv
      <4>3. Chain(history[k] \o <<[old |-> tx.read, new |-> tx.writes[k].price]>>,
                  tx.writes[k].price)
        BY <1>1, <2>2, <3>1, <3>2, <4>2, ExtendChain
      <4> QED
        BY <2>1, <2>3, <4>1, <4>3
    <3>3. CASE tx.read = None \/ tx.read = tx.writes[k].price
      <4>1. Changes(tx, k) = << >>
        BY <3>3 DEF Changes
      <4>2. history'[k] = history[k]
        BY <1>1, <2>1, <4>1, ConcatEmptySeq
      <4>3. CASE tx.read = None
        <5>1. history[k] = << >>
          <6>1. history[k] # << >> => /\ history[k][Len(history[k])].new = None
                                      /\ history[k][Len(history[k])] \in Change
            BY <1>1, <3>1, <4>3, ElementOfSeq, LenProperties, EmptySeq DEF Chain
          <6> QED
            BY <6>1, StoreAssumption DEF Change
        <5> QED
          BY <4>2, <5>1 DEF Chain
      <4>4. CASE tx.read = tx.writes[k].price
        BY <1>1, <2>3, <3>1, <4>2, <4>4
      <4> QED
        BY <3>3, <4>3, <4>4
    <3> QED
      BY <3>2, <3>3
  <2>5. CASE tx.kind # "upsert"
    <3>1. history'[k] = history[k]
      BY <1>1, <2>1, <2>5, ConcatEmptySeq DEF Changes
    <3>2. table[k] = Missing \/ tx.writes[k].price = table[k].price
      BY <1>3, <2>5 DEF Commit
    <3>3. CASE table[k] # Missing
      BY <1>1, <2>3, <3>1, <3>2, <3>3 DEF PriceOf
    <3>4. CASE table[k] = Missing
      <4>1. history[k] # << >> => /\ history[k][Len(history[k])].new = None
                                  /\ history[k][Len(history[k])] \in Change
        BY <1>1, <3>4, ElementOfSeq, LenProperties, EmptySeq DEF Chain, PriceOf
      <4>2. history[k] = << >>
        BY <4>1, StoreAssumption DEF Change
      <4> QED
        BY <3>1, <4>2 DEF Chain
    <3> QED
      BY <3>3, <3>4
  <2> QED
    BY <2>4, <2>5
<1> QED
  BY <1>2, <1>3

\* A commit taints the listings other open upserts have read.
LEMMA CommitReads == ASSUME IInv, NEW c \in Sessions, Commit(c) PROVE ReadsCurrent'
<1> SUFFICES ASSUME NEW d \in Sessions, NEW k \in Listings, k \notin tainted',
                    op'[d].kind = "upsert", k \in Targets(d)'
             PROVE  op'[d].read = PriceOf(k)'
  BY DEF ReadsCurrent
<1>1. op'[c] = Idle /\ \A e \in Sessions : e # c => op'[e] = op[e]
  BY DEF Commit, IInv, Inv, TypeOK
<1>2. d # c
  BY <1>1 DEF Idle
<1>3. op'[d] = op[d] /\ k \in Targets(d)
  BY <1>1, <1>2 DEF Targets
<1>4. ReadByOther(c, k)
  BY <1>2, <1>3 DEF ReadByOther, Targets
<1>5. k \notin DOMAIN op[c].writes /\ k \notin tainted
  BY <1>4 DEF Commit
<1>6. table'[k] = table[k]
  BY <1>5 DEF Commit
<1> QED
  BY <1>3, <1>5, <1>6 DEF IInv, ReadsCurrent, PriceOf

LEMMA StepIInv == IInv /\ [Next]_vars => IInv'
<1> SUFFICES ASSUME IInv, [Next]_vars PROVE ReadsCurrent' /\ Chained'
  BY StepInv DEF IInv
<1>1. CASE Tick \/ UNCHANGED vars
  <2>1. UNCHANGED <<table, history, tainted, op>>
    BY <1>1 DEF Tick, vars
  <2> QED
    BY <2>1, ReadsKept DEF Targets
<1>2. ASSUME NEW c \in Sessions, NEW k \in Listings, NEW price \in Prices, UpdateOrCreate(c, k, price)
      PROVE  ReadsCurrent' /\ Chained'
  <2> DEFINE todo == <<[key |-> k, price |-> price]>>
  <2>1. Begin(c, "upsert", PriceOf(k), todo)
    BY <1>2 DEF UpdateOrCreate, PriceOf
  <2>2. \A i \in DOMAIN todo : todo[i].key = k
    OBVIOUS
  <2> HIDE DEF todo
  <2> QED
    BY <2>1, <2>2, BeginReads
<1>3. ASSUME NEW c \in Sessions, NEW kind, NEW todo, kind # "upsert", Begin(c, kind, None, todo)
      PROVE  ReadsCurrent' /\ Chained'
  BY <1>3, BeginReads
<1>4. ASSUME NEW c \in Sessions, NEW k \in Listings, NEW price \in Prices,
             CreateProperty(c, k, price) \/ UpdateProperty(c, k, price)
      PROVE  ReadsCurrent' /\ Chained'
  BY <1>3, <1>4 DEF CreateProperty, UpdateProperty
<1>5. ASSUME NEW c \in Sessions, NEW batch \in Batches,
             BulkUpsert(c, batch) \/ BulkCreate(c, batch) \/ BatchInsert(c, batch)
      PROVE  ReadsCurrent' /\ Chained'
  BY <1>3, <1>5 DEF BulkUpsert, BulkCreate, BatchInsert
<1>6. ASSUME NEW c \in Sessions, DeactivateOld(c) PROVE ReadsCurrent' /\ Chained'
  BY <1>3, <1>6 DEF DeactivateOld
<1>7. ASSUME NEW c \in Sessions, WriteRow(c) \/ PassOver(c) PROVE ReadsCurrent' /\ Chained'
  BY <1>7, AdvanceReads
<1>8. ASSUME NEW c \in Sessions, Refuse(c) \/ BreakDeadlock(c) \/ Rollback(c)
      PROVE  ReadsCurrent' /\ Chained'
  BY <1>8, AbortReads DEF Refuse, BreakDeadlock, Rollback
<1>9. ASSUME NEW c \in Sessions, Commit(c) PROVE ReadsCurrent' /\ Chained'
  BY <1>9, CommitReads, CommitChained DEF Chained
<1>10. ASSUME NEW c \in Sessions, NEW ids \in IdLists,
              \/ \E price \in Prices : BulkUpdate(c, ids, price)
              \/ \E kind \in Switches : BulkSwitch(c, kind, ids)
       PROVE  ReadsCurrent' /\ Chained'
  <2>1. "upsert" \notin Switches
    BY DEF Switches
  <2> QED
    BY <1>3, <1>10, <2>1 DEF BulkUpdate, BulkSwitch
<1> QED
  BY <1>1, <1>2, <1>4, <1>5, <1>6, <1>7, <1>8, <1>9, <1>10 DEF Next, Progress

\* update_or_create_property "tracks all price changes": as long as upserts that did
\* not overlap are all that changed a listing's price, its history is complete.
THEOREM PriceHistoryComplete == Spec => []HistoryCompleteUnlessOverlapped
<1>1. IInv => HistoryCompleteUnlessOverlapped
  BY ChainedIsComplete DEF IInv, Inv
<1> QED
  BY <1>1, InitIInv, StepIInv, PTL DEF Spec
==============================================================================

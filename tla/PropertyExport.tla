---------------------------- MODULE PropertyExport ----------------------------
(***************************************************************************)
(* An export of app/services/async_export.py while others write: the rows  *)
(* are fetched in batches by OFFSET, without an order, each batch by a     *)
(* statement that sees what is committed when it begins.                   *)
(***************************************************************************)
EXTENDS Integers, FiniteSets, SequencesExt

CONSTANTS Limits,       \* arguments of the export: 0 when there is none
          Offsets,
          BATCH_SIZE,
          MaxRows,      \* bound: rows at the start
          MaxChanges    \* bound: inserts, deletes and updates

VARIABLES table,        \* the rows in the order in which a scan finds them
          phase,        \* of the export
          limit, offset,
          batch_offset,
          out,          \* the rows exported
          changes,
          steady,       \* history: rows at or after offset, not updated since the start
          gone, come    \* history: rows that left a place, and that took one, since the start

arguments == <<limit, offset>>
progress == <<phase, batch_offset, out>>
history == <<steady, gone, come>>
vars == <<table, changes, arguments, progress, history>>

PropertyExportAssumption ==
    /\ Limits \subseteq Nat /\ Offsets \subseteq Nat /\ BATCH_SIZE \in Nat \ {0}
    /\ MaxRows \in Nat /\ MaxChanges \in Nat

Ids == 1..(MaxRows + MaxChanges)

TypeOK ==
    /\ table \in Seq(Ids) /\ IsInjective(table)
    /\ phase \in {"fetching", "success", "error"}
    /\ limit \in Limits /\ offset \in Offsets
    /\ batch_offset \in Nat /\ out \in Seq(Ids)
    /\ changes \in 0..MaxChanges
    /\ steady \subseteq Ids /\ gone \in 0..MaxChanges /\ come \in 0..MaxChanges

Init ==
    /\ \E n \in 0..MaxRows : table = [i \in 1..n |-> i]
    /\ limit \in Limits /\ offset \in Offsets
    /\ phase = "fetching" /\ batch_offset = offset /\ out = << >>
    /\ changes = 0
    /\ steady = ToSet(SubSeq(table, offset + 1, Len(table)))
    /\ gone = 0 /\ come = 0

Change ==
    /\ phase = "fetching" /\ changes < MaxChanges
    /\ changes' = changes + 1
    /\ UNCHANGED <<arguments, progress>>

Insert(i) ==
    /\ Change
    /\ table' = InsertAt(table, i, MaxRows + changes')
    /\ come' = come + 1
    /\ UNCHANGED <<steady, gone>>

Delete(i) ==
    /\ Change
    /\ table' = RemoveAt(table, i)
    /\ steady' = steady \ {table[i]}
    /\ gone' = gone + 1
    /\ UNCHANGED come

\* An update writes the row anew, in some other place.
Update(i, j) ==
    /\ Change
    /\ table' = InsertAt(RemoveAt(table, i), j, table[i])
    /\ steady' = steady \ {table[i]}
    /\ gone' = gone + 1 /\ come' = come + 1
------------------------------------------------------------------------------
\* Mutants: the next batch begins one row late, or with the last row of this one.
AdvanceLate(from) == from + BATCH_SIZE + 1
AdvanceEarly(from) == from + BATCH_SIZE - 1

Advance(from) == from + BATCH_SIZE

\* Mutant: the limit is compared with the place in the table.
EnoughByPlace(next) == limit # 0 /\ next >= limit

\* Mutant: the limit ends the export one batch later.
EnoughLater(next) == limit # 0 /\ next - offset > limit

Enough(next) == limit # 0 /\ next - offset >= limit

Fetched ==
    SubSeq(table, batch_offset + 1, Min({batch_offset + BATCH_SIZE, Len(table)}))

Fetch ==
    /\ phase = "fetching" /\ Fetched # << >>
    /\ out' = out \o Fetched
    /\ batch_offset' = Advance(batch_offset)
    /\ phase' = IF Enough(batch_offset') THEN "success" ELSE "fetching"
    /\ UNCHANGED <<table, changes, arguments, history>>

FindNoMore ==
    /\ phase = "fetching" /\ Fetched = << >>
    /\ phase' = "success"
    /\ UNCHANGED <<table, changes, arguments, batch_offset, out, history>>

\* The statement, or the callback after a batch, raises.
Fail ==
    /\ phase = "fetching"
    /\ phase' = "error"
    /\ UNCHANGED <<table, changes, arguments, batch_offset, out, history>>

Next ==
    \/ Fetch \/ FindNoMore \/ Fail
    \/ \E i \in 1..(Len(table) + 1) : Insert(i)
    \/ \E i \in 1..Len(table) : Delete(i) \/ \E j \in 1..Len(table) : Update(i, j)

Spec == Init /\ [][Next]_vars
------------------------------------------------------------------------------
\* An export is off by no more rows than changed places meanwhile: it repeats at most
\* as many as were inserted or updated and, when it ends, has missed at most as many
\* of the rows nobody touched as were deleted or updated; a limit is passed by less
\* than a batch, and cuts nothing short of it.
ExportOffByChanges ==
    /\ Len(out) - Cardinality(ToSet(out)) <= come
    /\ limit # 0 => Len(out) < limit + BATCH_SIZE
    /\ phase = "success" =>
           LET missed == Cardinality(steady \ ToSet(out))
           IN  missed <= gone \/ (limit # 0 /\ Len(out) >= limit)
==============================================================================

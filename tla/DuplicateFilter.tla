--------------------------- MODULE DuplicateFilter ---------------------------
(***************************************************************************)
(* One DuplicateFilter and the sequence of calls its owner makes.          *)
(***************************************************************************)
EXTENDS BloomFilter

VARIABLES filter,   \* the DuplicateFilter object
          seen,     \* history: keys checked or added since the last clear()
          ever      \* history: keys checked or added since the filter exists

vars == <<filter, seen, ever>>

TypeOK == filter \in FilterType /\ seen \in SUBSET Keys /\ ever \in SUBSET Keys

Init == filter = NewFilter /\ seen = {} /\ ever = {}

See(k) == seen' = seen \union {k} /\ ever' = ever \union {k}

Check(k) == filter' = Remember(filter, k) /\ See(k)

Add(k) == filter' = AddKey(filter, k) /\ See(k)

Clear == filter' = ClearFilter(filter) /\ seen' = {} /\ UNCHANGED ever

Next == Clear \/ \E k \in Keys : Check(k) \/ Add(k)

Spec == Init /\ [][Next]_vars
------------------------------------------------------------------------------
\* No false negatives: a key that was checked or added since the last clear()
\* is reported as a duplicate, across the switch from the exact set to the Bloom
\* filter and back.  ("The element is certainly new" in is_duplicate.)
SeenIsRemembered == \A k \in seen : IsDuplicate(filter, k)

\* A key that was never seen is reported as a duplicate only by the Bloom filter
\* and only if the bits of keys that were seen cover its own.
FalsePositivesAreCollisions ==
    \A k \in Keys \ ever :
        IsDuplicate(filter, k) => ~ChecksExactly(filter) /\ Hash[k] \subseteq BitsOf(ever)
==============================================================================

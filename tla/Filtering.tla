------------------------------- MODULE Filtering -------------------------------
(***************************************************************************)
(* The clean-up of the rate limiters' lists, [x for x in seq if ...].  It  *)
(* is SelectSeq with a set for the test, and a function instead of an      *)
(* operator that the provers have no definition of.                        *)
(***************************************************************************)
EXTENDS Integers, Sequences

\* The elements of seq that are in the set, in their order.
Keep(seq, set) ==
    LET kept[i \in 0..Len(seq)] ==
            IF i = 0 THEN << >>
            ELSE IF seq[i] \in set THEN Append(kept[i - 1], seq[i])
            ELSE kept[i - 1]
    IN  kept[Len(seq)]
==============================================================================

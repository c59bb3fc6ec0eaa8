--------------------------- MODULE MCTwoLevelCache ---------------------------
(* Instances of TwoLevelCache for TLC: two coroutines, two keys and one place *)
(* in L1, so that L2 is asked for what L1 evicted.                            *)
EXTENDS TwoLevelCache, TLC

CONSTANTS c1, c2, k1, k2

MCClients == {c1, c2}
MCKeys == {k1, k2}
MCTtls == {1}
MCSymmetry == Permutations(MCClients) \union Permutations(MCKeys)
==============================================================================

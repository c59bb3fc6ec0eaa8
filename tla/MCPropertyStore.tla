---------------------------- MODULE MCPropertyStore ----------------------------
(* Instances of PropertyStore for TLC: two sessions and two listings, so that *)
(* lists can name them in opposite orders and wait for one another.           *)
EXTENDS PropertyStore

CONSTANTS s1, s2, k1, k2, p1, p2

MCSessions == {s1, s2}
MCListings == {k1, k2}
MCPrices == {p1, p2}
Of(k, p) == [key |-> k, price |-> p]
MCBatches == {<<Of(k1, p1), Of(k2, p1)>>, <<Of(k2, p2), Of(k1, p2)>>, <<Of(k1, p1), Of(k1, p2)>>}
MCIdLists == {<<k2, k1>>}
==============================================================================

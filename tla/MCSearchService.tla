--------------------------- MODULE MCSearchService ---------------------------
(* Instances of SearchService for TLC: two parsers, overlapping pages, and a  *)
(* key k3 whose bits those of k1 and k2 cover.                                *)
EXTENDS SearchService, TLC

CONSTANTS p1, p2, s1, s2, k1, k2, k3

MCParsers == {p1, p2}
MCParserOrder == <<p1, p2>>
MCSearches == {s1, s2}
MCKeys == {k1, k2, k3}
MCBits == 0..3
MCHash == (k1 :> {0, 1}) @@ (k2 :> {2, 3}) @@ (k3 :> {1, 2})
MCPages == {<<k1, k1>>, <<k2, k1>>, <<k3>>}
==============================================================================

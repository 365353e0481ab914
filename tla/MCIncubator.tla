---------------------------- MODULE MCIncubator ----------------------------
EXTENDS Incubator

\* two pairs of one scanner, one of another
MCPairs == {"p1", "p2", "p3"}
MCTwo == {"p1", "p2"}
MCScannerOf == [p \in Pairs |-> IF p = "p3" THEN "s2" ELSE "s1"]
=============================================================================

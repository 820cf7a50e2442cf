---------------------------- MODULE MCWakeWindow ----------------------------
(* A hub and a handful of nodes, in a few layouts.                         *)
EXTENDS WakeWindow

CONSTANTS hub, n1, n2, n3, n4

Both(pairs) == pairs \cup {<<p[2], p[1]>> : p \in pairs}

(* Every layout of three nodes and the hub.                                *)
Everywhere == LET Pairs == {<<hub, n1>>, <<hub, n2>>, <<hub, n3>>, <<n1, n2>>, <<n1, n3>>, <<n2, n3>>}
       IN {Both(P) : P \in SUBSET Pairs}

(* Two routes of unequal length from the hub to n4.                        *)
Detour == {Both({<<hub, n1>>, <<hub, n3>>, <<n1, n2>>, <<n2, n4>>, <<n3, n4>>})}
=============================================================================

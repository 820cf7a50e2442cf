---------------------------- MODULE MCDiscovery ----------------------------
(* Ticks of 250 milliseconds. Other beaconers: one nearer in strength than *)
(* in hops, and another root.                                              *)
EXTENDS Discovery

MCStrays == {[sender |-> 9, hop |-> 1, rssi |-> 0 - 40],
             [sender |-> 8, hop |-> 0, rssi |-> 0 - 60]}
MCRssi == {0 - 70}

ASSUME IntervalAssumption
=============================================================================

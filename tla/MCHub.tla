------------------------------- MODULE MCHub -------------------------------
(* A hub small enough to explore: see Hub_book.cfg and its siblings.       *)
EXTENDS Hub, TLC

CONSTANTS w1, w2

Threads == Permutations({w1, w2})
=============================================================================

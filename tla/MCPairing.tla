----------------------------- MODULE MCPairing -----------------------------
(* Two boards and two addresses: see Pairing_unique.cfg.                   *)
EXTENDS Pairing

CONSTANTS b1, b2

IInv == TypeOK /\ NoTwins /\ Spoken /\ SentOnce
=============================================================================

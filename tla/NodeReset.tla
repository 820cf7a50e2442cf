----------------------------- MODULE NodeReset -----------------------------
(***************************************************************************)
(* Node, with a record of whose the board is: nobody's from the factory    *)
(* and from a confirmed hold on, until it hears a CLAIM.                   *)
(***************************************************************************)
EXTENDS Node

VARIABLE
  nobodys         \* history: new or reset, and no CLAIM heard since

varsReset == <<vars, nobodys>>

InitReset == Init /\ nobodys = TRUE

NextReset == /\ Next
             /\ nobodys' = IF HoldConfirmed THEN TRUE
                           ELSE IF \E a \in Addresses : HearClaim(a) THEN FALSE
                           ELSE nobodys

SpecReset == InitReset /\ [][NextReset]_varsReset

-----------------------------------------------------------------------------
(* "A new (or factory-reset) node boots into pairing mode", and one that   *)
(* was claimed switches to its schedule (the swarm design, 155-156 and     *)
(* 164-165): a board never aborts, and is no leaf, with an old claim or    *)
(* what is left of one, before it hears a CLAIM. The code opens namespaces *)
(* that a board does not have yet (node_identity.c:26, node_config.c:15),  *)
(* and erases a claim key by key with no mark that it has begun            *)
(* (node_identity.c:71-78), so that power may fail with "claimed" there.   *)
BootsIntoItsMode == pc # "abort" /\ (nobodys => pc # "leaf")
=============================================================================

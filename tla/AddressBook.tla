---------------------------- MODULE AddressBook ----------------------------
(***************************************************************************)
(* What the hub promises the network about short addresses.                *)
(*                                                                         *)
(* Spec section 4.5 has every node talk under a 16-bit short address that  *)
(* the hub hands out once, at pairing.  The book has two parts: the        *)
(* addresses that are durably on record, and how many CLAIM frames have    *)
(* carried each address onto the air.  An address leaves the book never;   *)
(* it is told to the air at most once, and only when it is on record, so   *)
(* that no restart of the hub can make it hand the same address out twice. *)
(***************************************************************************)
EXTENDS Naturals

CONSTANT Ids            \* the addresses a row of the nodes table may have

VARIABLES recorded,     \* addresses with a durable row
          told          \* number of CLAIM frames sent, per address

vars == <<recorded, told>>

TypeOK == /\ recorded \subseteq Ids
          /\ told \in [Ids -> Nat]

Init == /\ recorded = {}
        /\ told = [a \in Ids |-> 0]

(* New addresses become durable, several at once when one commit carries   *)
(* the work of several threads.                                            *)
Record(new) == /\ new # {}
               /\ new \cap recorded = {}
               /\ recorded' = recorded \cup new
               /\ UNCHANGED told

(* A recorded address is given to a node, for the first and last time.     *)
Tell(a) == /\ a \in recorded
           /\ told[a] = 0
           /\ told' = [told EXCEPT ![a] = 1]
           /\ UNCHANGED recorded

Next == \/ \E new \in SUBSET Ids : Record(new)
        \/ \E a \in Ids : Tell(a)

Spec == Init /\ [][Next]_vars
=============================================================================

---------------------------- MODULE SpanningTree ----------------------------
(***************************************************************************)
(* What a wake window promises (spec section 4.2): whatever the network    *)
(* looks like when the window opens, the tree grows from the hub one       *)
(* in-range node at a time and the window closes only when nobody that is  *)
(* in range of the tree is left out; the round then reports exactly the    *)
(* nodes of the tree.  Nothing is remembered from the window before.       *)
(***************************************************************************)
CONSTANTS Nodes, HUB

VARIABLES members,      \* nodes that are switched on
          links,        \* pairs of nodes in radio range of each other
          attached,     \* the tree
          open,         \* whether a window is open
          report        \* nodes whose DATA the last round delivered

vars == <<members, links, attached, open, report>>

Neighbours(n) == {m \in members : <<n, m>> \in links}
Closed(S) == \A n \in S : Neighbours(n) \subseteq S

Init == /\ attached = {HUB}
        /\ open = FALSE
        /\ report = {}

Open == /\ ~ open
        /\ open' = TRUE
        /\ UNCHANGED <<members, links, attached, report>>

Attach(n) == /\ open
             /\ n \in members \ attached
             /\ \E p \in attached : n \in Neighbours(p)
             /\ attached' = attached \cup {n}
             /\ UNCHANGED <<members, links, open, report>>

Close == /\ open
         /\ Closed(attached)
         /\ open' = FALSE
         /\ report' = attached \ {HUB}
         /\ attached' = {HUB}
         /\ UNCHANGED <<members, links>>

(* Nodes are moved, added or lost between windows.                         *)
Disturb == /\ ~ open
           /\ UNCHANGED <<attached, open, report>>

Next == Open \/ (\E n \in Nodes : Attach(n)) \/ Close \/ Disturb

Spec == Init /\ [][Next]_vars
=============================================================================

----------------------------- MODULE WakeWindow -----------------------------
(***************************************************************************)
(* The reference simulation's rounds (src/sim): Simulator.run_round runs   *)
(* run_wake_window, which rebuilds the tree from nothing by rounds of      *)
(* beacons and joins, then collect_data.                                   *)
(*                                                                         *)
(* Sets are walked in whatever order Python's sets give, and each join     *)
(* contest is won by the least random jitter: both are free choices here,  *)
(* one action per beaconer and one per contest.  Positions are abstracted  *)
(* to which nodes are in range of each other.  A pending node holds one    *)
(* BeaconReceived and no more, so select_parent on it is its sender, and   *)
(* the signal strength it also carries decides nothing.                    *)
(***************************************************************************)
EXTENDS Integers

CONSTANTS
  Nodes,          \* every node id, the hub's included
  HUB,            \* HUB_ID
  NoNode,         \* None, where a node id is expected
  Layouts         \* the in-range relations the nodes can be placed into

ASSUME WakeAssumption ==
  /\ HUB \in Nodes
  /\ NoNode \notin Nodes
  /\ Layouts \subseteq SUBSET (Nodes \X Nodes)

NoHop == -1       \* None, where a hop count is expected

Phases == {"idle", "beacon", "join", "collect"}

VARIABLES
  members,        \* keys of network.nodes
  links,          \* the pairs within radio_range
  hop, parent,    \* Node.hop_count, Node.parent_id
  phase,          \* where run_round is
  todo,           \* beaconers, then contests, left in this pass
  parented,       \* local of run_wake_window
  pending,        \* local of run_wake_window: whose beacon a node answers
  heard,          \* history: whose beacons a node has been in range of
  frames          \* the senders of collect_data's last result

network == <<members, links>>
locals == <<todo, parented, pending, heard>>
vars == <<members, links, hop, parent, phase, todo, parented, pending, heard, frames>>

TypeOK == /\ members \subseteq Nodes
          /\ HUB \in members
          /\ links \in SUBSET (Nodes \X Nodes)
          /\ hop \in [Nodes -> Nat \cup {NoHop}]
          /\ parent \in [Nodes -> Nodes \cup {NoNode}]
          /\ phase \in Phases
          /\ todo \subseteq Nodes
          /\ parented \subseteq Nodes
          /\ pending \in [Nodes -> Nodes \cup {NoNode}]
          /\ heard \in [Nodes -> SUBSET Nodes]
          /\ frames \subseteq Nodes

Neighbours(n) == {m \in members : <<n, m>> \in links}
Pending == {n \in Nodes : pending[n] # NoNode}

Init == /\ members \in {S \in SUBSET Nodes : HUB \in S}
        /\ links \in Layouts
        /\ hop = [n \in Nodes |-> NoHop]
        /\ parent = [n \in Nodes |-> NoNode]
        /\ phase = "idle"
        /\ todo = {}
        /\ parented = {HUB}
        /\ pending = [n \in Nodes |-> NoNode]
        /\ heard = [n \in Nodes |-> {}]
        /\ frames = {}

-----------------------------------------------------------------------------
(* Seeded faults, for showing that the properties notice them: hop counts  *)
(* kept from the last window, parents that share their child's hop count,  *)
(* contest winners left pending, contests for no parent, a hub that        *)
(* beacons alone.                                                          *)
StartStale == /\ phase = "idle"
              /\ hop' = [hop EXCEPT ![HUB] = 0]
              /\ parent' = [n \in Nodes |-> NoNode]
              /\ todo' = {HUB}
              /\ phase' = "beacon"
              /\ UNCHANGED <<network, parented, pending, heard, frames>>

JoinSameHop(p, w) ==
  /\ phase = "join"
  /\ p \in todo
  /\ pending[w] = p
  /\ parent' = [parent EXCEPT ![w] = p]
  /\ hop' = [hop EXCEPT ![w] = hop[p]]
  /\ pending' = [pending EXCEPT ![w] = NoNode]
  /\ parented' = parented \cup {w}
  /\ todo' = todo \ {p}
  /\ UNCHANGED <<network, phase, heard, frames>>

JoinStillPending(p, w) ==
  /\ phase = "join"
  /\ p \in todo
  /\ pending[w] = p
  /\ parent' = [parent EXCEPT ![w] = p]
  /\ hop' = [hop EXCEPT ![w] = hop[p] + 1]
  /\ parented' = parented \cup {w}
  /\ todo' = todo \ {p}
  /\ UNCHANGED <<network, phase, pending, heard, frames>>

GroupAll == /\ phase = "beacon"
            /\ todo = {}
            /\ Pending # {}
            /\ phase' = "join"
            /\ todo' = {pending[n] : n \in Nodes}
            /\ UNCHANGED <<network, hop, parent, parented, pending, heard, frames>>

NextRoundHubOnly == /\ phase = "join"
                    /\ todo = {}
                    /\ phase' = "beacon"
                    /\ todo' = {HUB}
                    /\ UNCHANGED <<network, hop, parent, parented, pending, heard, frames>>

(* The window opens: last window's hop counts and parents are forgotten,   *)
(* and the hub is hop 0.                                                   *)
Start == /\ phase = "idle"
         /\ hop' = [n \in Nodes |-> IF n = HUB THEN 0 ELSE NoHop]
         /\ parent' = [n \in Nodes |-> NoNode]
         /\ todo' = {HUB}
         /\ phase' = "beacon"
         /\ UNCHANGED <<network, parented, pending, heard, frames>>

(* One parented node beacons; a neighbour without a parent that has not    *)
(* yet taken up a beacon takes up this one.                                *)
Beacon(b) ==
  LET hearers == Neighbours(b) \ parented IN
  /\ phase = "beacon"
  /\ b \in todo
  /\ pending' = [n \in Nodes |-> IF n \in hearers /\ pending[n] = NoNode
                                 THEN b ELSE pending[n]]
  /\ heard' = [n \in Nodes |-> IF n \in hearers THEN heard[n] \cup {b} ELSE heard[n]]
  /\ todo' = todo \ {b}
  /\ UNCHANGED <<network, hop, parent, phase, parented, frames>>

(* Everyone has beaconed: group the pending nodes by parent, or stop.      *)
Group == /\ phase = "beacon"
         /\ todo = {}
         /\ Pending # {}
         /\ phase' = "join"
         /\ todo' = {pending[n] : n \in Pending}
         /\ UNCHANGED <<network, hop, parent, parented, pending, heard, frames>>

Settle == /\ phase = "beacon"
          /\ todo = {}
          /\ Pending = {}
          /\ phase' = "collect"
          /\ UNCHANGED <<network, hop, parent, locals, frames>>

(* One of the nodes pending on p wins the contest and joins.               *)
Join(p, w) ==
  /\ phase = "join"
  /\ p \in todo
  /\ pending[w] = p
  /\ parent' = [parent EXCEPT ![w] = p]
  /\ hop' = [hop EXCEPT ![w] = hop[p] + 1]
  /\ pending' = [pending EXCEPT ![w] = NoNode]
  /\ parented' = parented \cup {w}
  /\ todo' = todo \ {p}
  /\ UNCHANGED <<network, phase, heard, frames>>

NextRound == /\ phase = "join"
             /\ todo = {}
             /\ phase' = "beacon"
             /\ todo' = parented
             /\ UNCHANGED <<network, hop, parent, parented, pending, heard, frames>>

(* collect_data asks every node with a hop count; the window's locals are  *)
(* already gone.                                                           *)
Collect == /\ phase = "collect"
           /\ frames' = {n \in members \ {HUB} : hop[n] # NoHop}
           /\ phase' = "idle"
           /\ parented' = {HUB}
           /\ heard' = [n \in Nodes |-> {}]
           /\ UNCHANGED <<network, hop, parent, todo, pending>>

(* Between rounds nodes are moved, added or removed; a node that is added  *)
(* is a new Node, without hop count or parent.                             *)
Change(m, l) ==
  /\ phase = "idle"
  /\ HUB \in m
  /\ members' = m
  /\ links' = l
  /\ hop' = [n \in Nodes |-> IF n \in m \cap members THEN hop[n] ELSE NoHop]
  /\ parent' = [n \in Nodes |-> IF n \in m \cap members THEN parent[n] ELSE NoNode]
  /\ UNCHANGED <<phase, locals, frames>>

Window == \/ Start
          \/ \E b \in Nodes : Beacon(b)
          \/ Group \/ Settle
          \/ \E p, w \in Nodes : Join(p, w)
          \/ NextRound
          \/ Collect

Next == \/ Window
        \/ \E m \in SUBSET Nodes, l \in Layouts : Change(m, l)

Spec == Init /\ [][Next]_vars

(* run_round is straight-line code: a window that is open goes on.         *)
FairSpec == Spec /\ WF_vars(Window /\ phase # "idle")

-----------------------------------------------------------------------------
(* In an open window the parented nodes are a tree rooted at the hub: a    *)
(* parent is in range, belongs to the tree and is one hop nearer, so that  *)
(* following parents always ends at the hub, whatever contests were won in *)
(* whatever order; and only the tree has hop counts.                       *)
Tree ==
  /\ HUB \in parented /\ parented \subseteq members
  /\ hop[HUB] = 0
  /\ \A n \in parented \ {HUB} : /\ parent[n] \in parented
                                  /\ n \in Neighbours(parent[n])
                                  /\ hop[n] = hop[parent[n]] + 1
  /\ \A n \in parented : hop[n] \in Nat
  /\ \A n \in Nodes \ parented : hop[n] = NoHop

(* A pending node answers a node of the tree that it is in range of.       *)
Answers == \A n \in Pending : /\ n \in members \ parented
                             /\ pending[n] \in parented
                             /\ n \in Neighbours(pending[n])

(* Nobody in range of a node that has beaconed in this pass is forgotten,  *)
(* however many contests it loses; when nobody is pending any more the     *)
(* tree is complete.                                                       *)
Forgotten == \E b \in parented \ todo : ~ (Neighbours(b) \subseteq parented \cup Pending)
Complete == \A b \in parented : Neighbours(b) \subseteq parented
NobodyLeft == /\ phase = "beacon" => ~ Forgotten
              /\ phase = "collect" => Complete

(* The contests of a pass are those of nodes that are waiting in it.       *)
Contests == /\ phase = "beacon" => todo \subseteq parented
            /\ phase = "join" => \A p \in todo : \E n \in Pending : pending[n] = p
            /\ phase = "collect" => todo = {} /\ Pending = {}
            /\ phase = "idle" => parented = {HUB} /\ todo = {} /\ Pending = {}

(* The nodes that can reach the hub over links of this window: the least   *)
(* set with the hub in it that no link leaves.                             *)
ClosedSet(S) == \A n \in S : Neighbours(n) \subseteq S
Reachable == {n \in members : \A S \in SUBSET members :
                                HUB \in S /\ ClosedSet(S) => n \in S}

WindowInv == /\ phase # "idle" => Tree /\ parented \subseteq Reachable
             /\ Answers
             /\ NobodyLeft
             /\ Contests

(* Self-healing: a round delivers DATA from exactly the nodes that have a  *)
(* path to the hub now, whatever the previous window's tree was.           *)
RoundIsExact == [][phase = "collect" => frames' = Reachable \ {HUB}]_vars

(* A window implements the growth of a spanning tree.                      *)
Growth == INSTANCE SpanningTree WITH attached <- parented, open <- (phase # "idle"),
                                     report <- frames
GrowsTree == Growth!Spec

(* A window that has opened ends, contests and all.                        *)
WindowEnds == phase # "idle" ~> phase = "idle"

(* What the M0 plan asks of "every task that touches parent selection"     *)
(* (m0-protocol-simulation.md:17): hop count first among the beacons a     *)
(* node hears.                                                             *)
LowestHopHeard == \A n \in parented \ {HUB} : \A s \in heard[n] : hop[parent[n]] <= hop[s]
=============================================================================

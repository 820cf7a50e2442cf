-------------------------- MODULE WakeWindowProofs --------------------------
(***************************************************************************)
(* What a round of the wake-window protocol keeps for every set of nodes,  *)
(* every layout, every order of beacons and every outcome of the contests. *)
(***************************************************************************)
EXTENDS WakeWindow, TLAPS

LEMMA WindowTypeStep == TypeOK /\ [Next]_vars => TypeOK'
<1>. SUFFICES ASSUME TypeOK, [Next]_vars
              PROVE  TypeOK'
  OBVIOUS
<1>. USE WakeAssumption DEF TypeOK, Phases, NoHop, network, locals
<1>1. CASE Start
  BY <1>1 DEF Start
<1>2. ASSUME NEW b \in Nodes, Beacon(b)
      PROVE  TypeOK'
  <2>1. pending' \in [Nodes -> Nodes \cup {NoNode}]
    BY <1>2 DEF Beacon
  <2>2. heard' \in [Nodes -> SUBSET Nodes]
    BY <1>2 DEF Beacon
  <2>. QED
    BY <1>2, <2>1, <2>2 DEF Beacon
<1>3. CASE Group
  BY <1>3 DEF Group, Pending
<1>4. CASE Settle
  BY <1>4 DEF Settle
<1>5. ASSUME NEW p \in Nodes, NEW w \in Nodes, Join(p, w)
      PROVE  TypeOK'
  <2>1. hop[p] + 1 \in Nat
    OBVIOUS
  <2>2. hop' \in [Nodes -> Nat \cup {NoHop}]
    BY <1>5, <2>1 DEF Join
  <2>3. /\ parent' \in [Nodes -> Nodes \cup {NoNode}]
        /\ pending' \in [Nodes -> Nodes \cup {NoNode}]
    BY <1>5 DEF Join
  <2>. QED
    BY <1>5, <2>2, <2>3 DEF Join
<1>6. CASE NextRound
  BY <1>6 DEF NextRound
<1>7. CASE Collect
  BY <1>7 DEF Collect
<1>8. ASSUME NEW m \in SUBSET Nodes, NEW l \in Layouts, Change(m, l)
      PROVE  TypeOK'
  BY <1>8 DEF Change
<1>9. CASE UNCHANGED vars
  BY <1>9 DEF vars
<1>. HIDE DEF TypeOK, Phases, NoHop, network, locals
<1>. QED
  BY <1>1, <1>2, <1>3, <1>4, <1>5, <1>6, <1>7, <1>8, <1>9 DEF Next, Window

LEMMA WindowTypeInit == Init => TypeOK
BY WakeAssumption DEF Init, TypeOK, Phases, NoHop

(* Every reachable state of the simulation is well typed.                  *)
THEOREM WindowTyped == Spec => []TypeOK
BY WindowTypeInit, WindowTypeStep, PTL DEF Spec

-----------------------------------------------------------------------------
(* A node that joins a node of the tree it is in range of is reachable.    *)
LEMMA ReachStep ==
  ASSUME NEW p \in Reachable, NEW w \in Neighbours(p)
  PROVE  w \in Reachable
BY DEF Reachable, ClosedSet, Neighbours

LEMMA HubReachable == TypeOK => HUB \in Reachable
BY DEF TypeOK, Reachable

(* Only the network determines what is reachable.                          *)
LEMMA SameNetwork ==
  ASSUME UNCHANGED network
  PROVE  /\ Reachable' = Reachable
         /\ \A n : Neighbours(n)' = Neighbours(n)
BY DEF network, Reachable, ClosedSet, Neighbours

LEMMA WindowInvStep == TypeOK /\ WindowInv /\ [Next]_vars => WindowInv'
<1>. SUFFICES ASSUME TypeOK, WindowInv, [Next]_vars
              PROVE  WindowInv'
  OBVIOUS
<1>hop. NoHop = -1 /\ NoNode \notin Nodes /\ HUB \in Nodes
  BY WakeAssumption DEF NoHop
<1>1. CASE Start
  <2>1. /\ parented' = {HUB} /\ Pending' = {} /\ todo' = {HUB}
        /\ phase' = "beacon" /\ UNCHANGED network
    BY <1>1 DEF Start, WindowInv, Contests, Pending
  <2>2. Tree'
    BY <1>1, <1>hop, <2>1 DEF Start, Tree, TypeOK, network
  <2>3. parented' \subseteq Reachable'
    BY <2>1, SameNetwork, HubReachable
  <2>4. Answers' /\ NobodyLeft' /\ Contests'
    BY <2>1 DEF Answers, NobodyLeft, Forgotten, Contests
  <2>. QED
    BY <2>2, <2>3, <2>4 DEF WindowInv
<1>2. ASSUME NEW b \in Nodes, Beacon(b)
      PROVE  WindowInv'
  <2>1. /\ UNCHANGED <<network, hop, parent, phase, parented>>
        /\ phase = "beacon" /\ b \in todo /\ todo' = todo \ {b}
        /\ UNCHANGED members
    BY <1>2 DEF Beacon, network
  <2>2. b \in parented /\ todo \subseteq parented
    BY <2>1 DEF WindowInv, Contests
  <2>3. \A n \in Nodes : pending'[n] = IF n \in Neighbours(b) \ parented /\ pending[n] = NoNode
                                       THEN b ELSE pending[n]
    BY <1>2 DEF Beacon
  <2>4. Neighbours(b) \subseteq members /\ members \subseteq Nodes
    BY DEF Neighbours, TypeOK
  <2>5. Pending' = Pending \cup (Neighbours(b) \ parented)
    BY <1>hop, <2>3, <2>4 DEF Pending
  <2>6. Tree' /\ parented' \subseteq Reachable'
    BY <2>1, SameNetwork DEF WindowInv, Tree
  <2>7. Answers'
    <3>. SUFFICES ASSUME NEW n \in Pending'
                  PROVE  /\ n \in members \ parented
                         /\ pending'[n] \in parented
                         /\ n \in Neighbours(pending'[n])
      BY <2>1, SameNetwork DEF Answers
    <3>1. n \in Nodes
      BY DEF Pending
    <3>. QED
      BY <2>2, <2>3, <2>4, <2>5, <3>1 DEF WindowInv, Answers, Pending
  <2>8. NobodyLeft'
    <3>1. ~ Forgotten
      BY <2>1 DEF WindowInv, NobodyLeft
    <3>2. ~ Forgotten'
      BY <2>1, <2>5, <3>1, SameNetwork DEF Forgotten
    <3>. QED
      BY <2>1, <3>2 DEF NobodyLeft
  <2>9. Contests'
    BY <2>1, <2>2 DEF Contests
  <2>. QED
    BY <2>6, <2>7, <2>8, <2>9 DEF WindowInv
<1>3. CASE Group
  <2>1. /\ UNCHANGED <<network, hop, parent, parented, pending>>
        /\ phase = "beacon" /\ phase' = "join"
        /\ todo' = {pending[n] : n \in Pending}
        /\ UNCHANGED members
    BY <1>3 DEF Group, network
  <2>2. Tree' /\ parented' \subseteq Reachable'
    BY <2>1, SameNetwork DEF WindowInv, Tree
  <2>3. Answers'
    BY <2>1, SameNetwork DEF WindowInv, Answers, Pending
  <2>4. NobodyLeft' /\ Contests'
    BY <2>1 DEF NobodyLeft, Contests, Pending
  <2>. QED
    BY <2>2, <2>3, <2>4 DEF WindowInv
<1>4. CASE Settle
  <2>1. /\ UNCHANGED <<network, hop, parent, todo, parented, pending>>
        /\ phase = "beacon" /\ phase' = "collect" /\ todo = {} /\ Pending = {}
        /\ UNCHANGED members
    BY <1>4 DEF Settle, network, locals
  <2>2. Tree' /\ parented' \subseteq Reachable'
    BY <2>1, SameNetwork DEF WindowInv, Tree
  <2>3. Answers'
    BY <2>1, SameNetwork DEF WindowInv, Answers, Pending
  <2>4. Complete
    BY <2>1 DEF WindowInv, NobodyLeft, Forgotten, Complete
  <2>5. Complete'
    BY <2>1, <2>4, SameNetwork DEF Complete
  <2>6. NobodyLeft' /\ Contests'
    BY <2>1, <2>5 DEF NobodyLeft, Contests, Pending
  <2>. QED
    BY <2>2, <2>3, <2>6 DEF WindowInv
<1>5. ASSUME NEW p \in Nodes, NEW w \in Nodes, Join(p, w)
      PROVE  WindowInv'
  <2>1. /\ UNCHANGED <<network, phase, members>>
        /\ phase = "join" /\ p \in todo /\ pending[w] = p
        /\ parented' = parented \cup {w} /\ todo' = todo \ {p}
    BY <1>5 DEF Join, network
  <2>2. /\ w \in members \ parented
        /\ p \in parented
        /\ w \in Neighbours(p)
    BY <1>hop, <2>1 DEF WindowInv, Answers, Pending
  <2>3. /\ parent'[w] = p /\ hop'[w] = hop[p] + 1
        /\ \A n \in Nodes \ {w} : parent'[n] = parent[n] /\ hop'[n] = hop[n]
        /\ pending' = [pending EXCEPT ![w] = NoNode]
    BY <1>5 DEF Join, TypeOK
  <2>4. /\ Pending' = Pending \ {w}
        /\ \A n \in Pending' : pending'[n] = pending[n]
    BY <2>3 DEF Pending, TypeOK
  <2>5. Tree
    BY <2>1 DEF WindowInv
  <2>6. Tree'
    <3>1. HUB \in parented' /\ parented' \subseteq members' /\ hop'[HUB] = 0
      BY <1>hop, <2>1, <2>2, <2>3, <2>5 DEF Tree
    <3>2. hop[p] \in Nat
      BY <1>hop, <2>2, <2>5 DEF Tree, TypeOK
    <3>3. \A n \in parented' : hop'[n] \in Nat
      BY <2>1, <2>2, <2>3, <2>5, <3>2 DEF Tree, TypeOK
    <3>4. ASSUME NEW n \in parented' \ {HUB}
          PROVE  /\ parent'[n] \in parented'
                 /\ n \in Neighbours(parent'[n])
                 /\ hop'[n] = hop'[parent'[n]] + 1
      <4>1. CASE n = w
        <5>1. p # w /\ hop'[p] = hop[p] /\ p \in parented'
          BY <2>1, <2>2, <2>3
        <5>. QED
          BY <2>2, <2>3, <4>1, <5>1
      <4>2. CASE n # w
        <5>1. /\ n \in parented \ {HUB} /\ n \in Nodes
              /\ parent[n] \in parented /\ parent[n] # w /\ parent[n] \in Nodes
              /\ n \in Neighbours(parent[n])
              /\ hop[n] = hop[parent[n]] + 1
          BY <2>1, <2>2, <2>5, <4>2 DEF Tree, TypeOK
        <5>. QED
          BY <2>1, <2>3, <4>2, <5>1
      <4>. QED
        BY <4>1, <4>2
    <3>5. \A n \in Nodes \ parented' : hop'[n] = NoHop
      BY <2>1, <2>3, <2>5 DEF Tree
    <3>. QED
      BY <2>1, <3>1, <3>3, <3>4, <3>5 DEF Tree, Neighbours, network
  <2>7. parented' \subseteq Reachable'
    <3>1. parented \subseteq Reachable
      BY <2>1 DEF WindowInv
    <3>2. w \in Reachable
      BY <2>2, <3>1, ReachStep
    <3>. QED
      BY <2>1, <3>1, <3>2, SameNetwork
  <2>8. Answers'
    <3>. SUFFICES ASSUME NEW n \in Pending'
                  PROVE  /\ n \in members \ parented'
                         /\ pending[n] \in parented'
                         /\ n \in Neighbours(pending[n])
      BY <2>1, <2>4, SameNetwork DEF Answers
    <3>. QED
      BY <2>1, <2>4 DEF WindowInv, Answers
  <2>9. NobodyLeft'
    BY <2>1 DEF NobodyLeft
  <2>10. Contests'
    <3>. SUFFICES ASSUME NEW q \in todo'
                  PROVE  \E n \in Pending' : pending'[n] = q
      BY <2>1 DEF Contests
    <3>1. PICK n \in Pending : pending[n] = q
      BY <2>1 DEF WindowInv, Contests
    <3>2. n # w
      BY <2>1, <3>1
    <3>. QED
      BY <2>4, <3>1, <3>2
  <2>. QED
    BY <2>6, <2>7, <2>8, <2>9, <2>10 DEF WindowInv
<1>6. CASE NextRound
  <2>1. /\ UNCHANGED <<network, hop, parent, parented, pending>>
        /\ phase = "join" /\ phase' = "beacon" /\ todo' = parented
        /\ UNCHANGED members
    BY <1>6 DEF NextRound, network
  <2>2. Tree' /\ parented' \subseteq Reachable'
    BY <2>1, SameNetwork DEF WindowInv, Tree
  <2>3. Answers'
    BY <2>1, SameNetwork DEF WindowInv, Answers, Pending
  <2>4. NobodyLeft' /\ Contests'
    BY <2>1 DEF NobodyLeft, Forgotten, Contests
  <2>. QED
    BY <2>2, <2>3, <2>4 DEF WindowInv
<1>7. CASE Collect
  <2>1. phase' = "idle" /\ parented' = {HUB} /\ todo' = {} /\ Pending' = {}
    BY <1>7 DEF Collect, WindowInv, Contests, Pending
  <2>. QED
    BY <2>1 DEF WindowInv, Answers, NobodyLeft, Contests
<1>8. ASSUME NEW m \in SUBSET Nodes, NEW l \in Layouts, Change(m, l)
      PROVE  WindowInv'
  <2>1. phase' = "idle" /\ parented' = {HUB} /\ todo' = {} /\ Pending' = {}
    BY <1>8 DEF Change, locals, WindowInv, Contests, Pending
  <2>. QED
    BY <2>1 DEF WindowInv, Answers, NobodyLeft, Contests
<1>9. CASE UNCHANGED vars
  <2>1. UNCHANGED <<network, members, hop, parent, phase, todo, parented, pending>>
    BY <1>9 DEF vars, network
  <2>2. Pending' = Pending /\ Reachable' = Reachable
        /\ \A n : Neighbours(n)' = Neighbours(n)
    BY <2>1, SameNetwork DEF Pending
  <2>. QED
    BY <2>1, <2>2 DEF WindowInv, Tree, Answers, NobodyLeft, Forgotten, Complete, Contests
<1>. QED
  BY <1>1, <1>2, <1>3, <1>4, <1>5, <1>6, <1>7, <1>8, <1>9 DEF Next, Window

LEMMA WindowInvInit == Init => WindowInv
BY DEF Init, WindowInv, Answers, NobodyLeft, Contests, Pending

(* In every open window the parented nodes are a tree rooted at the hub,   *)
(* within what is reachable, and no node in range of it is forgotten.      *)
THEOREM WindowSafe == Spec => []WindowInv
BY WindowTypeInit, WindowTypeStep, WindowInvInit, WindowInvStep, PTL DEF Spec

-----------------------------------------------------------------------------
(* When nobody is pending the tree is exactly what can be reached, and a   *)
(* hop count is what its members have and nobody else does.                *)
LEMMA CollectIsExact ==
  ASSUME TypeOK, WindowInv, phase = "collect"
  PROVE  /\ parented = Reachable
         /\ {n \in members \ {HUB} : hop[n] # NoHop} = parented \ {HUB}
<1>1. Tree /\ parented \subseteq Reachable /\ Complete
  BY DEF WindowInv, NobodyLeft
<1>2. Reachable \subseteq parented
  <2>1. parented \in SUBSET members /\ HUB \in parented /\ ClosedSet(parented)
    BY <1>1 DEF Tree, Complete, ClosedSet
  <2>. QED
    BY <2>1 DEF Reachable
<1>3. \A n \in members : n \notin parented => hop[n] = NoHop
  BY <1>1 DEF Tree, TypeOK
<1>4. \A n \in parented : hop[n] # NoHop
  <2>1. NoHop \notin Nat
    BY DEF NoHop
  <2>. QED
    BY <1>1, <2>1 DEF Tree
<1>. QED
  BY <1>1, <1>2, <1>3, <1>4 DEF Tree

LEMMA RoundStep ==
  TypeOK /\ WindowInv /\ [Next]_vars =>
    [phase = "collect" => frames' = Reachable \ {HUB}]_vars
<1>. SUFFICES ASSUME TypeOK, WindowInv, Next, phase = "collect"
              PROVE  frames' = Reachable \ {HUB}
  OBVIOUS
<1>1. Collect
  BY DEF Next, Window, Start, Beacon, Group, Settle, Join, NextRound, Change
<1>. QED
  BY <1>1, CollectIsExact DEF Collect

(* A round hears from exactly the nodes that can reach the hub now: the    *)
(* tree heals by being rebuilt, for every network and every contest.       *)
THEOREM RoundExact == Spec => RoundIsExact
BY WindowTyped, WindowSafe, RoundStep, PTL DEF Spec, RoundIsExact

LEMMA SameNeighbours == \A n : Growth!Neighbours(n) = Neighbours(n)
BY DEF Growth!Neighbours, Neighbours

LEMMA GrowthStep == TypeOK /\ WindowInv /\ [Next]_vars => [Growth!Next]_(Growth!vars)
<1>. SUFFICES ASSUME TypeOK, WindowInv, [Next]_vars
              PROVE  [Growth!Next]_(Growth!vars)
  OBVIOUS
<1>0. CASE UNCHANGED <<members, links, parented, frames>> /\ (phase' # "idle") = (phase # "idle")
  BY <1>0 DEF Growth!vars
<1>1. CASE Start
  <2>1. (phase' # "idle") = TRUE
    BY <1>1 DEF Start
  <2>2. Growth!Open
    BY <1>1, <2>1 DEF Start, Growth!Open, network
  <2>. QED
    BY <2>2 DEF Growth!Next
<1>2. ASSUME NEW p \in Nodes, NEW w \in Nodes, Join(p, w)
      PROVE  [Growth!Next]_(Growth!vars)
  <2>1. w \in members \ parented /\ p \in parented /\ w \in Neighbours(p)
    BY <1>2, WakeAssumption DEF Join, WindowInv, Answers, Pending
  <2>2. Growth!Attach(w)
    BY <1>2, <2>1, SameNeighbours DEF Join, Growth!Attach, network
  <2>. QED
    BY <2>2 DEF Growth!Next
<1>3. CASE Collect
  <2>1. phase = "collect" /\ Complete
    BY <1>3 DEF Collect, WindowInv, NobodyLeft
  <2>2. frames' = parented \ {HUB}
    BY <1>3, <2>1, CollectIsExact DEF Collect
  <2>3. Growth!Closed(parented)
    BY <2>1, SameNeighbours DEF Complete, Growth!Closed
  <2>4. Growth!Close
    BY <1>3, <2>1, <2>2, <2>3 DEF Collect, Growth!Close, network
  <2>. QED
    BY <2>4 DEF Growth!Next
<1>4. ASSUME NEW m \in SUBSET Nodes, NEW l \in Layouts, Change(m, l)
      PROVE  [Growth!Next]_(Growth!vars)
  <2>1. Growth!Disturb
    BY <1>4 DEF Change, locals, Growth!Disturb
  <2>. QED
    BY <2>1 DEF Growth!Next
<1>5. ASSUME NEW b \in Nodes, Beacon(b)
      PROVE  [Growth!Next]_(Growth!vars)
  BY <1>0, <1>5 DEF Beacon, network
<1>6. CASE Group \/ Settle \/ NextRound
  BY <1>0, <1>6 DEF Group, Settle, NextRound, network, locals
<1>7. CASE UNCHANGED vars
  BY <1>0, <1>7 DEF vars
<1>. QED
  BY <1>1, <1>2, <1>3, <1>4, <1>5, <1>6, <1>7 DEF Next, Window

(* A wake window implements the growth of a spanning tree.                 *)
THEOREM WindowGrowsTree == Spec => GrowsTree
<1>1. Init => Growth!Init
  BY DEF Init, Growth!Init
<1>. QED
  BY <1>1, WindowTyped, WindowSafe, GrowthStep, PTL DEF Spec, GrowsTree, Growth!Spec
=============================================================================

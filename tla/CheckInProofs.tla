--------------------------- MODULE CheckInProofs ---------------------------
(***************************************************************************)
(* Proofs about CheckIn, for any number of configurations, restarts and    *)
(* power losses and any lengths of the queues: types, that what the        *)
(* operator was told is set stays set, and that a board never goes back.   *)
(*                                                                         *)
(* The first argument is about the hub alone: numbers on disk, on the      *)
(* connection and handed out are in order, and a rolled-back number is     *)
(* none of them.  The second follows a configuration through its six       *)
(* places; most steps only take something out of a place, and the six that *)
(* put something in take it from the place before, or from the hub's view. *)
(***************************************************************************)
EXTENDS CheckIn, TLAPS

(* The configurations a queue holds for the board, and their order.        *)
LEMMA MineAppend == ASSUME NEW q \in Seq(Frame), NEW f \in Frame
                    PROVE Mine(Append(q, f)) =
                            Mine(q) \cup (IF f.to = "me" THEN {f.version} ELSE {})
<1>1. /\ Append(q, f) \in Seq(Frame) /\ Len(q) \in Nat
      /\ DOMAIN Append(q, f) = (DOMAIN q) \cup {Len(q) + 1}
      /\ \A i \in DOMAIN q : Append(q, f)[i] = q[i]
      /\ Append(q, f)[Len(q) + 1] = f
  OBVIOUS
<1>. QED  BY <1>1 DEF Mine

LEMMA MineTail == ASSUME NEW q \in Seq(Frame), q # <<>>
                  PROVE /\ Mine(Tail(q)) \subseteq Mine(q)
                        /\ Head(q) \in Frame /\ Tail(q) \in Seq(Frame)
                        /\ Head(q).to = "me" => Head(q).version \in Mine(q)
<1>1. Tail(q) \in Seq(Frame) /\ Len(Tail(q)) = Len(q) - 1 /\ Len(q) \in Nat \ {0}
  OBVIOUS
<1>2. \A i \in DOMAIN Tail(q) : Tail(q)[i] = q[i + 1] /\ i + 1 \in DOMAIN q
  BY <1>1
<1>3. Head(q) = q[1] /\ 1 \in DOMAIN q /\ q[1] \in Frame
  BY <1>1
<1>. QED  BY <1>1, <1>2, <1>3 DEF Mine

LEMMA MineEmpty == Mine(<<>>) = {} /\ InOrder(<<>>)
BY DEF Mine, InOrder

LEMMA OrderTail == ASSUME NEW q \in Seq(Frame), q # <<>>, InOrder(q)
                   PROVE /\ InOrder(Tail(q))
                         /\ Head(q).to = "me" => Precedes({Head(q).version}, Mine(Tail(q)))
<1>1. Tail(q) \in Seq(Frame) /\ Len(Tail(q)) = Len(q) - 1 /\ Len(q) \in Nat \ {0}
  OBVIOUS
<1>2. \A i \in DOMAIN Tail(q) : Tail(q)[i] = q[i + 1] /\ i + 1 \in DOMAIN q /\ i \in Nat /\ 1 < i + 1
  BY <1>1
<1>3. Head(q) = q[1] /\ 1 \in DOMAIN q
  BY <1>1
<1>4. InOrder(Tail(q))
  BY <1>2 DEF InOrder
<1>5. ASSUME Head(q).to = "me"
      PROVE Precedes({Head(q).version}, Mine(Tail(q)))
  BY <1>2, <1>3, <1>5 DEF InOrder, Precedes, Mine
<1>. QED  BY <1>4, <1>5

LEMMA OrderAppend == ASSUME NEW q \in Seq(Frame), NEW f \in Frame, InOrder(q),
                            f.to = "me" => Precedes(Mine(q), {f.version})
                     PROVE InOrder(Append(q, f))
<1>1. /\ Append(q, f) \in Seq(Frame) /\ Len(q) \in Nat
      /\ DOMAIN q = 1 .. Len(q)
      /\ DOMAIN Append(q, f) = 1 .. (Len(q) + 1)
      /\ \A i \in DOMAIN q : Append(q, f)[i] = q[i]
      /\ Append(q, f)[Len(q) + 1] = f
  OBVIOUS
<1>. SUFFICES ASSUME NEW i \in DOMAIN Append(q, f), NEW j \in DOMAIN Append(q, f), i < j,
                     Append(q, f)[i].to = "me", Append(q, f)[j].to = "me",
                     Append(q, f)[j].version < Append(q, f)[i].version
              PROVE Append(q, f)[i].version \in lost
  BY DEF InOrder
<1>2. i \in DOMAIN q
  BY <1>1
<1>3. CASE j \in DOMAIN q
  BY <1>1, <1>2, <1>3 DEF InOrder
<1>4. CASE j = Len(q) + 1
  <2>1. q[i].version \in Mine(q)
    BY <1>1, <1>2 DEF Mine
  <2>. QED  BY <1>1, <1>2, <1>4, <2>1 DEF Precedes
<1>. QED  BY <1>1, <1>3, <1>4

-----------------------------------------------------------------------------
(* Every variable keeps its type, and the radio's queue its depth.         *)
THEOREM CheckInTyped == Spec => []TypeOK
<1>. USE CheckInAssumption DEF TypeOK, Versions
<1>1. Init => TypeOK
  BY DEF Init, Reading
<1>2. TypeOK /\ [Next]_vars => TypeOK'
  <2>. SUFFICES ASSUME TypeOK, [Next]_vars
                PROVE TypeOK'
    OBVIOUS
  <2>1. CASE SetStore
    BY <2>1 DEF SetStore, line, board
  <2>2. ASSUME NEW v \in Versions, SetCommit(v)
        PROVE TypeOK'
    BY <2>2 DEF SetCommit, line, board
  <2>3. CASE PollIngest
    <3>1. Head(uplink) \in {"me", "other"} /\ Tail(uplink) \in Seq({"me", "other"})
      BY <2>3 DEF PollIngest
    <3>. QED  BY <2>3, <3>1 DEF PollIngest, board
  <2>4. CASE PollNoConfig
    BY <2>4 DEF PollNoConfig, Reading, hub, line, board
  <2>5. CASE PollConfig
    <3>1. poll' = [at |-> "push", from |-> poll.from,
                   version |-> IF poll.from = "me" THEN desired ELSE 0]
      BY <2>5 DEF PollConfig
    <3>2. (IF poll.from = "me" THEN desired ELSE 0) \in Versions
      OBVIOUS
    <3>3. poll' \in [at : {"read", "config", "push"}, from : {"me", "other"}, version : Versions]
      BY <3>1, <3>2
    <3>. QED  BY <2>5, <3>3 DEF PollConfig, hub, line, board
  <2>6. CASE PollPush
    <3>1. [to |-> poll.from, version |-> poll.version] \in Frame
      BY DEF Frame
    <3>2. Append(downlink, [to |-> poll.from, version |-> poll.version]) \in Seq(Frame)
      BY <3>1
    <3>. QED  BY <2>6, <3>2 DEF PollPush, Reading, hub, board
  <2>7. CASE Restart
    <3>1. restarts' \in 0 .. MaxRestarts
      BY <2>7 DEF Restart
    <3>2. lost' \subseteq Versions
      BY <2>7 DEF Restart
    <3>3. uplink' \in Seq({"me", "other"})
      BY <2>7 DEF Restart
    <3>. QED  BY <2>7, <3>1, <3>2, <3>3 DEF Restart, Reading, board
  <2>8. ASSUME NEW f \in Frame, Receive(f)
        PROVE inbox' \in Seq(Frame) /\ Len(inbox') <= QueueCap
    <3>1. Append(inbox, f) \in Seq(Frame) /\ Len(Append(inbox, f)) = Len(inbox) + 1
          /\ Len(inbox) \in Nat
      OBVIOUS
    <3>. QED  BY <2>8, <3>1 DEF Receive
  <2>9. CASE BeaconHeard
    <3>1. Beacon \in Frame
      BY DEF Beacon, Frame
    <3>. QED  BY <2>8, <2>9, <3>1 DEF BeaconHeard, hub, line
  <2>10. CASE RelayHeard
    <3>1. Head(downlink) \in Frame /\ Tail(downlink) \in Seq(Frame)
      BY <2>10, MineTail DEF RelayHeard
    <3>. QED  BY <2>8, <2>10, <3>1 DEF RelayHeard, hub
  <2>11. CASE RelayMissed
    <3>1. Tail(downlink) \in Seq(Frame)
      BY <2>11, MineTail DEF RelayMissed
    <3>. QED  BY <2>11, <3>1 DEF RelayMissed, hub, board
  <2>12. CASE OtherReports
    <3>1. Append(uplink, "other") \in Seq({"me", "other"})
      OBVIOUS
    <3>. QED  BY <2>12, <3>1 DEF OtherReports, hub, board
  <2>13. ASSUME inbox # <<>>
         PROVE /\ Tail(inbox) \in Seq(Frame) /\ Len(Tail(inbox)) <= QueueCap
               /\ Head(inbox).version \in Versions
    <3>1. Tail(inbox) \in Seq(Frame) /\ Len(Tail(inbox)) = Len(inbox) - 1 /\ Len(inbox) \in Nat
      BY <2>13
    <3>2. Head(inbox) \in Frame
      BY <2>13
    <3>. QED  BY <3>1, <3>2 DEF Frame
  <2>14. <<>> \in Seq(Frame) /\ Len(<<>>) <= QueueCap
    OBVIOUS
  <2>15. CASE Wake
    BY <2>14, <2>15 DEF Wake, hub, line
  <2>16. CASE Listen
    BY <2>13, <2>16 DEF Listen, hub, line
  <2>17. CASE NoParent
    BY <2>14, <2>17 DEF NoParent, hub, line
  <2>18. CASE ReportHeard
    <3>1. Append(uplink, "me") \in Seq({"me", "other"})
      OBVIOUS
    <3>. QED  BY <2>18, <3>1 DEF ReportHeard, hub
  <2>19. CASE ReportLost
    BY <2>19 DEF ReportLost, hub, line
  <2>20. CASE Hear
    BY <2>13, <2>20 DEF Hear, hub, line
  <2>21. CASE TimeOut
    BY <2>21 DEF TimeOut, hub, line
  <2>22. CASE SetWake
    BY <2>22 DEF SetWake, hub, line
  <2>23. CASE SetDry
    BY <2>14, <2>23 DEF SetDry, hub, line
  <2>24. CASE PowerLoss
    BY <2>14, <2>24 DEF PowerLoss, hub, line
  <2>25. CASE UNCHANGED vars
    BY <2>25 DEF vars
  <2>. QED
    BY <2>1, <2>2, <2>3, <2>4, <2>5, <2>6, <2>7, <2>9, <2>10, <2>11, <2>12, <2>15, <2>16,
       <2>17, <2>18, <2>19, <2>20, <2>21, <2>22, <2>23, <2>24, <2>25
       DEF Next, Poll, Web, Air, Leaf
<1>. QED  BY <1>1, <1>2, PTL DEF Spec

-----------------------------------------------------------------------------
(* What the operator was told is set is on disk, and no restart takes it   *)
(* back.                                                                   *)
Settled == Committing /\ AckedIsDurable

LEMMA SettledInit == Init => Settled
BY DEF Init, Settled, Committing, AckedIsDurable

LEMMA SettledStep == TypeOK /\ Settled /\ [Next]_vars => Settled'
<1>. USE DEF Settled, Committing, AckedIsDurable
<1>. SUFFICES ASSUME TypeOK, Settled, [Next]_vars
              PROVE Settled'
  OBVIOUS
<1>0. /\ version \in Nat /\ desired \in Nat /\ saved \in Nat /\ acked \in Nat
      /\ setting \subseteq Nat /\ lost \subseteq Nat
  BY DEF TypeOK, Versions
<1>1. CASE SetStore
  BY <1>0, <1>1 DEF SetStore
<1>2. ASSUME NEW v \in Versions, SetCommit(v)
      PROVE Settled'
  BY <1>0, <1>2 DEF SetCommit
<1>3. CASE PollIngest
  BY <1>0, <1>3 DEF PollIngest
<1>4. CASE Restart
  <2>1. /\ desired' = saved /\ saved' = saved /\ version' = version /\ acked' = acked
        /\ setting' = {} /\ lost' = lost \cup ((saved + 1) .. desired)
    BY <1>4 DEF Restart
  <2>2. \A n \in (saved + 1) .. desired : n \in 1 .. version /\ saved < n
    BY <1>0
  <2>3. saved \notin lost' /\ acked \notin lost' /\ lost' \subseteq 1 .. version
    BY <1>0, <2>1, <2>2
  <2>. QED  BY <1>0, <2>1, <2>3
<1>5. CASE UNCHANGED hub
  BY <1>5 DEF hub
<1>6. Next => \/ SetStore \/ (\E v \in Versions : SetCommit(v)) \/ PollIngest \/ Restart
              \/ UNCHANGED hub
  BY DEF Next, Poll, Web, Air, Leaf, PollNoConfig, PollConfig, PollPush, BeaconHeard,
         RelayHeard, RelayMissed, OtherReports, Wake, Listen, NoParent, ReportHeard,
         ReportLost, Hear, TimeOut, SetWake, SetDry, PowerLoss
<1>7. UNCHANGED vars => UNCHANGED hub
  BY DEF vars, hub
<1>. QED  BY <1>1, <1>2, <1>3, <1>4, <1>5, <1>6, <1>7

LEMMA CheckInSettled == Spec => []Settled
BY CheckInTyped, SettledInit, SettledStep, PTL DEF Spec

THEOREM CheckInDurable == Spec => []AckedIsDurable
<1>1. Settled => AckedIsDurable
  BY DEF Settled
<1>. QED  BY <1>1, CheckInSettled, PTL

-----------------------------------------------------------------------------
(* A step that only takes something out of the places, or moves what the   *)
(* board is taking into its flash, keeps the order.                        *)
LEMMA Shrinks ==
  ASSUME TypeOK, Ordered, version' = version, desired' = desired, lost' = lost,
         Keys' \subseteq Keys \cup Taken, Taken' \subseteq Taken, Asked' \subseteq Asked,
         Mine(inbox)' \subseteq Mine(inbox), Mine(downlink)' \subseteq Mine(downlink),
         InOrder(inbox)', InOrder(downlink)'
  PROVE  Ordered'
<1>1. \A x, y \in Taken : x = y
  BY DEF Taken
<1>2. Keys \cup Taken \subseteq Nat
  BY DEF TypeOK, Versions, Keys, Taken
<1>3. Precedes(Keys, Taken)'
  BY <1>1, <1>2 DEF Ordered, Precedes
<1>. QED  BY <1>3 DEF Ordered, Precedes

LEMMA OrderedInit == Init => Ordered
BY MineEmpty DEF Init, Ordered, Precedes, Keys, Taken, Asked, Reading

(* The operator's newest is newer than everything in the six places.       *)
LEMMA OrderedSetStore == ASSUME TypeOK, Ordered, SetStore
                         PROVE Ordered'
<1>0. /\ version \in Nat /\ version' = version + 1 /\ desired' = version + 1
      /\ lost' = lost /\ UNCHANGED <<poll, downlink, board>>
  BY DEF SetStore, TypeOK, Versions, line
<1>1. /\ Keys' = Keys /\ Taken' = Taken /\ Asked' = Asked
      /\ Mine(inbox)' = Mine(inbox) /\ Mine(downlink)' = Mine(downlink)
      /\ InOrder(inbox)' = InOrder(inbox) /\ InOrder(downlink)' = InOrder(downlink)
  BY <1>0 DEF board, Keys, Taken, Asked, Mine, InOrder
<1>. DEFINE All == Keys \cup Taken \cup Mine(inbox) \cup Mine(downlink) \cup Asked
<1>2. \A x \in All : x \in Nat /\ ~ (version + 1 < x) /\ x <= version + 1
  BY <1>0 DEF Ordered
<1>3. Precedes(All, {desired})'
  BY <1>0, <1>1, <1>2 DEF Precedes
<1>4. All' \subseteq 0 .. version'
  BY <1>0, <1>1, <1>2
<1>5. \A S, T : Precedes(S, T) => \A x \in S, y \in T : y < x => x \in lost'
  BY <1>0 DEF Precedes
<1>. QED  BY <1>0, <1>1, <1>3, <1>4 DEF Ordered, Precedes

(* The poll thread reads what the hub wants ...                            *)
LEMMA OrderedPollConfig == ASSUME TypeOK, Settled, Ordered, PollConfig
                           PROVE Ordered'
<1>0. UNCHANGED <<version, desired, lost, downlink, board>>
  BY DEF PollConfig, hub, line
<1>1. /\ Keys' = Keys /\ Taken' = Taken
      /\ Mine(inbox)' = Mine(inbox) /\ Mine(downlink)' = Mine(downlink)
      /\ InOrder(inbox)' = InOrder(inbox) /\ InOrder(downlink)' = InOrder(downlink)
  BY <1>0 DEF board, Keys, Taken, Mine, InOrder
<1>2. Asked' \subseteq {desired}
  BY DEF PollConfig, Asked, TypeOK
<1>3. desired \in 0 .. version
  BY DEF Settled, Committing, TypeOK, Versions
<1>. DEFINE All == Keys \cup Taken \cup Mine(inbox) \cup Mine(downlink)
<1>4. Precedes(All, {desired}) /\ All \subseteq 0 .. version
  BY DEF Ordered, Precedes
<1>5. Precedes(All, Asked)' /\ Precedes(All, {desired})'
  BY <1>0, <1>1, <1>2, <1>4 DEF Precedes
<1>6. Precedes(Asked, {desired})' /\ Asked' \subseteq 0 .. version'
  BY <1>0, <1>2, <1>3 DEF Precedes
<1>7. Precedes(All \cup Asked, {desired})'
  BY <1>5, <1>6 DEF Precedes
<1>8. /\ Precedes(Keys, Taken)' /\ Precedes(Keys \cup Taken, Mine(inbox))'
      /\ Precedes(Keys \cup Taken \cup Mine(inbox), Mine(downlink))'
      /\ InOrder(inbox)' /\ InOrder(downlink)'
  BY <1>0, <1>1 DEF Ordered, Precedes
<1>. QED  BY <1>0, <1>1, <1>4, <1>5, <1>6, <1>7, <1>8 DEF Ordered

(* ... and puts it behind what is in the line.                             *)
LEMMA OrderedPollPush == ASSUME TypeOK, Ordered, PollPush
                         PROVE Ordered'
<1>. DEFINE f == [to |-> poll.from, version |-> poll.version]
<1>0. /\ UNCHANGED <<version, desired, lost, board>>
      /\ downlink' = Append(downlink, f) /\ downlink \in Seq(Frame) /\ f \in Frame
      /\ poll.at = "push"
  BY DEF PollPush, hub, TypeOK, Frame
<1>1. /\ Keys' = Keys /\ Taken' = Taken /\ Mine(inbox)' = Mine(inbox)
      /\ InOrder(inbox)' = InOrder(inbox)
  BY <1>0 DEF board, Keys, Taken, Mine, InOrder
<1>2. Asked' = {}
  BY DEF PollPush, Reading, Asked
<1>3. f.to = "me" => Asked = {f.version}
  BY <1>0 DEF Asked
<1>4. Mine(downlink)' \subseteq Mine(downlink) \cup Asked
  BY <1>0, <1>3, MineAppend
<1>5. f.to = "me" => Precedes(Mine(downlink), {f.version})
  BY <1>3 DEF Ordered, Precedes
<1>6. InOrder(downlink)'
  <2>1. InOrder(Append(downlink, f))
    BY <1>0, <1>5, OrderAppend DEF Ordered
  <2>. QED  BY <1>0, <2>1 DEF InOrder
<1>. QED  BY <1>0, <1>1, <1>2, <1>4, <1>6 DEF Ordered, Precedes

(* What a restart takes back is lost, wherever it has got to.              *)
LEMMA OrderedRestart == ASSUME TypeOK, Settled, Ordered, Restart
                        PROVE Ordered'
<1>0. /\ version' = version /\ desired' = saved
      /\ lost' = lost \cup ((saved + 1) .. desired) /\ UNCHANGED <<downlink, board>>
      /\ saved \in Nat /\ desired \in Nat /\ version \in Nat
  BY DEF Restart, TypeOK, Versions
<1>1. /\ Keys' = Keys /\ Taken' = Taken
      /\ Mine(inbox)' = Mine(inbox) /\ Mine(downlink)' = Mine(downlink)
  BY <1>0 DEF board, Keys, Taken, Mine
<1>2. Asked' = {}
  BY DEF Restart, Reading, Asked
<1>3. InOrder(inbox)' /\ InOrder(downlink)'
  BY <1>0 DEF board, InOrder, Ordered
<1>. DEFINE All == Keys \cup Taken \cup Mine(inbox) \cup Mine(downlink)
<1>4. Precedes(All, {desired})'
  <2>1. \A x \in All : x \in Nat /\ (desired < x => x \in lost)
    BY <1>0 DEF Ordered, Precedes
  <2>2. \A x \in All : saved < x => x \in lost'
    BY <1>0, <2>1
  <2>. QED  BY <1>0, <1>1, <2>2 DEF Precedes
<1>. QED  BY <1>0, <1>1, <1>2, <1>3, <1>4 DEF Ordered, Precedes

(* A frame leaves the line at its head and joins the board's queue at its  *)
(* end.                                                                    *)
LEMMA OrderedRelay == ASSUME TypeOK, Ordered, RelayHeard
                      PROVE Ordered'
<1>. DEFINE f == Head(downlink)
<1>0. /\ UNCHANGED <<version, desired, lost, poll, step, taking, wake, dry>>
      /\ downlink # <<>> /\ downlink' = Tail(downlink) /\ downlink \in Seq(Frame)
      /\ inbox \in Seq(Frame)
      /\ inbox' \in {inbox, Append(inbox, f)}
      /\ f \in Frame
  BY DEF RelayHeard, Receive, hub, TypeOK
<1>1. Keys' = Keys /\ Taken' = Taken /\ Asked' = Asked
  BY <1>0 DEF Keys, Taken, Asked
<1>. DEFINE New == IF f.to = "me" THEN {f.version} ELSE {}
<1>2. New \subseteq Mine(downlink) /\ Mine(downlink)' \subseteq Mine(downlink)
  BY <1>0, MineTail
<1>3. Mine(inbox)' \subseteq Mine(inbox) \cup New
  BY <1>0, MineAppend
<1>4. InOrder(Tail(downlink)) /\ Precedes(New, Mine(downlink'))
  BY <1>0, OrderTail DEF Ordered, Precedes
<1>5. InOrder(downlink)'
  BY <1>0, <1>4 DEF InOrder
<1>6. f.to = "me" => Precedes(Mine(inbox), {f.version})
  BY <1>2 DEF Ordered, Precedes
<1>7. InOrder(inbox)'
  <2>1. InOrder(Append(inbox, f))
    BY <1>0, <1>6, OrderAppend DEF Ordered
  <2>. QED  BY <1>0, <2>1 DEF InOrder, Ordered
<1>. QED  BY <1>0, <1>1, <1>2, <1>3, <1>4, <1>5, <1>7 DEF Ordered, Precedes

(* A beacon is no configuration.                                           *)
LEMMA OrderedBeacon == ASSUME TypeOK, Ordered, BeaconHeard
                       PROVE Ordered'
<1>0. /\ UNCHANGED <<version, desired, lost, poll, downlink, step, taking, wake, dry>>
      /\ inbox \in Seq(Frame) /\ inbox' \in {inbox, Append(inbox, Beacon)}
  BY DEF BeaconHeard, Receive, hub, line, TypeOK
<1>1. Beacon \in Frame /\ Beacon.to # "me"
  BY CheckInAssumption DEF Beacon, Frame, Versions, CheckInAssumption
<1>2. Mine(inbox)' = Mine(inbox)
  BY <1>0, <1>1, MineAppend
<1>3. InOrder(inbox)'
  <2>1. InOrder(Append(inbox, Beacon))
    BY <1>0, <1>1, OrderAppend DEF Ordered
  <2>. QED  BY <1>0, <2>1 DEF InOrder, Ordered
<1>4. /\ Keys' = Keys /\ Taken' = Taken /\ Asked' = Asked
      /\ Mine(downlink)' = Mine(downlink) /\ InOrder(downlink)' = InOrder(downlink)
  BY <1>0 DEF Keys, Taken, Asked, Mine, InOrder
<1>. QED  BY <1>0, <1>2, <1>3, <1>4, Shrinks DEF Ordered

(* The board takes the first frame of its queue, and what is behind it is  *)
(* no older.                                                               *)
LEMMA OrderedHear == ASSUME TypeOK, Ordered, Hear
                     PROVE Ordered'
<1>0. /\ UNCHANGED <<version, desired, lost, poll, downlink, wake, dry>>
      /\ inbox # <<>> /\ inbox \in Seq(Frame) /\ inbox' = Tail(inbox)
  BY DEF Hear, hub, line, TypeOK
<1>1. /\ Keys' = Keys /\ Asked' = Asked /\ Mine(downlink)' = Mine(downlink)
      /\ InOrder(downlink)' = InOrder(downlink)
  BY <1>0 DEF Keys, Asked, Mine, InOrder
<1>. DEFINE New == IF Head(inbox).to = "me" THEN {Head(inbox).version} ELSE {}
<1>2. Taken' = New
  BY DEF Hear, Taken
<1>3. New \subseteq Mine(inbox) /\ Mine(inbox)' \subseteq Mine(inbox)
  BY <1>0, MineTail
<1>4. InOrder(Tail(inbox)) /\ Precedes(New, Mine(inbox'))
  BY <1>0, OrderTail DEF Ordered, Precedes
<1>5. InOrder(inbox)'
  BY <1>0, <1>4 DEF InOrder
<1>. QED  BY <1>0, <1>1, <1>2, <1>3, <1>4, <1>5 DEF Ordered, Precedes

-----------------------------------------------------------------------------
LEMMA OrderedStep == TypeOK /\ Settled /\ Ordered /\ [Next]_vars => Ordered'
<1>. SUFFICES ASSUME TypeOK, Settled, Ordered, [Next]_vars
              PROVE Ordered'
  OBVIOUS
<1>1. CASE SetStore
  BY <1>1, OrderedSetStore
<1>2. CASE PollConfig
  BY <1>2, OrderedPollConfig
<1>3. CASE PollPush
  BY <1>3, OrderedPollPush
<1>4. CASE Restart
  BY <1>4, OrderedRestart
<1>5. CASE RelayHeard
  BY <1>5, OrderedRelay
<1>6. CASE BeaconHeard
  BY <1>6, OrderedBeacon
<1>7. CASE Hear
  BY <1>7, OrderedHear
<1>. DEFINE Still == UNCHANGED <<version, desired, lost, downlink>>
            Flash == Keys' \subseteq Keys \cup Taken /\ Taken' \subseteq Taken
            Queue == inbox' \in {inbox, <<>>} \/ (inbox # <<>> /\ inbox' = Tail(inbox))
<1>8. ASSUME Still, Flash, Queue, Asked' \subseteq Asked
      PROVE Ordered'
  <2>1. inbox \in Seq(Frame) /\ InOrder(inbox) /\ InOrder(downlink)
    BY DEF TypeOK, Ordered
  <2>2. Mine(inbox)' \subseteq Mine(inbox)
    BY <1>8, <2>1, MineTail, MineEmpty
  <2>3. InOrder(inbox')
    BY <1>8, <2>1, OrderTail, MineEmpty
  <2>4. InOrder(inbox)'
    <3>1. CASE inbox' = inbox
      BY <1>8, <2>1, <3>1 DEF InOrder
    <3>2. CASE inbox' = <<>>
      BY <3>2 DEF InOrder
    <3>3. CASE inbox # <<>> /\ inbox' = Tail(inbox)
      <4>1. InOrder(Tail(inbox))
        BY <2>1, <3>3, OrderTail
      <4>. QED  BY <1>8, <3>3, <4>1 DEF InOrder
    <3>. QED  BY <1>8, <3>1, <3>2, <3>3
  <2>5. Mine(downlink)' = Mine(downlink) /\ InOrder(downlink)'
    BY <1>8, <2>1 DEF Mine, InOrder
  <2>. QED  BY <1>8, <2>2, <2>4, <2>5, Shrinks
<1>9. ASSUME UNCHANGED <<version, desired, lost, board>>, Asked' \subseteq Asked,
             downlink' = downlink \/ (downlink # <<>> /\ downlink' = Tail(downlink))
      PROVE Ordered'
  <2>1. downlink \in Seq(Frame) /\ InOrder(downlink)
    BY DEF TypeOK, Ordered
  <2>2. Mine(downlink)' \subseteq Mine(downlink)
    BY <1>9, <2>1, MineTail
  <2>3. InOrder(downlink)'
    <3>1. CASE downlink' = downlink
      BY <1>9, <2>1, <3>1 DEF InOrder
    <3>2. CASE downlink # <<>> /\ downlink' = Tail(downlink)
      <4>1. InOrder(Tail(downlink))
        BY <2>1, <3>2, OrderTail
      <4>. QED  BY <1>9, <3>2, <4>1 DEF InOrder
    <3>. QED  BY <1>9, <3>1, <3>2
  <2>4. /\ Keys' = Keys /\ Taken' = Taken /\ Mine(inbox)' = Mine(inbox)
        /\ InOrder(inbox)' = InOrder(inbox)
    BY <1>9 DEF board, Keys, Taken, Mine, InOrder
  <2>. QED  BY <1>9, <2>2, <2>3, <2>4, Shrinks DEF Ordered
<1>10. ASSUME NEW v \in Versions, SetCommit(v)
       PROVE Ordered'
  BY <1>9, <1>10 DEF SetCommit, line, Asked
<1>11. CASE PollIngest
  BY <1>9, <1>11 DEF PollIngest, Asked
<1>12. CASE PollNoConfig
  BY <1>9, <1>12 DEF PollNoConfig, Reading, Asked, hub, line
<1>13. CASE RelayMissed
  BY <1>9, <1>13 DEF RelayMissed, Asked, hub
<1>14. CASE OtherReports
  BY <1>9, <1>14 DEF OtherReports, Asked, hub
<1>15. CASE Wake
  BY <1>8, <1>15 DEF Wake, hub, line, Asked, Keys, Taken
<1>16. CASE Listen
  BY <1>8, <1>16 DEF Listen, hub, line, Asked, Keys, Taken
<1>17. CASE NoParent
  BY <1>8, <1>17 DEF NoParent, hub, line, Asked, Keys, Taken
<1>18. CASE ReportHeard
  BY <1>8, <1>18 DEF ReportHeard, hub, Asked, Keys, Taken
<1>19. CASE ReportLost
  BY <1>8, <1>19 DEF ReportLost, hub, line, Asked, Keys, Taken
<1>20. CASE TimeOut
  BY <1>8, <1>20 DEF TimeOut, hub, line, Asked, Keys, Taken
<1>21. CASE SetWake
  BY <1>8, <1>21 DEF SetWake, hub, line, Asked, Keys, Taken
<1>22. CASE SetDry
  BY <1>8, <1>22 DEF SetDry, hub, line, Asked, Keys, Taken
<1>23. CASE PowerLoss
  BY <1>8, <1>23 DEF PowerLoss, hub, line, Asked, Keys, Taken
<1>24. CASE UNCHANGED vars
  BY <1>9, <1>24 DEF vars, board, Asked
<1>. QED
  BY <1>1, <1>2, <1>3, <1>4, <1>5, <1>6, <1>7, <1>10, <1>11, <1>12, <1>13, <1>14, <1>15,
     <1>16, <1>17, <1>18, <1>19, <1>20, <1>21, <1>22, <1>23, <1>24
     DEF Next, Poll, Web, Air, Leaf

LEMMA CheckInOrdered == Spec => []Ordered
BY CheckInTyped, CheckInSettled, OrderedInit, OrderedStep, PTL DEF Spec

(* A board's configuration goes back only from one that the hub has lost.  *)
THEOREM CheckInNeverBack == Spec => NeverBack
<1>. DEFINE Forward == /\ wake' < wake => wake \in lost
                       /\ dry' < dry => dry \in lost
<1>1. TypeOK /\ Ordered /\ [Next]_vars => Forward
  <2>. SUFFICES ASSUME TypeOK, Ordered, [Next]_vars
                PROVE Forward
    OBVIOUS
  <2>1. wake \in Nat /\ dry \in Nat
    BY DEF TypeOK, Versions
  <2>2. CASE SetWake
    <3>1. wake' = taking /\ dry' = dry /\ taking \in Taken /\ wake \in Keys
      BY <2>2 DEF SetWake, Taken, Keys
    <3>. QED  BY <2>1, <3>1 DEF Ordered, Precedes
  <2>3. CASE SetDry
    <3>1. dry' = taking /\ wake' = wake /\ taking \in Taken /\ dry \in Keys
      BY <2>3 DEF SetDry, Taken, Keys
    <3>. QED  BY <2>1, <3>1 DEF Ordered, Precedes
  <2>4. CASE UNCHANGED <<wake, dry>>
    BY <2>1, <2>4
  <2>5. Next => SetWake \/ SetDry \/ UNCHANGED <<wake, dry>>
    BY DEF Next, Poll, Web, Air, Leaf, SetStore, SetCommit, PollIngest, PollNoConfig,
           PollConfig, PollPush, Restart, BeaconHeard, RelayHeard, RelayMissed, OtherReports,
           Wake, Listen, NoParent, ReportHeard, ReportLost, Hear, TimeOut, PowerLoss, board
  <2>. QED  BY <2>2, <2>3, <2>4, <2>5 DEF vars
<1>2. TypeOK /\ Ordered /\ [Next]_vars => [Forward]_vars
  BY <1>1
<1>3. Spec => [][Forward]_vars
  BY <1>2, CheckInTyped, CheckInOrdered, PTL DEF Spec
<1>. QED  BY <1>3 DEF NeverBack
=============================================================================

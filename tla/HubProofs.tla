----------------------------- MODULE HubProofs -----------------------------
(***************************************************************************)
(* What the hub keeps for every number of threads, requests and addresses. *)
(***************************************************************************)
EXTENDS Hub, TLAPS

(* The type invariant's preservation, one step per action.                 *)
LEMMA TypeStep == TypeOK /\ [Next]_vars => TypeOK'
<1>. SUFFICES ASSUME TypeOK, [Next]_vars
              PROVE  TypeOK'
  OBVIOUS
<1>. USE HubAssumption DEF TypeOK, Tables, Ids, Row, Config, Sighting,
         PollSteps, WorkerSteps, HUB_ID, store, pollVars, webVars, history
<1>factory. NoFactory \in FactoryIds
  BY DEF NoFactory
<1>1. ASSUME NEW f \in FactoryIds, NEW s \in {"near", "far"}, PollAnnounce(f, s)
      PROVE  TypeOK'
  BY <1>1 DEF PollAnnounce
<1>2. ASSUME NEW s \in Senders, PollData(s)
      PROVE  TypeOK'
  BY <1>2 DEF PollData
<1>3. CASE PollBadData
  BY <1>3 DEF PollBadData, PollTo
<1>4. CASE PollUpsert
  BY <1>4 DEF PollUpsert, PollTo
<1>5. CASE PollReading
  BY <1>5 DEF PollReading, PollTo
<1>6. CASE PollCommit
  BY <1>6 DEF PollCommit, PollTo
<1>7. CASE PollNoConfig
  BY <1>7 DEF PollNoConfig, PollTo
<1>8. CASE PollConfig
  BY <1>8 DEF PollConfig, PollTo
<1>9. CASE PollPush
  BY <1>9 DEF PollPush, PollTo
<1>10. ASSUME NEW w \in Workers, Web(w)
       PROVE  TypeOK'
  <2>1. ASSUME NEW f \in FactoryIds, ClaimRead(w, f)
        PROVE  TypeOK'
    BY <2>1 DEF ClaimRead, WorkerTo
  <2>2. CASE ClaimInsert(w)
    <3>1. db' \in Tables
      BY <2>2 DEF ClaimInsert
    <3>2. named' \subseteq FactoryIds
      BY <2>2 DEF ClaimInsert
    <3>3. pc' \in [Workers -> WorkerSteps]
      BY <2>2 DEF ClaimInsert, WorkerTo
    <3>. QED
      BY <2>2, <3>1, <3>2, <3>3 DEF ClaimInsert
  <2>3. CASE ClaimRefused(w)
    BY <2>3, <1>factory DEF ClaimRefused, Finish, WorkerTo
  <2>4. CASE ClaimCommit(w)
    BY <2>4 DEF ClaimCommit, WorkerTo
  <2>5. CASE ClaimPop(w)
    BY <2>5 DEF ClaimPop, WorkerTo
  <2>6. CASE ClaimSend(w)
    <3>1. claims' \in [Ids -> Nat]
      <4>1. claims[id[w]] + 1 \in Nat
        OBVIOUS
      <4>. QED
        BY <2>6, <4>1 DEF ClaimSend
    <3>2. /\ pc' \in [Workers -> WorkerSteps]
          /\ id' \in [Workers -> Ids]
          /\ fac' \in [Workers -> FactoryIds]
          /\ known' \in [Workers -> SUBSET Ids]
      BY <2>6, <1>factory DEF ClaimSend, Finish, WorkerTo
    <3>. QED
      BY <2>6, <3>1, <3>2 DEF ClaimSend
  <2>7. ASSUME NEW a \in Ids, NEW c \in {"fits", "wide"}, SetConfigStore(w, a, c)
        PROVE  TypeOK'
    BY <2>7 DEF SetConfigStore, WorkerTo
  <2>8. CASE SetConfigCommit(w)
    BY <2>8, <1>factory DEF SetConfigCommit, Finish, WorkerTo
  <2>9. ASSUME NEW a \in Ids, ResetClear(w, a)
        PROVE  TypeOK'
    BY <2>9 DEF ResetClear, WorkerTo
  <2>10. CASE ResetCommit(w)
    BY <2>10, <1>factory DEF ResetCommit, Finish, WorkerTo
  <2>11. CASE DiscoverRead(w)
    BY <2>11 DEF DiscoverRead, WorkerTo, ClaimedRows
  <2>12. CASE DiscoverDone(w)
    BY <2>12, <1>factory DEF DiscoverDone, Finish, WorkerTo
  <2>. HIDE DEF TypeOK, Tables, Ids, Row, Config, Sighting,
         PollSteps, WorkerSteps, HUB_ID, store, pollVars, webVars, history
  <2>. QED
    BY <1>10, <2>1, <2>2, <2>3, <2>4, <2>5, <2>6, <2>7, <2>8, <2>9, <2>10, <2>11, <2>12
       DEF Web
<1>11. ASSUME NEW f \in FactoryIds, Age(f)
       PROVE  TypeOK'
  BY <1>11 DEF Age
<1>12. CASE Restart
  BY <1>12, <1>factory DEF Restart
<1>13. CASE UNCHANGED vars
  BY <1>13 DEF vars
<1>. HIDE DEF TypeOK, Tables, Ids, Row, Config, Sighting,
         PollSteps, WorkerSteps, HUB_ID, store, pollVars, webVars, history
<1>. QED
  BY <1>1, <1>2, <1>3, <1>4, <1>5, <1>6, <1>7, <1>8, <1>9, <1>10, <1>11, <1>12, <1>13
     DEF Next, Poll

(* Every reachable state of the hub is well typed: whatever the threads    *)
(* interleave, an address in use is one the nodes table can hold.          *)
THEOREM HubTyped == Spec => []TypeOK
<1>1. Init => TypeOK
  BY HubAssumption DEF Init, TypeOK, Tables, EmptyTables, Ids, Row, Config, Sighting,
     PollSteps, WorkerSteps, HUB_ID, NoFactory
<1>. QED
  BY <1>1, TypeStep, PTL DEF Spec

-----------------------------------------------------------------------------
(* Most steps neither lose a row nor start, advance or tell a claim.       *)
LEMMA QuietStep ==
  ASSUME TypeOK, HubInv,
         claims' = claims,
         Rows(disk) \subseteq Rows(disk'),
         Rows(disk') \subseteq Rows(db'),
         \A w \in Workers : Holds(w)' => /\ Holds(w)
                                        /\ id'[w] = id[w]
                                        /\ id[w] \in Rows(db'),
         \A w \in Workers : Durable(w)' => Durable(w) \/ id[w] \in Rows(disk')
  PROVE  HubInv'
<1>1. NothingUnseen'
  BY DEF NothingUnseen, Rows
<1>2. SoleOwner'
  <2>. SUFFICES ASSUME NEW w \in Workers, Holds(w)'
                PROVE  /\ id'[w] \in Rows(db')
                       /\ claims'[id'[w]] = 0
                       /\ Durable(w)' => id'[w] \in Rows(disk')
                       /\ \A v \in Workers \ {w} : Holds(v)' => id'[v] # id'[w]
    BY DEF SoleOwner, Rows
  <2>. QED
    BY DEF HubInv, SoleOwner
<1>3. ToldOnce'
  BY DEF HubInv, ToldOnce, Rows
<1>. QED
  BY <1>1, <1>2, <1>3 DEF HubInv

(* The rows each kind of step leaves: none is ever lost except that a      *)
(* restart falls back to the durable ones.                                 *)
LEMMA InsertStep ==
  ASSUME TypeOK, HubInv, NEW w \in Workers, ClaimInsert(w)
  PROVE  HubInv'
<1>. DEFINE a == id[w]
<1>1. /\ a \in Ids
      /\ a \notin Rows(db)
      /\ disk' = disk /\ id' = id /\ claims' = claims
  BY DEF ClaimInsert, TypeOK, Rows
<1>2. Rows(db') = Rows(db) \cup {a}
  <2>1. db'.rows = [db.rows EXCEPT ![a] = "claimed"]
    BY DEF ClaimInsert, TypeOK, Tables
  <2>2. db.rows \in [Ids -> Row]
    BY DEF TypeOK, Tables
  <2>. QED
    BY <1>1, <2>1, <2>2 DEF Rows
<1>3. claims[a] = 0
  <2>1. a \notin Rows(disk)
    BY <1>1 DEF HubInv, NothingUnseen
  <2>2. claims[a] \in Nat /\ claims[a] <= 1 /\ claims[a] # 1
    BY <1>1, <2>1 DEF HubInv, ToldOnce, TypeOK
  <2>. QED
    BY <2>2
<1>4. \A v \in Workers : /\ Holds(v)' => Holds(v) \/ v = w
                         /\ Durable(v)' => Durable(v) /\ v # w
  BY DEF ClaimInsert, WorkerTo, TypeOK, Holds, Durable
<1>5. NothingUnseen'
  BY <1>1, <1>2 DEF HubInv, NothingUnseen, Rows
<1>6. SoleOwner'
  <2>. SUFFICES ASSUME NEW v \in Workers, Holds(v)'
                PROVE  /\ id[v] \in Rows(db')
                       /\ claims[id[v]] = 0
                       /\ Durable(v)' => id[v] \in Rows(disk)
                       /\ \A u \in Workers \ {v} : Holds(u)' => id[u] # id[v]
    BY <1>1 DEF SoleOwner, Rows
  <2>1. \A u \in Workers : Holds(u) => id[u] \in Rows(db) /\ id[u] # a
    BY <1>1 DEF HubInv, SoleOwner
  <2>2. CASE v = w
    BY <1>1, <1>2, <1>3, <1>4, <2>1, <2>2
  <2>3. CASE v # w
    BY <1>1, <1>2, <1>4, <2>1, <2>3 DEF HubInv, SoleOwner
  <2>. QED
    BY <2>2, <2>3
<1>7. ToldOnce'
  BY <1>1 DEF HubInv, ToldOnce, Rows
<1>. QED
  BY <1>5, <1>6, <1>7 DEF HubInv

LEMMA SendStep ==
  ASSUME TypeOK, HubInv, NEW w \in Workers, ClaimSend(w)
  PROVE  HubInv'
<1>. DEFINE a == id[w]
<1>1. /\ a \in Ids
      /\ a \in Rows(disk)
      /\ claims[a] = 0
      /\ disk' = disk /\ db' = db
  BY DEF ClaimSend, TypeOK, HubInv, SoleOwner, Holds, Durable, store
<1>2. /\ claims' \in [Ids -> Nat]
      /\ claims'[a] \in {0, 1}
      /\ \A b \in Ids \ {a} : claims'[b] = claims[b]
  BY <1>1 DEF ClaimSend, TypeOK
<1>3. \A v \in Workers : /\ Holds(v)' => v # w /\ Holds(v) /\ id'[v] = id[v]
                         /\ Durable(v)' => Durable(v)
  BY DEF ClaimSend, Finish, WorkerTo, TypeOK, Holds, Durable
<1>4. NothingUnseen'
  BY <1>1 DEF HubInv, NothingUnseen
<1>5. SoleOwner'
  <2>. SUFFICES ASSUME NEW v \in Workers, Holds(v)'
                PROVE  /\ id'[v] \in Rows(db)
                       /\ claims'[id'[v]] = 0
                       /\ Durable(v)' => id'[v] \in Rows(disk)
                       /\ \A u \in Workers \ {v} : Holds(u)' => id'[u] # id'[v]
    BY <1>1 DEF SoleOwner
  <2>1. id[v] \in Ids /\ id[v] # a
    BY <1>3 DEF ClaimSend, HubInv, SoleOwner, TypeOK, Holds
  <2>. QED
    BY <1>2, <1>3, <2>1 DEF HubInv, SoleOwner
<1>6. ToldOnce'
  BY <1>1, <1>2 DEF HubInv, ToldOnce
<1>. QED
  BY <1>4, <1>5, <1>6 DEF HubInv

LEMMA InvStep == TypeOK /\ HubInv /\ [Next]_vars => HubInv'
<1>. SUFFICES ASSUME TypeOK, HubInv, [Next]_vars
              PROVE  HubInv'
  OBVIOUS
<1>seen. /\ Rows(disk) \subseteq Rows(db)
         /\ \A w \in Workers : Holds(w) => id[w] \in Rows(db)
         /\ \A w \in Workers : Durable(w) => id[w] \in Rows(disk) /\ Holds(w)
  BY DEF HubInv, NothingUnseen, SoleOwner, Holds, Durable
<1>1. CASE /\ UNCHANGED <<disk, pc, id, claims>>
           /\ Rows(db) \subseteq Rows(db')
  <2>1. \A w \in Workers : Holds(w)' = Holds(w) /\ Durable(w)' = Durable(w)
    BY <1>1 DEF Holds, Durable
  <2>. QED
    BY <1>1, <1>seen, <2>1, QuietStep DEF Rows
<1>2. CASE Poll
  <2>1. CASE PollUpsert
    <3>1. Rows(db) \subseteq Rows(db')
      BY <2>1 DEF PollUpsert, Rows, TypeOK, Tables, Row
    <3>. QED
      BY <1>1, <2>1, <3>1 DEF PollUpsert, webVars, history
  <2>2. CASE PollReading
    <3>1. Rows(db') = Rows(db)
      BY <2>2 DEF PollReading, Rows, TypeOK, Tables
    <3>. QED
      BY <1>1, <2>2, <3>1 DEF PollReading, webVars, history
  <2>3. CASE PollCommit
    <3>1. \A w \in Workers : Holds(w)' = Holds(w) /\ Durable(w)' = Durable(w)
      BY <2>3 DEF PollCommit, webVars, Holds, Durable
    <3>. QED
      BY <2>3, <3>1, <1>seen, QuietStep DEF PollCommit, webVars, history, Rows
  <2>4. ASSUME NEW f \in FactoryIds, NEW s \in {"near", "far"}, PollAnnounce(f, s)
        PROVE  HubInv'
    BY <1>1, <2>4 DEF PollAnnounce, store, webVars, history, Rows
  <2>5. ASSUME NEW s \in Senders, PollData(s)
        PROVE  HubInv'
    BY <1>1, <2>5 DEF PollData, store, webVars, history, Rows
  <2>6. CASE PollBadData \/ PollNoConfig \/ PollConfig \/ PollPush
    BY <1>1, <2>6 DEF PollBadData, PollNoConfig, PollConfig, PollPush, store, webVars,
       history, Rows
  <2>. QED
    BY <1>2, <2>1, <2>2, <2>3, <2>4, <2>5, <2>6 DEF Poll
<1>3. ASSUME NEW w \in Workers, Web(w)
      PROVE  HubInv'
  <2>pc. pc \in [Workers -> WorkerSteps]
    BY DEF TypeOK
  <2>1. ASSUME NEW f \in FactoryIds, ClaimRead(w, f)
        PROVE  HubInv'
    <3>1. /\ UNCHANGED <<db, disk, claims>>
          /\ id' = [id EXCEPT ![w] = NextId(db)]
      BY <2>1 DEF ClaimRead, store, history
    <3>2. \A v \in Workers : /\ Holds(v)' => Holds(v) /\ v # w
                             /\ Durable(v)' => Durable(v)
      BY <2>1, <2>pc DEF ClaimRead, WorkerTo, Holds, Durable
    <3>3. \A v \in Workers : v # w => id'[v] = id[v]
      BY <3>1 DEF TypeOK
    <3>. QED
      BY <3>1, <3>2, <3>3, <1>seen, QuietStep DEF Rows
  <2>2. CASE ClaimInsert(w)
    BY <2>2, InsertStep
  <2>3. CASE ClaimSend(w)
    BY <2>3, SendStep
  <2>4. CASE ClaimCommit(w)
    <3>1. \A v \in Workers : /\ Holds(v)' = Holds(v)
                             /\ Durable(v)' => Holds(v)
      BY <2>4, <2>pc DEF ClaimCommit, WorkerTo, Holds, Durable
    <3>. QED
      BY <2>4, <3>1, <1>seen, QuietStep DEF ClaimCommit, history, Rows
  <2>5. CASE ClaimPop(w)
    <3>1. \A v \in Workers : Holds(v)' = Holds(v) /\ Durable(v)' = Durable(v)
      BY <2>5, <2>pc DEF ClaimPop, WorkerTo, Holds, Durable
    <3>. QED
      BY <2>5, <3>1, <1>seen, QuietStep DEF ClaimPop, store, history, Rows
  <2>6. ASSUME NEW a \in Ids, NEW c \in {"fits", "wide"}, SetConfigStore(w, a, c)
        PROVE  HubInv'
    <3>1. Rows(db') = Rows(db)
      BY <2>6 DEF SetConfigStore, Rows, TypeOK, Tables
    <3>2. \A v \in Workers : Holds(v)' => Holds(v)
      BY <2>6, <2>pc DEF SetConfigStore, WorkerTo, Holds
    <3>3. \A v \in Workers : Durable(v)' => Durable(v)
      BY <2>6, <2>pc DEF SetConfigStore, WorkerTo, Durable
    <3>. QED
      BY <2>6, <3>1, <3>2, <3>3, <1>seen, QuietStep DEF SetConfigStore, history, Rows
  <2>7. ASSUME NEW a \in Ids, ResetClear(w, a)
        PROVE  HubInv'
    <3>1. Rows(db') = Rows(db)
      BY <2>7 DEF ResetClear, Rows, TypeOK, Tables, Row
    <3>2. \A v \in Workers : Holds(v)' => Holds(v)
      BY <2>7, <2>pc DEF ResetClear, WorkerTo, Holds
    <3>3. \A v \in Workers : Durable(v)' => Durable(v)
      BY <2>7, <2>pc DEF ResetClear, WorkerTo, Durable
    <3>. QED
      BY <2>7, <3>1, <3>2, <3>3, <1>seen, QuietStep DEF ResetClear, history, Rows
  <2>8. CASE SetConfigCommit(w) \/ ResetCommit(w)
    <3>1. disk' = db /\ db' = db /\ claims' = claims /\ Finish(w)
      BY <2>8 DEF SetConfigCommit, ResetCommit, history
    <3>2. \A v \in Workers : /\ Holds(v)' => Holds(v) /\ id'[v] = id[v]
                             /\ Durable(v)' => Durable(v)
      BY <3>1 DEF Finish, WorkerTo, Holds, Durable, TypeOK
    <3>. QED
      BY <3>1, <3>2, <1>seen, QuietStep DEF Rows
  <2>9. CASE ClaimRefused(w) \/ DiscoverDone(w)
    <3>1. disk' = disk /\ db' = db /\ claims' = claims /\ Finish(w)
      BY <2>9 DEF ClaimRefused, DiscoverDone, store, history
    <3>2. \A v \in Workers : /\ Holds(v)' => Holds(v) /\ id'[v] = id[v]
                             /\ Durable(v)' => Durable(v)
      BY <3>1 DEF Finish, WorkerTo, Holds, Durable, TypeOK
    <3>. QED
      BY <3>1, <3>2, <1>seen, QuietStep DEF Rows
  <2>10. CASE DiscoverRead(w)
    <3>1. \A v \in Workers : Holds(v)' => Holds(v)
      BY <2>10, <2>pc DEF DiscoverRead, WorkerTo, Holds
    <3>2. \A v \in Workers : Durable(v)' => Durable(v)
      BY <2>10, <2>pc DEF DiscoverRead, WorkerTo, Durable
    <3>. QED
      BY <2>10, <3>1, <3>2, <1>seen, QuietStep DEF DiscoverRead, store, history, Rows
  <2>. QED
    BY <1>3, <2>1, <2>2, <2>3, <2>4, <2>5, <2>6, <2>7, <2>8, <2>9, <2>10 DEF Web
<1>4. ASSUME NEW f \in FactoryIds, Age(f)
      PROVE  HubInv'
  BY <1>1, <1>4 DEF Age, store, webVars, history, Rows
<1>5. CASE Restart
  <2>1. \A w \in Workers : ~ Holds(w)' /\ ~ Durable(w)'
    BY <1>5 DEF Restart, Holds, Durable
  <2>. QED
    BY <1>5, <2>1, QuietStep DEF Restart, history, Rows
<1>6. CASE UNCHANGED vars
  BY <1>1, <1>6 DEF vars, Rows
<1>. QED
  BY <1>2, <1>3, <1>4, <1>5, <1>6 DEF Next

(* The hub hands an address out at most once, only when its row is         *)
(* durable, and no two claims in progress hold the same one: for any       *)
(* number of web threads and any interleaving with ingestion and restarts. *)
THEOREM HubSafe == Spec => []HubInv
<1>1. Init => TypeOK /\ HubInv
  <2>1. Init => TypeOK
    BY HubAssumption DEF Init, TypeOK, Tables, EmptyTables, Ids, Row, Config, Sighting,
       PollSteps, WorkerSteps, HUB_ID, NoFactory
  <2>2. Init => HubInv
    BY DEF Init, HubInv, NothingUnseen, SoleOwner, ToldOnce, Holds, EmptyTables, Rows
  <2>. QED
    BY <2>1, <2>2
<1>2. TypeOK /\ HubInv /\ [Next]_vars => TypeOK' /\ HubInv'
  BY TypeStep, InvStep
<1>. QED
  BY <1>1, <1>2, PTL DEF Spec

-----------------------------------------------------------------------------
(* Every step of the hub is a step of the address book, or none.           *)
LEMMA BookStep == TypeOK /\ HubInv /\ [Next]_vars => [Book!Next]_(Book!vars)
<1>. SUFFICES ASSUME TypeOK, HubInv, [Next]_vars
              PROVE  [Book!Next]_(Book!vars)
  OBVIOUS
<1>1. CASE UNCHANGED <<disk, claims>>
  BY <1>1 DEF Book!vars, Rows
<1>2. CASE disk' = db /\ claims' = claims
  <2>. DEFINE new == Rows(db) \ Rows(disk)
  <2>1. Rows(disk') = Rows(disk) \cup new
    BY <1>2 DEF HubInv, NothingUnseen, Rows
  <2>2. CASE new = {}
    BY <1>2, <2>1, <2>2 DEF Book!vars
  <2>3. CASE new # {}
    <3>1. new \in SUBSET Ids
      BY DEF Rows
    <3>2. Book!Record(new)
      BY <1>2, <2>1, <2>3 DEF Book!Record
    <3>. QED
      BY <3>1, <3>2 DEF Book!Next
  <2>. QED
    BY <2>2, <2>3
<1>3. ASSUME NEW w \in Workers, ClaimSend(w)
      PROVE  [Book!Next]_(Book!vars)
  <2>. DEFINE a == id[w]
  <2>1. /\ a \in Ids
        /\ a \in Rows(disk)
        /\ claims[a] = 0
        /\ disk' = disk
    BY <1>3 DEF ClaimSend, TypeOK, HubInv, SoleOwner, Holds, Durable, store
  <2>2. CASE a <= MaxWire
    <3>1. claims' = [claims EXCEPT ![a] = 1]
      BY <1>3, <2>1, <2>2 DEF ClaimSend, TypeOK
    <3>2. Book!Tell(a)
      BY <2>1, <3>1 DEF Book!Tell, Rows
    <3>. QED
      BY <2>1, <3>2 DEF Book!Next
  <2>3. CASE ~ (a <= MaxWire)
    BY <1>1, <1>3, <2>1, <2>3 DEF ClaimSend
  <2>. QED
    BY <2>2, <2>3
<1>4. CASE Poll
  BY <1>1, <1>2, <1>4 DEF Poll, PollAnnounce, PollData, PollBadData, PollUpsert, PollReading,
     PollCommit, PollNoConfig, PollConfig, PollPush, store, history
<1>5. ASSUME NEW w \in Workers, Web(w)
      PROVE  [Book!Next]_(Book!vars)
  BY <1>1, <1>2, <1>3, <1>5 DEF Web, ClaimRead, ClaimInsert, ClaimRefused, ClaimCommit,
     ClaimPop, SetConfigStore, SetConfigCommit, ResetClear, ResetCommit, DiscoverRead,
     DiscoverDone, store, history
<1>. QED
  BY <1>1, <1>4, <1>5 DEF Next, Age, Restart, vars, store, history

(* The hub implements the address book: claims interleaved with claims,    *)
(* with ingestion and with crashes hand out each address at most once.     *)
THEOREM HubKeepsBook == Spec => KeepsBook
<1>1. Init => Book!Init
  BY DEF Init, Book!Init, EmptyTables, Rows
<1>. QED
  BY <1>1, BookStep, HubTyped, HubSafe, PTL DEF Spec, KeepsBook, Book!Spec

(* A claim never takes over a row that a reporting node already has.       *)
LEMMA TakeoverStep ==
  ASSUME TypeOK, [Next]_vars, NEW a \in Ids,
         db.rows[a] = "unclaimed", db'.rows[a] = "claimed"
  PROVE  Restart
<1>1. db' # db
  OBVIOUS
<1>2. ASSUME Poll
      PROVE  FALSE
  <2>1. CASE PollUpsert
    BY <2>1 DEF PollUpsert, TypeOK, Tables, Row
  <2>2. CASE PollReading
    BY <2>2 DEF PollReading, TypeOK, Tables
  <2>. QED
    BY <1>1, <1>2, <2>1, <2>2 DEF Poll, PollAnnounce, PollData, PollBadData, PollCommit,
       PollNoConfig, PollConfig, PollPush, store
<1>3. ASSUME NEW w \in Workers, Web(w)
      PROVE  FALSE
  <2>1. CASE ClaimInsert(w)
    BY <2>1 DEF ClaimInsert, TypeOK, Tables
  <2>2. ASSUME NEW b \in Ids, NEW c \in {"fits", "wide"}, SetConfigStore(w, b, c)
        PROVE  FALSE
    BY <2>2 DEF SetConfigStore, TypeOK, Tables
  <2>3. ASSUME NEW b \in Ids, ResetClear(w, b)
        PROVE  FALSE
    BY <2>3 DEF ResetClear, TypeOK, Tables, Row
  <2>. QED
    BY <1>1, <1>3, <2>1, <2>2, <2>3 DEF Web, ClaimRead, ClaimRefused, ClaimCommit,
       ClaimPop, ClaimSend, SetConfigCommit, ResetCommit, DiscoverRead, DiscoverDone, store
<1>. QED
  BY <1>1, <1>2, <1>3 DEF Next, Age, vars, store

(* An address under which a node already reports is never handed out.      *)
THEOREM HubNoTakeover == Spec => NoTakeover
<1>1. TypeOK /\ [Next]_vars =>
        [\A a \in Ids : db.rows[a] = "unclaimed" /\ db'.rows[a] = "claimed"
                         => Restart]_vars
  BY TakeoverStep
<1>. QED
  BY <1>1, HubTyped, PTL DEF Spec, NoTakeover

-----------------------------------------------------------------------------
LEMMA ReferencesStep ==
  TypeOK /\ DiskReferences /\ RowFirst /\ [Next]_vars => DiskReferences' /\ RowFirst'
<1>. SUFFICES ASSUME TypeOK, DiskReferences, RowFirst, [Next]_vars
              PROVE  DiskReferences' /\ RowFirst'
  OBVIOUS
<1>. USE DEF DiskReferences, References
<1>1. ASSUME disk' \in {disk, db}, Rows(db) \subseteq Rows(db'), References(db'),
             poll' = poll \/ poll'.step # "reading"
      PROVE  DiskReferences' /\ RowFirst'
  BY <1>1 DEF RowFirst, Rows, Configured
<1>2. ASSUME disk' \in {disk, db}, db' = db, poll' = poll \/ poll'.step # "reading"
      PROVE  DiskReferences' /\ RowFirst'
  BY <1>1, <1>2 DEF Rows, Configured
<1>3. CASE Poll
  <2>1. CASE PollUpsert
    <3>1. /\ Rows(db') = Rows(db) \cup {poll.sender}
          /\ db'.readings = db.readings
          /\ Configured(db') = Configured(db)
      BY <2>1 DEF PollUpsert, TypeOK, Tables, Rows, Row, Configured
    <3>2. poll'.sender = poll.sender /\ disk' = disk
      BY <2>1 DEF PollUpsert, PollTo, TypeOK
    <3>. QED
      BY <3>1, <3>2 DEF RowFirst, Rows, Configured
  <2>2. CASE PollReading
    <3>1. /\ Rows(db') = Rows(db)
          /\ db'.readings = db.readings \cup {poll.sender}
          /\ Configured(db') = Configured(db)
          /\ poll.sender \in Rows(db)
      BY <2>2 DEF PollReading, TypeOK, Tables, Rows, Configured, RowFirst
    <3>2. poll'.step # "reading" /\ disk' = disk
      BY <2>2 DEF PollReading, PollTo, TypeOK
    <3>. QED
      BY <1>1, <3>1, <3>2
  <2>3. ASSUME NEW f \in FactoryIds, NEW s \in {"near", "far"}, PollAnnounce(f, s)
        PROVE  DiskReferences' /\ RowFirst'
    BY <1>2, <2>3 DEF PollAnnounce, store, pollVars
  <2>4. ASSUME NEW s \in Senders, PollData(s)
        PROVE  DiskReferences' /\ RowFirst'
    BY <1>2, <2>4 DEF PollData, store
  <2>5. CASE PollBadData \/ PollNoConfig \/ PollConfig \/ PollCommit
    BY <1>2, <2>5 DEF PollBadData, PollNoConfig, PollConfig, PollCommit, PollTo,
       TypeOK, store
  <2>6. CASE PollPush
    BY <1>2, <2>6 DEF PollPush, PollTo, TypeOK, store
  <2>. QED
    BY <1>3, <2>1, <2>2, <2>3, <2>4, <2>5, <2>6 DEF Poll
<1>4. ASSUME NEW w \in Workers, Web(w)
      PROVE  DiskReferences' /\ RowFirst'
  <2>1. CASE ClaimInsert(w)
    <3>1. /\ Rows(db) \subseteq Rows(db')
          /\ db'.readings = db.readings
          /\ Configured(db') = Configured(db)
      BY <2>1 DEF ClaimInsert, TypeOK, Tables, Rows, Configured
    <3>. QED
      BY <1>1, <2>1, <3>1 DEF ClaimInsert, pollVars
  <2>2. ASSUME NEW a \in Ids, NEW c \in {"fits", "wide"}, SetConfigStore(w, a, c)
        PROVE  DiskReferences' /\ RowFirst'
    <3>1. /\ Rows(db') = Rows(db)
          /\ db'.readings = db.readings
          /\ Configured(db') \subseteq Configured(db) \cup {a}
          /\ a \in Rows(db)
      BY <2>2 DEF SetConfigStore, TypeOK, Tables, Rows, Configured
    <3>. QED
      BY <1>1, <2>2, <3>1 DEF SetConfigStore, pollVars
  <2>3. ASSUME NEW a \in Ids, ResetClear(w, a)
        PROVE  DiskReferences' /\ RowFirst'
    <3>1. /\ Rows(db') = Rows(db)
          /\ db'.readings = db.readings
          /\ Configured(db') = Configured(db)
      BY <2>3 DEF ResetClear, TypeOK, Tables, Rows, Row, Configured
    <3>. QED
      BY <1>1, <2>3, <3>1 DEF ResetClear, pollVars
  <2>. QED
    BY <1>2, <1>4, <2>1, <2>2, <2>3 DEF Web, ClaimRead, ClaimRefused, ClaimCommit,
       ClaimPop, ClaimSend, SetConfigCommit, ResetCommit, DiscoverRead, DiscoverDone,
       store, pollVars
<1>5. ASSUME NEW f \in FactoryIds, Age(f)
      PROVE  DiskReferences' /\ RowFirst'
  BY <1>2, <1>5 DEF Age, store, pollVars
<1>6. CASE Restart
  BY <1>6 DEF Restart, RowFirst, Rows, Configured
<1>7. CASE UNCHANGED vars
  BY <1>2, <1>7 DEF vars
<1>. QED
  BY <1>3, <1>4, <1>5, <1>6, <1>7 DEF Next

(* No reading and no config is ever stored, or committed by any thread,    *)
(* without the row of nodes it refers to.                                  *)
THEOREM HubReferences == Spec => []DiskReferences
<1>1. Init => DiskReferences /\ RowFirst
  BY DEF Init, DiskReferences, References, RowFirst, EmptyTables, Rows, Configured
<1>. QED
  BY <1>1, ReferencesStep, HubTyped, PTL DEF Spec
=============================================================================

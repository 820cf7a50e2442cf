-------------------------- MODULE DiscoveryProofs --------------------------
(***************************************************************************)
(* Proofs about Discovery, for any period, windows, intervals, start-up    *)
(* delays and number of beacons.                                           *)
(***************************************************************************)
EXTENDS Discovery, TLAPS

(* What a window leaves behind when the board goes to sleep.               *)
LEMMA SleepTyped ==
  ASSUME NEW n \in Intervals, NEW late \in Late
  PROVE  Ticks(n) + late \in Nat
BY DiscoveryAssumption DEF Ticks

LEMMA HeardTyped ==
  ASSUME TypeOK, Hears, NEW c \in Candidate
  PROVE  /\ Append(candidates, c) \in Seq(Candidate)
         /\ Len(Append(candidates, c)) <= MaxCandidates
BY DiscoveryAssumption DEF TypeOK, Hears

LEMMA BeaconIsCandidate ==
  /\ \A rssi \in Rssi : [sender |-> Root, hop |-> 0, rssi |-> rssi] \in Candidate
  /\ Strays \subseteq Candidate
BY DiscoveryAssumption DEF Candidate

(* Types, the bounds of the buffer and of both windows.                    *)
THEOREM DiscoveryTyped == Spec => []TypeOK
<1>. USE DiscoveryAssumption DEF TypeOK, InWindow
<1>1. Init => TypeOK
  <2>. SUFFICES ASSUME Init
                PROVE  TypeOK
    OBVIOUS
  <2>1. candidates \in Seq(Candidate) /\ Len(candidates) = 0
    BY DEF Init
  <2>. QED  BY <2>1 DEF Init, None
<1>2. TypeOK /\ [Next]_vars => TypeOK'
  <2>. SUFFICES ASSUME TypeOK, [Next]_vars
                PROVE  TypeOK'
    OBVIOUS
  <2>1. CASE SetConfig
    BY <2>1 DEF SetConfig, root, leaf, history
  <2>2. CASE Beacon
    <3>1. CASE Hears
      <4>1. PICK rssi \in Rssi : Heard([sender |-> Root, hop |-> 0, rssi |-> rssi])
        BY <2>2, <3>1 DEF Beacon
      <4>2. /\ candidates' \in Seq(Candidate)
            /\ Len(candidates') <= MaxCandidates
        BY <3>1, <4>1, HeardTyped, BeaconIsCandidate DEF Heard
      <4>. QED  BY <2>2, <4>1, <4>2 DEF Beacon, Heard, hub
    <3>2. CASE ~Hears
      <4>1. UNCHANGED <<pc, timer, candidates, i, best, interval>>
        BY <2>2, <3>2 DEF Beacon, leaf
      <4>2. air' \in {"calm", "rough"} /\ age' \in 0 .. Period + Slack
        BY <2>2 DEF Beacon
      <4>. QED  BY <2>2, <4>1, <4>2 DEF Beacon, hub
    <3>. QED  BY <3>1, <3>2
  <2>3. CASE RootRestart
    BY <2>3 DEF RootRestart, leaf, hub
  <2>4. CASE Stray
    <3>1. PICK c \in Strays : Heard(c)
      BY <2>4 DEF Stray
    <3>2. /\ candidates' \in Seq(Candidate)
          /\ Len(candidates') <= MaxCandidates
      BY <2>4, <3>1, HeardTyped, BeaconIsCandidate DEF Heard, Stray
    <3>. QED  BY <2>4, <3>1, <3>2 DEF Stray, Heard, root, hub, history
  <2>5. CASE Wake
    BY <2>5 DEF Wake, root, hub, history
  <2>6. CASE NoParent
    BY <2>6, SleepTyped DEF NoParent, GoToSleep, UpTo, root, hub
  <2>7. CASE SelectStart
    BY <2>7 DEF SelectStart, root, hub, history
  <2>8. CASE Select
    BY <2>8 DEF Select, root, hub, history
  <2>9. CASE Report
    BY <2>9 DEF Report, Selected, root
  <2>10. CASE ReportLost
    BY <2>10 DEF ReportLost, Selected, UpTo, root, hub
  <2>11. CASE HearConfig
    BY <2>11, SleepTyped DEF HearConfig, GoToSleep, root, hub, history
  <2>12. CASE HearNoConfig
    BY <2>12, SleepTyped DEF HearNoConfig, GoToSleep, root, hub, history
  <2>13. CASE Die
    BY <2>13 DEF Die, root, hub, history
  <2>14. CASE Tick
    <3>1. age' \in 0 .. Period + Slack
      BY <2>14 DEF Tick, Due
    <3>2. pc' = pc /\ UNCHANGED <<candidates, i, best, interval, stored, last_seen_at, missed, air>>
      BY <2>14 DEF Tick, history
    <3>3. timer' \in Nat /\ (pc = "listen" => timer' <= Listen)
          /\ (pc = "select" => timer' = 0) /\ (InWindow => timer' <= Window)
      <4>1. CASE pc = "asleep"
        BY <2>14, <4>1 DEF Tick, Due
      <4>2. CASE pc = "dead"
        BY <2>14, <4>2 DEF Tick
      <4>3. CASE pc \notin {"asleep", "dead"}
        <5>1. timer' = timer + 1
          BY <2>14, <4>3 DEF Tick
        <5>. QED  BY <2>14, <4>3, <5>1 DEF Tick, Due, ListenDone
      <4>. QED  BY <4>1, <4>2, <4>3
    <3>4. phase' \in 0 .. Second - 1
      BY <2>14 DEF Tick
    <3>5. silent' \in 0 .. Cap
      BY <2>14 DEF Tick, UpTo
    <3>. QED  BY <3>1, <3>2, <3>3, <3>4, <3>5
  <2>15. CASE UNCHANGED vars
    BY <2>15 DEF vars
  <2>. QED  BY <2>1, <2>2, <2>3, <2>4, <2>5, <2>6, <2>7, <2>8, <2>9, <2>10,
               <2>11, <2>12, <2>13, <2>14, <2>15 DEF Next
<1>. QED  BY <1>1, <1>2, PTL DEF Spec

-----------------------------------------------------------------------------
(* The loop of select_parent: best is a best one of those before i.        *)
AsGood(b, c) == b.hop <= c.hop /\ (b.hop = c.hop => b.rssi >= c.rssi)

BestSoFar ==
  pc = "select" =>
    /\ best \in 1 .. Len(candidates) /\ i \in 2 .. Len(candidates) + 1
    /\ \A k \in 1 .. i - 1 : AsGood(candidates[best], candidates[k])

LEMMA AsGoodOrder ==
  ASSUME NEW a \in Candidate, NEW b \in Candidate, NEW c \in Candidate
  PROVE  /\ AsGood(a, a)
         /\ Better(a, b) => AsGood(a, b)
         /\ ~Better(a, b) => AsGood(b, a)
         /\ AsGood(a, b) /\ AsGood(b, c) => AsGood(a, c)
<1>. a.hop \in Nat /\ b.hop \in Nat /\ c.hop \in Nat /\ a.rssi \in Int /\ b.rssi \in Int /\ c.rssi \in Int
  BY DEF Candidate
<1>. QED  BY DEF AsGood, Better

LEMMA SelectKeepsBest ==
  ASSUME TypeOK, BestSoFar, Select
  PROVE  BestSoFar'
<1>. DEFINE c == candidates[i]  b == candidates[best]  b1 == candidates[best']
<1>1. /\ pc = "select" /\ i <= Len(candidates) /\ i' = i + 1 /\ candidates' = candidates
      /\ best' = IF Better(c, b) THEN i ELSE best
  BY DEF Select
<1>2. /\ best \in 1 .. Len(candidates) /\ i \in 2 .. Len(candidates) + 1
      /\ \A k \in 1 .. i - 1 : AsGood(b, candidates[k])
  BY <1>1 DEF BestSoFar
<1>3. i \in 1 .. Len(candidates) /\ best' \in 1 .. Len(candidates) /\ i' \in 2 .. Len(candidates) + 1
  BY <1>1, <1>2 DEF TypeOK
<1>4. \A k \in 1 .. Len(candidates) : candidates[k] \in Candidate
  BY DEF TypeOK
<1>5. c \in Candidate /\ b \in Candidate /\ b1 \in Candidate
  BY <1>2, <1>3, <1>4
<1>6. AsGood(b1, c) /\ AsGood(b1, b)
  <2>1. CASE Better(c, b)
    <3>1. b1 = c
      BY <1>1, <2>1
    <3>. HIDE DEF c, b, b1
    <3>. QED  BY <3>1, <2>1, <1>5, AsGoodOrder
  <2>2. CASE ~Better(c, b)
    <3>1. b1 = b
      BY <1>1, <2>2
    <3>. HIDE DEF c, b, b1
    <3>. QED  BY <3>1, <2>2, <1>5, AsGoodOrder
  <2>. QED  BY <2>1, <2>2
<1>7. ASSUME NEW k \in 1 .. i
      PROVE  AsGood(b1, candidates[k])
  <2>1. CASE k = i
    BY <1>6, <2>1
  <2>2. CASE k # i
    <3>1. k \in 1 .. i - 1 /\ k \in 1 .. Len(candidates)
      BY <1>2, <1>3, <2>2
    <3>2. AsGood(b, candidates[k]) /\ candidates[k] \in Candidate
      BY <1>2, <1>4, <3>1
    <3>. DEFINE d == candidates[k]
    <3>. HIDE DEF b, b1, d
    <3>3. AsGood(b, d) /\ d \in Candidate
      BY <3>2 DEF d
    <3>4. AsGood(b1, d)
      BY <1>5, <1>6, <3>3, AsGoodOrder
    <3>. QED  BY <3>4 DEF d
  <2>. QED  BY <2>1, <2>2
<1>8. i' - 1 = i
  BY <1>1, <1>2
<1>. QED  BY <1>1, <1>3, <1>7, <1>8 DEF BestSoFar

(* select_parent settles on a beacon of the least hop count and, of those, *)
(* of the greatest strength, for every buffer and every set of beacons.    *)
THEOREM DiscoveryParentIsBest == Spec => []ParentIsBest
<1>1. Init => BestSoFar
  BY DEF Init, BestSoFar
<1>2. TypeOK /\ BestSoFar /\ [Next]_vars => BestSoFar'
  <2>. SUFFICES ASSUME TypeOK, BestSoFar, [Next]_vars
                PROVE  BestSoFar'
    OBVIOUS
  <2>1. CASE Select
    BY <2>1, SelectKeepsBest
  <2>2. CASE SelectStart
    <3>1. best' = 1 /\ i' = 2 /\ candidates' = candidates /\ candidates # <<>>
      BY <2>2 DEF SelectStart
    <3>2. Len(candidates) \in Nat /\ Len(candidates) # 0 /\ candidates[1] \in Candidate
      BY <3>1 DEF TypeOK
    <3>3. AsGood(candidates[1], candidates[1])
      BY <3>2, AsGoodOrder
    <3>. QED  BY <3>1, <3>2, <3>3 DEF BestSoFar
  <2>3. CASE UNCHANGED <<pc, candidates, i, best>>
    BY <2>3 DEF BestSoFar
  <2>4. CASE pc' # "select"
    BY <2>4 DEF BestSoFar
  <2>5. CASE SetConfig \/ RootRestart \/ Tick \/ UNCHANGED vars
    BY <2>3, <2>5 DEF SetConfig, RootRestart, Tick, leaf, vars
  <2>6. CASE Wake \/ NoParent \/ Report \/ ReportLost \/ HearConfig \/ HearNoConfig \/ Die
    BY <2>4, <2>6 DEF Wake, NoParent, Report, ReportLost, HearConfig, HearNoConfig, Die, GoToSleep
  <2>7. CASE Beacon \/ Stray
    <3>1. CASE Hears
      <4>1. pc' = pc /\ pc = "listen"
        BY <2>7, <3>1 DEF Beacon, Stray, Heard, Hears
      <4>. QED  BY <2>4, <4>1
    <3>2. CASE ~Hears
      <4>1. UNCHANGED leaf
        BY <2>7, <3>2 DEF Beacon, Stray
      <4>. QED  BY <2>3, <4>1 DEF leaf
    <3>. QED  BY <3>1, <3>2
  <2>. QED  BY <2>1, <2>2, <2>5, <2>6, <2>7 DEF Next
<1>3. TypeOK /\ BestSoFar => ParentIsBest
  <2>. SUFFICES ASSUME TypeOK, BestSoFar, Selected, NEW k \in DOMAIN candidates
                PROVE  AsGood(candidates[best], candidates[k])
    BY DEF ParentIsBest, AsGood
  <2>1. k \in 1 .. Len(candidates) /\ Len(candidates) \in Nat
    BY DEF TypeOK
  <2>2. k \in 1 .. i - 1
    BY <2>1 DEF TypeOK, Selected
  <2>. QED  BY <2>2 DEF BestSoFar, Selected
<1>. QED  BY <1>1, <1>2, <1>3, DiscoveryTyped, PTL DEF Spec

-----------------------------------------------------------------------------
(* Seconds in ticks. The products are in these lemmas and nowhere else.    *)
LEMMA TicksNat == \A n \in Nat : Ticks(n) \in Nat
BY DiscoveryAssumption DEF Ticks

LEMMA TicksNext == \A n \in Nat : Ticks(n + 1) = Ticks(n) + Second
BY DiscoveryAssumption DEF Ticks

LEMMA TicksOver ==
  ASSUME NEW m \in Nat, NEW n \in Nat, m > 2 * n
  PROVE  Ticks(m) >= 2 * Ticks(n) + Second
<1>1. PICK d \in Nat : m = 2 * n + 1 + d
  <2>1. m - 2 * n - 1 \in Nat /\ m = 2 * n + 1 + (m - 2 * n - 1)
    OBVIOUS
  <2>. QED  BY <2>1
<1>2. Second * d >= 0
  BY DiscoveryAssumption
<1>3. Second * (2 * n + 1 + d) = 2 * (Second * n) + Second + Second * d
  BY DiscoveryAssumption
<1>. QED  BY <1>1, <1>2, <1>3, DiscoveryAssumption DEF Ticks

LEMMA TicksZero == Ticks(0) = 0
BY DiscoveryAssumption DEF Ticks

(* Ticks since the second of the last report began, at most one second     *)
(* more than the ticks since the report.                                   *)
Since == Ticks(silent) + phase

(* How long ago a board that has missed no window has reported, by what it *)
(* is doing.                                                               *)
Recent ==
  last_seen_at = "set" /\ missed = 0 =>
    /\ pc = "window" => Since <= Second - 1 + timer
    /\ pc = "asleep" => Since + timer <= Second - 1 + 2 * Ticks(interval) - Listen
    /\ pc = "listen" => Since <= Second - 1 + 2 * Ticks(interval) - Listen + timer
    /\ pc = "select" => Since <= Second - 1 + 2 * Ticks(interval)
    /\ pc # "unheard"

LEMMA SleepFits ==
  IntervalAssumption =>
    \A n \in Intervals, late \in Late :
      /\ Ticks(n) \in Nat /\ late \in Nat
      /\ Window + Ticks(n) + late <= 2 * Ticks(n) - Listen
<1>. SUFFICES ASSUME IntervalAssumption, NEW n \in Intervals, NEW late \in Late
              PROVE  /\ Ticks(n) \in Nat /\ late \in Nat
                     /\ Window + Ticks(n) + late <= 2 * Ticks(n) - Listen
  OBVIOUS
<1>1. Ticks(n) \in Nat /\ late \in Nat
  BY DiscoveryAssumption, TicksNat
<1>2. late + Listen + Window <= Ticks(n)
  BY DEF IntervalAssumption
<1>. QED  BY <1>1, <1>2, DiscoveryAssumption

LEMMA SleepSum ==
  ASSUME NEW since \in Int, NEW second \in Int, NEW window \in Int,
         NEW ticks \in Int, NEW late \in Int, NEW listen \in Int,
         since <= second - 1 + window, window + ticks + late <= 2 * ticks - listen
  PROVE  since + (ticks + late) <= second - 1 + 2 * ticks - listen
OBVIOUS

LEMMA RecentStep ==
  ASSUME IntervalAssumption, TypeOK, Recent, [Next]_vars
  PROVE  Recent'
<1>. SUFFICES ASSUME last_seen_at' = "set", missed' = 0
              PROVE  /\ pc' = "window" => Since' <= Second - 1 + timer'
                     /\ pc' = "asleep" => Since' + timer' <= Second - 1 + 2 * Ticks(interval') - Listen
                     /\ pc' = "listen" => Since' <= Second - 1 + 2 * Ticks(interval') - Listen + timer'
                     /\ pc' = "select" => Since' <= Second - 1 + 2 * Ticks(interval')
                     /\ pc' # "unheard"
  BY DEF Recent
<1>. USE DiscoveryAssumption DEF TypeOK, InWindow
<1>0. /\ interval \in Nat /\ Ticks(interval) \in Nat
      /\ silent \in Nat /\ Ticks(silent) \in Nat /\ Since \in Nat
  <2>1. interval \in Nat /\ silent \in Nat /\ phase \in Nat
    OBVIOUS
  <2>2. Ticks(interval) \in Nat /\ Ticks(silent) \in Nat
    BY <2>1, TicksNat
  <2>. QED  BY <2>1, <2>2 DEF Since
<1>1. ASSUME UNCHANGED <<pc, timer, interval, phase, last_seen_at, silent, missed>>
      PROVE  Recent'
  BY <1>1 DEF Recent, Since
<1>2. CASE SetConfig \/ Beacon \/ RootRestart \/ Stray \/ Select \/ UNCHANGED vars
  <2>1. UNCHANGED <<pc, timer, interval, phase, last_seen_at, silent, missed>>
    BY <1>2 DEF SetConfig, Beacon, RootRestart, Stray, Select, Heard, root, leaf, hub, history, vars
  <2>. QED  BY <1>1, <2>1 DEF Recent
<1>3. CASE Wake
  <2>1. /\ pc = "asleep" /\ timer = 0 /\ pc' = "listen"
        /\ UNCHANGED <<timer, interval, phase, last_seen_at, silent, missed>>
    BY <1>3 DEF Wake, hub, history
  <2>2. Since + timer <= Second - 1 + 2 * Ticks(interval) - Listen
    BY <2>1 DEF Recent
  <2>3. Since' = Since
    BY <2>1 DEF Since
  <2>4. Second \in Int /\ Listen \in Int
    OBVIOUS
  <2>5. Since' <= Second - 1 + 2 * Ticks(interval') - Listen + timer'
    BY ONLY <1>0, <2>1, <2>2, <2>3, <2>4
  <2>. QED  BY ONLY <2>1, <2>5
<1>4. CASE NoParent \/ ReportLost
  <2>1. missed' >= 1
    BY <1>4 DEF NoParent, ReportLost, UpTo
  <2>. QED  BY <2>1
<1>5. CASE SelectStart
  <2>1. /\ pc = "listen" /\ timer <= Listen /\ pc' = "select" /\ timer' = 0
        /\ UNCHANGED <<interval, phase, last_seen_at, silent, missed>>
    BY <1>5 DEF SelectStart, hub, history
  <2>2. Since <= Second - 1 + 2 * Ticks(interval) - Listen + timer
    BY <2>1 DEF Recent
  <2>3. Since' = Since
    BY <2>1 DEF Since
  <2>4. Second \in Int /\ Listen \in Int /\ timer \in Int
    OBVIOUS
  <2>5. Since' <= Second - 1 + 2 * Ticks(interval')
    BY ONLY <1>0, <2>1, <2>2, <2>3, <2>4
  <2>. QED  BY ONLY <2>1, <2>5
<1>6. CASE Report
  <2>1. /\ pc' = "window" /\ timer' = 0 /\ silent' = 0 /\ phase' = phase
    BY <1>6 DEF Report, Selected
  <2>. QED  BY <2>1, TicksZero DEF Since
<1>7. CASE HearConfig
  <2>1. PICK late \in Late : timer' = Ticks(stored) + late
    BY <1>7 DEF HearConfig, GoToSleep
  <2>2. /\ pc = "window" /\ timer <= Window /\ pc' = "asleep"
        /\ interval' = stored /\ stored \in Intervals
        /\ UNCHANGED <<phase, last_seen_at, silent, missed>>
    BY <1>7 DEF HearConfig, GoToSleep, hub, history
  <2>3. /\ Ticks(stored) \in Nat /\ late \in Nat
        /\ Window + Ticks(stored) + late <= 2 * Ticks(stored) - Listen
    BY <2>2, SleepFits
  <2>4. Since' = Since
    BY <2>2 DEF Since
  <2>5. Since <= Second - 1 + Window
    BY <1>0, <2>2 DEF Recent
  <2>6. Since + (Ticks(stored) + late) <= Second - 1 + 2 * Ticks(stored) - Listen
    <3>1. Since \in Int /\ Second \in Int /\ Window \in Int /\ Listen \in Int
      BY <1>0
    <3>2. Ticks(stored) \in Int /\ late \in Int
      BY <2>3
    <3>. QED  BY ONLY <3>1, <3>2, <2>3, <2>5, SleepSum
  <2>7. Since' + timer' = Since + (Ticks(stored) + late) /\ interval' = stored
    BY <2>1, <2>2, <2>4
  <2>. QED  BY <2>2, <2>6, <2>7
<1>8. CASE HearNoConfig
  <2>1. PICK late \in Late : timer' = Ticks(interval) + late
    BY <1>8 DEF HearNoConfig, GoToSleep
  <2>2. /\ pc \in {"window", "unheard"} /\ timer <= Window /\ pc' = "asleep"
        /\ UNCHANGED <<interval, phase, last_seen_at, silent, missed>>
    BY <1>8 DEF HearNoConfig, GoToSleep, hub, history
  <2>3. /\ Ticks(interval) \in Nat /\ late \in Nat
        /\ Window + Ticks(interval) + late <= 2 * Ticks(interval) - Listen
    BY SleepFits
  <2>4. Since' = Since
    BY <2>2 DEF Since
  <2>5. Since <= Second - 1 + Window
    BY <1>0, <2>2 DEF Recent
  <2>6. Since + (Ticks(interval) + late) <= Second - 1 + 2 * Ticks(interval) - Listen
    <3>1. Since \in Int /\ Second \in Int /\ Window \in Int /\ Listen \in Int
      BY <1>0
    <3>2. Ticks(interval) \in Int /\ late \in Int
      BY <2>3
    <3>. QED  BY ONLY <3>1, <3>2, <2>3, <2>5, SleepSum
  <2>7. Since' + timer' = Since + (Ticks(interval) + late) /\ interval' = interval
    BY <2>1, <2>2, <2>4
  <2>. QED  BY <2>2, <2>6, <2>7
<1>9. CASE Die
  BY <1>9 DEF Die
<1>10. CASE Tick
  <2>1. UNCHANGED <<pc, interval, last_seen_at, missed>> /\ pc # "select"
    BY <1>10 DEF Tick, Due, history
  <2>2. Since' <= Since + 1
    <3>1. CASE phase = Second - 1
      <4>1. phase' = 0 /\ silent' \in {silent, silent + 1}
        BY <1>10, <3>1, <2>1 DEF Tick, UpTo
      <4>2. Ticks(silent + 1) = Ticks(silent) + Second
        BY <1>0, TicksNext
      <4>3. Ticks(silent') <= Ticks(silent) + Second /\ Ticks(silent') \in Nat
        BY <1>0, <4>1, <4>2
      <4>. QED  BY <1>0, <3>1, <4>1, <4>3 DEF Since
    <3>2. CASE phase # Second - 1
      <4>1. phase' = phase + 1 /\ silent' = silent
        BY <1>10, <3>2 DEF Tick
      <4>. QED  BY <1>0, <4>1 DEF Since
    <3>. QED  BY <3>1, <3>2
  <2>3. /\ pc = "asleep" => timer' = timer - 1
        /\ pc \in {"window", "listen"} => timer' = timer + 1
    BY <1>10 DEF Tick
  <2>4. Since' \in Int
    <3>1. silent' \in Nat /\ phase' \in Nat
      BY <1>10 DEF Tick, UpTo
    <3>. QED  BY <3>1, TicksNat DEF Since
  <2>5. CASE pc = "asleep"
    BY <1>0, <2>1, <2>2, <2>3, <2>4, <2>5 DEF Recent
  <2>6. CASE pc = "window"
    <3>1. Since <= Second - 1 + timer /\ timer' = timer + 1
      BY <2>1, <2>3, <2>6 DEF Recent
    <3>2. timer \in Int /\ Second \in Int
      OBVIOUS
    <3>3. Since' <= Second - 1 + timer'
      BY ONLY <1>0, <2>2, <2>4, <3>1, <3>2
    <3>. QED  BY <2>1, <2>6, <3>3
  <2>7. CASE pc = "listen"
    <3>1. Since <= Second - 1 + 2 * Ticks(interval) - Listen + timer /\ timer' = timer + 1
      BY <2>1, <2>3, <2>7 DEF Recent
    <3>2. timer \in Int /\ Second \in Int /\ Listen \in Int
      OBVIOUS
    <3>3. Since' <= Second - 1 + 2 * Ticks(interval) - Listen + timer'
      BY ONLY <1>0, <2>2, <2>4, <3>1, <3>2
    <3>. QED  BY <2>1, <2>7, <3>3
  <2>8. CASE pc \in {"unheard", "dead"}
    BY <2>1, <2>8 DEF Recent
  <2>. QED  BY <2>1, <2>5, <2>6, <2>7, <2>8
<1>. QED  BY <1>2, <1>3, <1>4, <1>5, <1>6, <1>7, <1>8, <1>9, <1>10 DEF Next

(* A live board is shown offline only after a missed window, for every set *)
(* of intervals that both windows and the start-up fit into.               *)
THEOREM DiscoveryOfflineOnlyAfterMiss ==
  ASSUME IntervalAssumption
  PROVE  Spec => []OfflineOnlyAfterMiss
<1>1. Init => Recent
  BY DEF Init, Recent
<1>2. TypeOK /\ Recent /\ [Next]_vars => Recent'
  BY RecentStep
<1>3. TypeOK /\ Recent => OfflineOnlyAfterMiss
  <2>. SUFFICES ASSUME TypeOK, Recent, last_seen_at = "set", Offline, pc # "dead",
                       interval <= Expected, missed = 0
                PROVE  FALSE
    BY DiscoveryAssumption DEF OfflineOnlyAfterMiss, TypeOK
  <2>. USE DiscoveryAssumption DEF TypeOK, InWindow
  <2>1. interval \in Nat /\ silent \in Nat /\ Expected \in Nat /\ silent > 2 * interval
    BY DEF Offline, Expected, None
  <2>2. /\ Ticks(interval) \in Nat /\ Ticks(silent) \in Nat
        /\ Ticks(silent) >= 2 * Ticks(interval) + Second
    BY <2>1, TicksNat, TicksOver
  <2>3. Window <= 2 * Ticks(interval) - Listen
    <3>1. 0 \in Late /\ interval \in Intervals
      OBVIOUS
    <3>2. Window + Ticks(interval) + 0 <= 2 * Ticks(interval) - Listen
      BY <3>1, SleepFits
    <3>. QED  BY <2>2, <3>2
  <2>4. Since <= Second - 1 + 2 * Ticks(interval)
    <3>0. Since \in Nat
      <4>1. phase \in Nat
        OBVIOUS
      <4>2. Ticks(silent) + phase \in Nat
        BY ONLY <2>2, <4>1
      <4>. QED  BY <4>2 DEF Since
    <3>1. CASE pc = "window"
      <4>1. Since <= Second - 1 + timer /\ timer <= Window
        BY <3>1 DEF Recent
      <4>2. timer \in Nat /\ Window \in Nat /\ Listen \in Nat /\ Second \in Nat
        OBVIOUS
      <4>. QED  BY ONLY <2>2, <2>3, <3>0, <4>1, <4>2
    <3>2. CASE pc = "asleep"
      <4>1. Since + timer <= Second - 1 + 2 * Ticks(interval) - Listen
        BY <3>2 DEF Recent
      <4>2. timer \in Nat /\ Listen \in Nat /\ Second \in Nat
        OBVIOUS
      <4>. QED  BY ONLY <2>2, <3>0, <4>1, <4>2
    <3>3. CASE pc = "listen"
      <4>1. Since <= Second - 1 + 2 * Ticks(interval) - Listen + timer /\ timer <= Listen
        BY <3>3 DEF Recent
      <4>2. timer \in Nat /\ Listen \in Nat /\ Second \in Nat
        OBVIOUS
      <4>. QED  BY ONLY <2>2, <3>0, <4>1, <4>2
    <3>4. CASE pc \in {"select", "unheard"}
      BY <3>4 DEF Recent
    <3>. QED  BY <3>1, <3>2, <3>3, <3>4
  <2>. QED  BY <2>2, <2>4 DEF Since
<1>. QED  BY <1>1, <1>2, <1>3, DiscoveryTyped, PTL DEF Spec


-----------------------------------------------------------------------------
(* Multiples of the period, of which a sleeping board does not see how     *)
(* many pass.                                                              *)
Periods(x) == \E q \in Int : x = q * Period

LEMMA PeriodsNext == \A x \in Int : Periods(x) => Periods(x + Period)
<1>. SUFFICES ASSUME NEW x \in Int, NEW q \in Int, x = q * Period
              PROVE  Periods(x + Period)
  BY DEF Periods
<1>1. x + Period = (q + 1) * Period /\ q + 1 \in Int
  BY DiscoveryAssumption
<1>. QED  BY <1>1 DEF Periods

LEMMA PeriodsZero == Periods(0)
<1>1. 0 = 0 * Period /\ 0 \in Int
  BY DiscoveryAssumption
<1>. QED  BY <1>1 DEF Periods

(* A window opens to after a beacon, and the one before it opened from     *)
(* after one.                                                              *)
Slept(from, to) ==
  \E late \in Late : Periods(from + Listen + Ticks(interval) + late - to)

(* How long before the next window opens, or the current one opened, the   *)
(* last beacon was sent, if none comes before.                             *)
Lead == IF pc = "asleep" THEN age + timer ELSE age - timer

Empty == pc = "listen" /\ candidates = <<>>
Coming == pc = "asleep" \/ Empty

(* Where m windows missed in a row have brought the last of them: on, by   *)
(* Shift at least for each; or back; or past the beacon, and on again from *)
(* near the beginning.                                                     *)
Onward(n, m, w) == (m - 1) * Shift(n) <= w
Backward(n, m, w) == (m - 1) * Back(n) <= Gap - w
Again(n, m, w) == \E j \in Nat : /\ m <= Sweep(n) + j + 1
                                 /\ j * Shift(n) <= w
                                 /\ w <= Most(n) - Listen + j * Most(n)

Swept(n, m, w) == /\ Ahead(n) => Onward(n, m, w)
                  /\ Behind(n) => Backward(n, m, w)
                  /\ Twice(n) => Onward(n, m, w) \/ Again(n, m, w)

Follows(last) == Swept(interval, missed, last) /\ (Coming => Slept(last, Lead))

Calm ==
  air = "calm" /\ age <= Period =>
    /\ pc = "window" => missed = 0
    /\ pc # "unheard"
    /\ Empty => age - timer >= 0
    /\ missed > 0 => \E last \in 0 .. Gap : Follows(last)

(* Arithmetic the solver is helped with.                                   *)
LEMMA TimesOrder ==
  ASSUME NEW x \in Int, NEW y \in Int, NEW c \in Nat, x <= y
  PROVE  x * c <= y * c
OBVIOUS

LEMMA TimesNext ==
  ASSUME NEW x \in Int, NEW c \in Int
  PROVE  x * c \in Int /\ (x + 1) * c = x * c + c
OBVIOUS

LEMMA DivBound ==
  ASSUME NEW g \in Nat, NEW c \in Nat \ {0}, NEW x \in Nat, x * c <= g
  PROVE  g \div c \in Nat /\ x <= g \div c
<1>1. g \div c \in Nat /\ g < (g \div c + 1) * c
  OBVIOUS
<1>2. CASE x >= g \div c + 1
  <2>1. (g \div c + 1) * c <= x * c
    BY <1>1, <1>2, TimesOrder
  <2>2. (g \div c + 1) * c \in Nat /\ x * c \in Nat
    BY <1>1
  <2>. QED  BY ONLY <1>1, <2>1, <2>2, x * c <= g, g \in Nat
<1>. QED  BY <1>1, <1>2

LEMMA ShiftTyped ==
  ASSUME NEW n \in Intervals
  PROVE  /\ Shift(n) \in 0 .. Period - 1
         /\ \E q \in Int : Listen + Ticks(n) = Shift(n) + q * Period
<1>. DEFINE x == Listen + Ticks(n)
<1>1. x \in Nat
  BY TicksNat, DiscoveryAssumption
<1>2. x % Period \in 0 .. Period - 1 /\ x \div Period \in Int
      /\ x = (x % Period) + (x \div Period) * Period
  BY <1>1, DiscoveryAssumption
<1>. QED  BY <1>2 DEF Shift

(* By what a sleep moves the window, reduced by whole periods.             *)
LEMMA SleptShift ==
  ASSUME TypeOK, NEW from \in Int, NEW to \in Int, Slept(from, to)
  PROVE  \E late \in Late : Periods(from + Shift(interval) + late - to)
<1>. USE DiscoveryAssumption
<1>1. PICK late \in Late : Periods(from + Listen + Ticks(interval) + late - to)
  BY DEF Slept
<1>2. PICK p \in Int : from + Listen + Ticks(interval) + late - to = p * Period
  BY <1>1 DEF Periods
<1>3. interval \in Intervals
  BY DEF TypeOK
<1>4. PICK q \in Int : Listen + Ticks(interval) = Shift(interval) + q * Period
  BY <1>3, ShiftTyped
<1>5. Shift(interval) \in Int /\ Ticks(interval) \in Int /\ late \in Int
  BY <1>3, ShiftTyped, TicksNat
<1>6. from + Shift(interval) + late - to = p * Period - q * Period
  BY <1>2, <1>4, <1>5
<1>7. p * Period - q * Period = (p - q) * Period /\ p - q \in Int
  OBVIOUS
<1>. QED  BY <1>6, <1>7 DEF Periods

(* A whole number of periods between two bounds less than two apart.       *)
LEMMA PeriodsBetween ==
  ASSUME NEW x \in Int, Periods(x), 0 - Period < x, x < 2 * Period
  PROVE  x = 0 \/ x = Period
<1>. USE DiscoveryAssumption
<1>1. PICK q \in Int : x = q * Period
  BY DEF Periods
<1>2. CASE q <= -1
  <2>1. q * Period <= 0 - Period
    BY <1>2
  <2>. QED  BY <1>1, <2>1
<1>3. CASE q >= 2
  <2>1. q * Period >= 2 * Period
    BY <1>3
  <2>. QED  BY <1>1, <2>1
<1>4. CASE q = 0 \/ q = 1
  BY <1>1, <1>4
<1>. QED  BY <1>2, <1>3, <1>4

(* The first window that is missed; and fewer windows than were counted.   *)
LEMMA SweptFirst ==
  ASSUME NEW n \in Intervals, NEW w \in 0 .. Gap
  PROVE  Swept(n, 1, w)
<1>1. (1 - 1) * Shift(n) = 0 /\ (1 - 1) * Back(n) = 0
  BY ShiftTyped, DiscoveryAssumption DEF Back, Most
<1>. QED  BY <1>1, DiscoveryAssumption DEF Swept, Onward, Backward, Gap

LEMMA SweptLess ==
  ASSUME NEW n \in Intervals, NEW w \in 0 .. Gap,
         NEW m \in Nat, NEW k \in Nat, k <= m, Swept(n, m, w)
  PROVE  Swept(n, k, w)
<1>. USE DiscoveryAssumption
<1>1. Shift(n) \in Nat /\ Back(n) \in Int /\ Gap \in Int /\ w \in Int
  BY ShiftTyped DEF Back, Most, Gap
<1>2. Onward(n, m, w) => Onward(n, k, w)
  <2>1. (k - 1) * Shift(n) <= (m - 1) * Shift(n)
    BY <1>1, TimesOrder
  <2>2. (k - 1) * Shift(n) \in Int /\ (m - 1) * Shift(n) \in Int
    BY <1>1
  <2>. QED  BY <1>1, <2>1, <2>2 DEF Onward
<1>3. Behind(n) /\ Backward(n, m, w) => Backward(n, k, w)
  <2>. SUFFICES ASSUME Behind(n), Backward(n, m, w)
                PROVE  Backward(n, k, w)
    OBVIOUS
  <2>1. Back(n) \in Nat
    BY <1>1 DEF Behind
  <2>2. (k - 1) * Back(n) <= (m - 1) * Back(n)
    BY <2>1, TimesOrder
  <2>3. (k - 1) * Back(n) \in Int /\ (m - 1) * Back(n) \in Int
    BY <1>1
  <2>. QED  BY <1>1, <2>2, <2>3 DEF Backward
<1>4. Sweep(n) \in Int /\ Twice(n) /\ Again(n, m, w) => Again(n, k, w)
  BY DEF Again
<1>5. Twice(n) => Sweep(n) \in Int
  BY <1>1 DEF Twice, Sweep
<1>. QED  BY <1>2, <1>3, <1>4, <1>5 DEF Swept

(* The next window that is missed, in each of the three ways.              *)
LEMMA AheadNext ==
  ASSUME NEW n \in Intervals, NEW last \in 0 .. Gap, NEW new \in 0 .. Gap, NEW late \in Late,
         Periods(last + Shift(n) + late - new), NEW m \in Nat,
         Ahead(n), Onward(n, m, last)
  PROVE  Onward(n, m + 1, new)
<1>. USE DiscoveryAssumption
<1>1. Shift(n) \in Nat /\ late \in Nat /\ late <= Latest
  BY ShiftTyped
<1>2. last + Shift(n) + late - new = 0
  <2>. DEFINE x == last + Shift(n) + late - new
  <2>1. x \in Int /\ 0 - Period < x /\ x < Period
    BY <1>1 DEF Gap, Ahead, Most
  <2>. QED  BY <2>1, PeriodsBetween
<1>3. ((m - 1) + 1) * Shift(n) = (m - 1) * Shift(n) + Shift(n) /\ (m - 1) * Shift(n) \in Int
  BY <1>1, TimesNext
<1>4. (m - 1) + 1 = (m + 1) - 1
  OBVIOUS
<1>. QED  BY <1>1, <1>2, <1>3, <1>4 DEF Onward

LEMMA BehindNext ==
  ASSUME NEW n \in Intervals, NEW last \in 0 .. Gap, NEW new \in 0 .. Gap, NEW late \in Late,
         Periods(last + Shift(n) + late - new), NEW m \in Nat,
         Behind(n), Backward(n, m, last)
  PROVE  Backward(n, m + 1, new)
<1>. USE DiscoveryAssumption
<1>1. Shift(n) \in Nat /\ late \in Nat /\ late <= Latest /\ Back(n) \in Int
  BY ShiftTyped DEF Back, Most
<1>2. last + Shift(n) + late - new = Period
  <2>. DEFINE x == last + Shift(n) + late - new
  <2>1. x \in Int /\ 0 < x /\ x < 2 * Period
    BY <1>1 DEF Gap, Behind, Back, Most
  <2>. QED  BY <2>1, PeriodsBetween
<1>3. new <= last - Back(n)
  BY <1>1, <1>2 DEF Back, Most
<1>4. ((m - 1) + 1) * Back(n) = (m - 1) * Back(n) + Back(n) /\ (m - 1) * Back(n) \in Int
  BY <1>1, TimesNext
<1>5. (m - 1) + 1 = (m + 1) - 1 /\ Gap \in Int
  BY DEF Gap
<1>. QED  BY <1>1, <1>3, <1>4, <1>5 DEF Backward

LEMMA SweepTyped ==
  ASSUME NEW n \in Intervals, 1 <= Shift(n), 0 <= Gap
  PROVE  /\ Sweep(n) \in Nat \ {0}
         /\ \A x \in Nat : x * Shift(n) <= Gap => x + 1 <= Sweep(n)
<1>. USE DiscoveryAssumption
<1>1. Shift(n) \in Nat \ {0} /\ Gap \in Nat
  BY ShiftTyped DEF Gap
<1>2. 0 * Shift(n) <= Gap
  BY <1>1
<1>3. \A x \in Nat : x * Shift(n) <= Gap => Gap \div Shift(n) \in Nat /\ x <= Gap \div Shift(n)
  BY <1>1, DivBound
<1>. QED  BY <1>2, <1>3 DEF Sweep

LEMMA TwiceNext ==
  ASSUME NEW n \in Intervals, NEW last \in 0 .. Gap, NEW new \in 0 .. Gap, NEW late \in Late,
         Periods(last + Shift(n) + late - new), NEW m \in Nat \ {0},
         Twice(n), Onward(n, m, last) \/ Again(n, m, last)
  PROVE  Onward(n, m + 1, new) \/ Again(n, m + 1, new)
<1>. USE DiscoveryAssumption
<1>. DEFINE x == last + Shift(n) + late - new
<1>1. Shift(n) \in Nat \ {0} /\ late \in Nat /\ late <= Latest /\ Most(n) \in Nat /\ Gap \in Nat
      /\ Shift(n) + late <= Most(n) /\ Gap = Period - Listen
  BY ShiftTyped DEF Most, Twice, Gap
<1>2. Sweep(n) \in Nat \ {0}
      /\ \A j \in Nat : j * Shift(n) <= Gap => j + 1 <= Sweep(n)
  BY <1>1, SweepTyped
<1>3. Sweep(n) * Most(n) \in Nat /\ Most(n) <= Sweep(n) * Most(n)
  <2>1. 1 * Most(n) <= Sweep(n) * Most(n)
    BY <1>1, <1>2, TimesOrder
  <2>. QED  BY <1>1, <1>2, <2>1
<1>4. Most(n) - Listen + Sweep(n) * Most(n) < Period
  BY DEF Twice
<1>5. x = 0 \/ x = Period
  <2>1. x \in Int /\ 0 - Period < x
    BY <1>1
  <2>2. Most(n) < Period
    BY <1>1, <1>3, <1>4
  <2>3. x < 2 * Period
    BY <1>1, <2>2
  <2>. QED  BY <2>1, <2>3, PeriodsBetween
<1>6. CASE Onward(n, m, last) /\ x = 0
  <2>1. ((m - 1) + 1) * Shift(n) = (m - 1) * Shift(n) + Shift(n) /\ (m - 1) * Shift(n) \in Int
    BY <1>1, TimesNext
  <2>2. (m - 1) + 1 = (m + 1) - 1
    OBVIOUS
  <2>3. new = last + Shift(n) + late
    <3>1. last \in Int /\ new \in Int /\ Shift(n) \in Int /\ late \in Int
      BY <1>1
    <3>2. last + Shift(n) + late - new = 0
      BY <1>6
    <3>. QED  BY <1>1, <3>1, <3>2
  <2>4. (m - 1) * Shift(n) <= last
    BY <1>6 DEF Onward
  <2>5. ((m + 1) - 1) * Shift(n) <= new
    BY <1>1, <2>1, <2>2, <2>3, <2>4
  <2>. QED  BY <2>5 DEF Onward
<1>7. CASE Onward(n, m, last) /\ x = Period
  <2>1. (m - 1) * Shift(n) <= Gap /\ m - 1 \in Nat
    <3>1. (m - 1) * Shift(n) <= last /\ (m - 1) * Shift(n) \in Int
      BY <1>1, <1>7 DEF Onward
    <3>. QED  BY <1>1, <3>1
  <2>2. m + 1 <= Sweep(n) + 0 + 1
    BY <1>2, <2>1
  <2>3. 0 * Shift(n) <= new /\ new <= Most(n) - Listen + 0 * Most(n)
    BY <1>1, <1>7
  <2>. QED  BY <2>2, <2>3 DEF Again
<1>8. CASE Again(n, m, last)
  <2>1. PICK j \in Nat : /\ m <= Sweep(n) + j + 1
                         /\ j * Shift(n) <= last
                         /\ last <= Most(n) - Listen + j * Most(n)
    BY <1>8 DEF Again
  <2>2. (j + 1) * Shift(n) = j * Shift(n) + Shift(n) /\ j * Shift(n) \in Int
        /\ (j + 1) * Most(n) = j * Most(n) + Most(n) /\ j * Most(n) \in Int
    BY <1>1, TimesNext
  <2>3. x = 0
    <3>1. j + 1 <= Sweep(n)
      BY <1>1, <1>2, <2>1, <2>2
    <3>2. (j + 1) * Most(n) <= Sweep(n) * Most(n)
      <4>1. j + 1 \in Int /\ Sweep(n) \in Int /\ Most(n) \in Nat
        BY <1>1, <1>2
      <4>. QED  BY ONLY <3>1, <4>1, TimesOrder
    <3>3. last + Most(n) < Period
      BY <1>1, <1>3, <1>4, <2>1, <2>2, <3>2
    <3>4. x < Period
      BY <1>1, <3>3
    <3>. QED  BY <1>5, <3>4
  <2>4. new = last + Shift(n) + late
    BY <1>1, <2>3
  <2>5. /\ m + 1 <= Sweep(n) + (j + 1) + 1
        /\ (j + 1) * Shift(n) <= new
        /\ new <= Most(n) - Listen + (j + 1) * Most(n)
    BY <1>1, <1>2, <2>1, <2>2, <2>4
  <2>. QED  BY <2>5 DEF Again
<1>. HIDE DEF x
<1>. QED  BY <1>5, <1>6, <1>7, <1>8

(* The window that follows, if it is missed too.                           *)
LEMMA SweptNext ==
  ASSUME TypeOK, NEW last \in 0 .. Gap, NEW new \in 0 .. Gap, Slept(last, new),
         NEW m \in Nat \ {0}, Swept(interval, m, last)
  PROVE  Swept(interval, m + 1, new)
<1>1. interval \in Intervals /\ last \in Int /\ new \in Int
  BY DEF TypeOK
<1>2. PICK late \in Late : Periods(last + Shift(interval) + late - new)
  BY <1>1, SleptShift
<1>3. Ahead(interval) => Onward(interval, m + 1, new)
  BY <1>1, <1>2, AheadNext DEF Swept
<1>4. Behind(interval) => Backward(interval, m + 1, new)
  BY <1>1, <1>2, BehindNext DEF Swept
<1>5. Twice(interval) => Onward(interval, m + 1, new) \/ Again(interval, m + 1, new)
  BY <1>1, <1>2, TwiceNext DEF Swept
<1>. QED  BY <1>3, <1>4, <1>5 DEF Swept

(* And what all this bounds.                                               *)
LEMMA SweptBounds ==
  ASSUME NEW n \in Intervals, NEW w \in 0 .. Gap, NEW m \in Nat \ {0}, Swept(n, m, w)
  PROVE  /\ Ahead(n) => m <= Sweep(n)
         /\ Behind(n) => m <= Gap \div Back(n) + 1
         /\ Twice(n) => m <= 2 * Sweep(n)
<1>. USE DiscoveryAssumption
<1>1. Shift(n) \in Nat /\ Gap \in Nat /\ m - 1 \in Nat /\ w \in Nat /\ w <= Gap
  BY ShiftTyped DEF Gap
<1>2. ASSUME 1 <= Shift(n), Onward(n, m, w)
      PROVE  m <= Sweep(n)
  <2>1. (m - 1) * Shift(n) \in Int /\ (m - 1) * Shift(n) <= w
    BY <1>1, <1>2 DEF Onward
  <2>2. (m - 1) * Shift(n) <= Gap
    BY <1>1, <2>1
  <2>3. (m - 1) + 1 <= Sweep(n) /\ Sweep(n) \in Nat
    BY <1>1, <1>2, <2>2, SweepTyped
  <2>. QED  BY <2>3
<1>3. Ahead(n) => m <= Sweep(n)
  BY <1>2 DEF Ahead, Swept
<1>4. ASSUME Behind(n)
      PROVE  m <= Gap \div Back(n) + 1
  <2>1. Back(n) \in Nat \ {0}
    BY <1>1, <1>4 DEF Behind, Back, Most
  <2>2. (m - 1) * Back(n) \in Int /\ (m - 1) * Back(n) <= Gap - w
    BY <1>1, <1>4, <2>1 DEF Swept, Backward
  <2>3. (m - 1) * Back(n) <= Gap
    BY <1>1, <2>2
  <2>4. Gap \div Back(n) \in Nat /\ m - 1 <= Gap \div Back(n)
    BY <1>1, <2>1, <2>3, DivBound
  <2>. QED  BY <2>4
<1>5. ASSUME Twice(n)
      PROVE  m <= 2 * Sweep(n)
  <2>1. 1 <= Shift(n)
    BY <1>5 DEF Twice
  <2>2. Sweep(n) \in Nat \ {0} /\ \A j \in Nat : j * Shift(n) <= Gap => j + 1 <= Sweep(n)
    BY <1>1, <2>1, SweepTyped
  <2>3. CASE Onward(n, m, w)
    BY <1>2, <2>1, <2>2, <2>3
  <2>4. CASE Again(n, m, w)
    <3>1. PICK j \in Nat : m <= Sweep(n) + j + 1 /\ j * Shift(n) <= w
      BY <2>4 DEF Again
    <3>2. j * Shift(n) \in Int
      BY <1>1
    <3>3. j + 1 <= Sweep(n)
      BY <1>1, <2>2, <3>1, <3>2
    <3>. QED  BY <2>2, <3>1, <3>3
  <2>. QED  BY <1>5, <2>3, <2>4 DEF Swept
<1>. QED  BY <1>3, <1>4, <1>5

LEMMA CalmBounds ==
  ASSUME TypeOK, Calm
  PROVE  FewMisses
<1>. USE DiscoveryAssumption
<1>. SUFFICES ASSUME air = "calm", age <= Period
              PROVE  /\ Ahead(interval) => missed <= Sweep(interval)
                     /\ Behind(interval) => missed <= Gap \div Back(interval) + 1
                     /\ Twice(interval) => missed <= 2 * Sweep(interval)
  BY DEF FewMisses
<1>1. interval \in Intervals /\ missed \in Nat
  BY DEF TypeOK
<1>2. CASE missed > 0
  <2>1. PICK last \in 0 .. Gap : Swept(interval, missed, last)
    BY <1>2 DEF Calm, Follows
  <2>. QED  BY <1>1, <1>2, <2>1, SweptBounds
<1>3. CASE missed = 0
  <2>1. Gap \in Nat /\ Back(interval) \in Int
    BY <1>1, ShiftTyped DEF Gap, Back, Most
  <2>2. 1 <= Shift(interval) => Sweep(interval) \in Nat
    BY <1>1, <2>1, SweepTyped
  <2>3. 1 <= Back(interval) => Gap \div Back(interval) \in Nat
    <3>1. 0 * Back(interval) <= Gap
      BY <2>1
    <3>. QED  BY <2>1, <3>1, DivBound
  <2>. QED  BY <1>3, <2>1, <2>2, <2>3 DEF Ahead, Behind, Twice
<1>. QED  BY <1>1, <1>2, <1>3

LEMMA SleptEarlier ==
  ASSUME TypeOK, NEW from \in Int, NEW to \in Int, Slept(from, to)
  PROVE  Slept(from, to - Period)
<1>1. PICK late \in Late : Periods(from + Listen + Ticks(interval) + late - to)
  BY DEF Slept
<1>. DEFINE x == from + Listen + Ticks(interval) + late - to
<1>2. interval \in Intervals /\ Ticks(interval) \in Nat
  BY TicksNat, DiscoveryAssumption DEF TypeOK
<1>3. x \in Int /\ from + Listen + Ticks(interval) + late - (to - Period) = x + Period
  BY <1>2, DiscoveryAssumption
<1>4. Periods(x + Period)
  BY <1>1, <1>3, PeriodsNext
<1>. QED  BY <1>3, <1>4 DEF Slept

(* A step in which the board misses nothing.                               *)
LEMMA SameCalm ==
  ASSUME Calm, TypeOK, UNCHANGED <<missed, air, interval>>,
         age' <= Period => age <= Period,
         pc' = "window" => pc = "window",
         pc' # "unheard",
         Empty' => age' - timer' >= 0,
         air = "calm" /\ age <= Period =>
           \A last \in 0 .. Gap : Coming' /\ Follows(last) => Slept(last, Lead)'
  PROVE  Calm'
<1>. SUFFICES ASSUME air = "calm", age <= Period, missed > 0
              PROVE  \E last \in 0 .. Gap : Follows(last)'
  BY DEF Calm
<1>1. PICK last \in 0 .. Gap : Follows(last)
  BY DEF Calm
<1>2. Swept(interval, missed, last)'
  BY <1>1 DEF Follows, Swept, Onward, Backward, Again, Ahead, Behind, Twice, Shift, Most, Back,
              Sweep, Gap, Ticks
<1>. QED  BY <1>1, <1>2 DEF Follows

(* The one step that adds to the windows.                                  *)
LEMMA NoParentCalm ==
  ASSUME TypeOK, Calm, NoParent
  PROVE  Calm'
<1>. SUFFICES ASSUME air = "calm", age <= Period
              PROVE  Calm'
  BY DEF NoParent, Calm, root
<1>. USE DiscoveryAssumption
<1>. DEFINE new == age - Listen
<1>1. /\ Empty /\ timer = Listen /\ pc' = "asleep" /\ UNCHANGED <<age, air, interval>>
      /\ \E late \in Late : timer' = Ticks(interval) + late
  <2>1. Len(candidates) = 0
    BY DEF NoParent
  <2>. QED  BY <2>1 DEF NoParent, ListenDone, GoToSleep, Empty, root
<1>2. missed \in Nat /\ missed' \in Nat /\ missed' <= missed + 1
  BY DEF NoParent, UpTo, TypeOK
<1>3. new \in 0 .. Gap /\ Lead = new
  BY <1>1 DEF Calm, TypeOK, Lead, Empty, Gap
<1>4. Slept(new, Lead)'
  <2>1. PICK late \in Late : timer' = Ticks(interval) + late
    BY <1>1
  <2>2. interval \in Intervals /\ Ticks(interval) \in Int /\ late \in Int /\ age \in Int
    BY TicksNat DEF TypeOK
  <2>3. Lead' = age + (Ticks(interval) + late)
    BY <1>1, <2>1 DEF Lead
  <2>4. new + Listen + Ticks(interval) + late - Lead' = 0
    BY <2>2, <2>3
  <2>5. Slept(new, Lead')
    BY <2>4, PeriodsZero DEF Slept
  <2>6. new' = new
    BY <1>1
  <2>. HIDE DEF new
  <2>. QED  BY <1>1, <2>5, <2>6 DEF Slept
<1>5. interval \in Intervals
  BY DEF TypeOK
<1>6. Swept(interval, missed + 1, new)
  <2>1. CASE missed = 0
    BY <1>3, <1>5, <2>1, SweptFirst
  <2>2. CASE missed > 0
    <3>1. PICK last \in 0 .. Gap : Follows(last)
      BY <2>2 DEF Calm
    <3>2. Swept(interval, missed, last) /\ Slept(last, new)
      BY <1>1, <1>3, <3>1 DEF Follows, Coming
    <3>. HIDE DEF new
    <3>. QED  BY <1>2, <1>3, <2>2, <3>2, SweptNext
  <2>. QED  BY <1>2, <2>1, <2>2
<1>7. Swept(interval, missed', new)
  <2>. HIDE DEF new
  <2>. QED  BY <1>2, <1>3, <1>5, <1>6, SweptLess
<1>8. new' = new /\ interval' = interval /\ ~Empty' /\ pc' = "asleep"
  BY <1>1 DEF Empty
<1>. HIDE DEF new
<1>9. Follows(new)'
  <2>1. Swept(interval', missed', new')
    BY <1>7, <1>8
  <2>. QED  BY <1>4, <2>1 DEF Follows
<1>10. \E last \in 0 .. Gap : Follows(last)'
  BY <1>3, <1>8, <1>9
<1>. QED  BY <1>8, <1>10 DEF Calm

LEMMA CalmStep ==
  ASSUME TypeOK, Calm, [Next]_vars
  PROVE  Calm'
<1>. USE DiscoveryAssumption
<1>1. CASE NoParent
  BY <1>1, NoParentCalm
<1>2. CASE Report \/ ReportLost \/ RootRestart
  BY <1>2 DEF Report, ReportLost, RootRestart, Calm, Empty
<1>3. CASE Beacon
  <2>. SUFFICES ASSUME age = Period, air' = air, air = "calm"
                PROVE  Calm'
    BY <1>3 DEF Beacon, Calm
  <2>0. age' = 0 /\ interval' = interval /\ missed' = missed
    BY <1>3 DEF Beacon, Heard, leaf
  <2>1. CASE Hears
    <3>1. PICK c : candidates' = Append(candidates, c) /\ pc' = pc
      BY <1>3, <2>1 DEF Beacon, Heard
    <3>2. candidates' # <<>> /\ pc = "listen"
      BY <2>1, <3>1 DEF Hears, TypeOK
    <3>3. ~Coming' /\ ~Empty'
      BY <3>1, <3>2 DEF Coming, Empty
    <3>. QED  BY <2>0, <3>1, <3>2, <3>3, SameCalm
  <2>2. CASE ~Hears
    <3>1. UNCHANGED <<pc, timer, candidates>>
      BY <1>3, <2>2 DEF Beacon, leaf
    <3>2. ~Empty'
      <4>1. pc = "listen" => Len(candidates) # 0
        BY <2>2 DEF Hears
      <4>. QED  BY <3>1, <4>1 DEF Empty
    <3>3. ASSUME NEW last \in 0 .. Gap, Coming', Follows(last)
          PROVE  Slept(last, Lead)'
      <4>1. pc = "asleep"
        BY <3>1, <3>2, <3>3 DEF Coming
      <4>2. Slept(last, Lead) /\ last \in Int
        BY <3>3, <4>1 DEF Follows, Coming
      <4>3. Lead \in Int /\ Lead' = Lead - Period
        BY <2>0, <3>1, <4>1 DEF Lead, TypeOK
      <4>4. Slept(last, Lead')
        BY <4>2, <4>3, SleptEarlier
      <4>. QED  BY <2>0, <4>4 DEF Slept
    <3>4. pc' # "unheard"
      BY <3>1 DEF Calm
    <3>. QED  BY <2>0, <3>1, <3>2, <3>3, <3>4, SameCalm
  <2>. QED  BY <2>1, <2>2
<1>4. CASE Stray
  <2>1. PICK c : candidates' = Append(candidates, c) /\ UNCHANGED <<pc, missed, air, age, interval>>
    BY <1>4 DEF Stray, Heard, history, root
  <2>2. candidates' # <<>> /\ pc = "listen"
    BY <1>4, <2>1 DEF Stray, Hears, TypeOK
  <2>3. ~Coming' /\ ~Empty'
    BY <2>1, <2>2 DEF Coming, Empty
  <2>. QED  BY <2>1, <2>2, <2>3, SameCalm
<1>5. CASE Wake
  <2>1. /\ pc = "asleep" /\ timer = 0 /\ pc' = "listen" /\ candidates' = <<>>
        /\ UNCHANGED <<age, timer, missed, air, interval>>
    BY <1>5 DEF Wake, root, history
  <2>2. age \in Nat
    BY DEF TypeOK
  <2>3. Lead' = Lead /\ Empty' /\ age' - timer' = age
    BY <2>1, <2>2 DEF Lead, Empty
  <2>4. ASSUME NEW last \in 0 .. Gap, Follows(last)
        PROVE  Slept(last, Lead)'
    BY <2>1, <2>3, <2>4 DEF Follows, Coming, Slept
  <2>. QED  BY <2>1, <2>2, <2>3, <2>4, SameCalm
<1>6. CASE SelectStart \/ Select \/ Die
  <2>1. pc' \in {"select", "dead"} /\ UNCHANGED <<missed, air, age, interval>>
    BY <1>6 DEF SelectStart, Select, Die, history, root
  <2>2. ~Coming' /\ ~Empty'
    BY <2>1 DEF Coming, Empty
  <2>. QED  BY <2>1, <2>2, SameCalm
<1>7. CASE HearConfig \/ HearNoConfig
  <2>1. pc \in {"window", "unheard"} /\ pc' = "asleep" /\ UNCHANGED <<missed, air, age>>
    BY <1>7 DEF HearConfig, HearNoConfig, InWindow, GoToSleep, history, root
  <2>. QED  BY <2>1 DEF Calm, Empty, TypeOK
<1>8. CASE SetConfig \/ UNCHANGED vars
  <2>1. UNCHANGED <<age, pc, timer, candidates, missed, air, interval>>
    BY <1>8 DEF SetConfig, root, leaf, history, vars
  <2>2. Lead' = Lead /\ Coming' = Coming /\ Empty' = Empty
    BY <2>1 DEF Lead, Coming, Empty
  <2>3. ASSUME NEW last \in 0 .. Gap, Coming', Follows(last)
        PROVE  Slept(last, Lead)'
    BY <2>1, <2>2, <2>3 DEF Follows, Slept
  <2>4. CASE air = "calm" /\ age <= Period
    BY <2>1, <2>2, <2>3, <2>4, SameCalm DEF Calm
  <2>5. CASE ~(air = "calm" /\ age <= Period)
    BY <2>1, <2>5 DEF Calm
  <2>. QED  BY <2>4, <2>5
<1>9. CASE Tick
  <2>1. UNCHANGED <<pc, candidates, missed, air, interval>> /\ age' = age + 1
    BY <1>9 DEF Tick, history
  <2>2. /\ pc = "asleep" => timer' = timer - 1
        /\ pc = "listen" => timer' = timer + 1
    BY <1>9 DEF Tick
  <2>3. age \in Nat /\ timer \in Nat
    BY DEF TypeOK
  <2>4. Coming => Lead' = Lead
    BY <2>1, <2>2, <2>3 DEF Lead, Coming, Empty
  <2>5. Empty' = Empty /\ Coming' = Coming /\ (Empty => age' - timer' = age - timer)
    BY <2>1, <2>2, <2>3 DEF Coming, Empty
  <2>6. ASSUME NEW last \in 0 .. Gap, Coming', Follows(last)
        PROVE  Slept(last, Lead)'
    BY <2>1, <2>4, <2>5, <2>6 DEF Follows, Slept
  <2>7. CASE air = "calm" /\ age <= Period
    BY <2>1, <2>3, <2>5, <2>6, <2>7, SameCalm DEF Calm
  <2>8. CASE ~(air = "calm" /\ age <= Period)
    BY <2>1, <2>3, <2>8 DEF Calm
  <2>. QED  BY <2>7, <2>8
<1>. QED  BY <1>1, <1>2, <1>3, <1>4, <1>5, <1>6, <1>7, <1>8, <1>9 DEF Next

(* While the beacons are on time and no DATA frame is lost, a board whose  *)
(* interval does not let it step over the beacon, or lets it only once,    *)
(* misses no more windows in a row than it takes to sweep the gap between  *)
(* two beacons: for every period, window, lateness and interval.           *)
THEOREM DiscoveryFewMisses == Spec => []FewMisses
<1>1. Init => Calm
  BY DEF Init, Calm, Empty
<1>2. TypeOK /\ Calm /\ [Next]_vars => Calm'
  BY CalmStep
<1>3. TypeOK /\ Calm => FewMisses
  BY CalmBounds
<1>. QED  BY <1>1, <1>2, <1>3, DiscoveryTyped, PTL DEF Spec
=============================================================================

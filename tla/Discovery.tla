----------------------------- MODULE Discovery -----------------------------
(***************************************************************************)
(* A board that sleeps, a root that beacons and a dashboard that judges    *)
(* from the outside which boards are gone (leaf_main.c, root_main.c,       *)
(* mesh_parent_select.c, hub/api.py).                                      *)
(*                                                                         *)
(* Nothing but their clocks coordinates the two radios. Time passes in     *)
(* ticks; whatever is due in a tick happens, in any order, before the next *)
(* one. What a DATA frame takes to reach the hub's tables is less than a   *)
(* tick; CheckIn has its way in detail.                                    *)
(***************************************************************************)
EXTENDS Integers, Sequences

CONSTANTS
  Second,             \* ticks in a second of time.time()
  Period, Slack,      \* BEACON_INTERVAL_MS, and how late the loop may look at it
  Listen, MaxCandidates,
                      \* DISCOVERY_LISTEN_TIMEOUT_MS, MAX_PARENT_CANDIDATES
  Window,             \* CONFIG_LISTEN_TIMEOUT_MS
  Intervals, DefaultInterval,   \* wake intervals; the one of both defaults
  Late, Latest,       \* what a board may lose on waking and starting; the most of it
  Root, Rssi, Strays, \* beacons: the root's short address, how strong it may be
                      \* heard, and those of other beaconers
  Cap,                \* bound of the model: clocks stop there
  MissCap             \* bound of the model: missed windows are not counted further

ASSUME DiscoveryAssumption ==
  /\ Second \in Nat \ {0} /\ Period \in Nat \ {0} /\ Slack \in Nat
  /\ Listen \in 1 .. Period /\ MaxCandidates \in Nat \ {0} /\ Window \in Nat \ {0}
  /\ Cap \in Nat /\ MissCap \in Nat \ {0}
  /\ DefaultInterval \in Intervals
  /\ \A n \in Intervals : n \in Nat \ {0} /\ 2 * n + 1 < Cap
  /\ Latest \in Nat /\ Late \subseteq 0 .. Latest /\ 0 \in Late
  /\ Strays \subseteq [sender : Nat, hop : Nat, rssi : Int]
  /\ Root \in Nat /\ Rssi \subseteq Int

(* Starting and both windows take a board no longer than its sleep.        *)
Ticks(seconds) == Second * seconds

IntervalAssumption ==
  \A n \in Intervals, late \in Late : late + Listen + Window <= Ticks(n)

VARIABLES
  age,            \* root: ticks since last_beacon
  pc, timer,      \* leaf: what it does, and the ticks left of it or gone in it
  candidates,     \* leaf: the beacons it heard
  i, best,        \* select_parent's loop: how far it is, its best so far
  interval,       \* the wake interval in the board's flash
  phase,          \* hub: ticks since its clock's second began
  stored,         \* hub: its configured interval, or None
  last_seen_at,   \* hub: "NULL" or "set"
  silent,         \* hub: seconds since it was set
  missed,         \* history: windows since the last report
  air             \* history: "calm" if since the last report every beacon was on
                  \* time and no DATA frame was lost, else "rough"

root == age
leaf == <<pc, timer, candidates, i, best, interval>>
hub == <<phase, stored, last_seen_at, silent>>
history == <<missed, air>>
vars == <<age, pc, timer, candidates, i, best, interval,
          phase, stored, last_seen_at, silent, missed, air>>

None == 0
Candidate == [sender : Nat, hop : Nat, rssi : Int]
UpTo(n, bound) == IF n > bound THEN bound ELSE n

-----------------------------------------------------------------------------
(* The dashboard's query and rule: int(time.time()) - last_seen_at is the  *)
(* number of whole seconds in silent.                                      *)
Expected == IF stored = None THEN DefaultInterval ELSE stored

(* Seeded faults: the rule without its factor, and without its first       *)
(* condition.                                                              *)
OfflineEager == last_seen_at = "NULL" \/ silent > Expected
OfflineIfSeen == last_seen_at = "set" /\ silent > 2 * Expected

Offline == last_seen_at = "NULL" \/ silent > 2 * Expected

(* An operator stores a configuration.                                     *)
SetConfig == /\ stored' \in Intervals
             /\ UNCHANGED <<root, leaf, phase, last_seen_at, silent, history>>

-----------------------------------------------------------------------------
(* A seeded fault: a full buffer is written past its end.                  *)
HearsFull == pc = "listen"

Hears == pc = "listen" /\ Len(candidates) < MaxCandidates

Heard(c) == /\ candidates' = Append(candidates, c)
            /\ UNCHANGED <<pc, timer, i, best, interval>>

(* The root. last_beacon starts when it boots.                             *)
Beacon == /\ age >= Period
          /\ age' = 0
          /\ air' = IF age = Period THEN air ELSE "rough"
          /\ IF Hears
               THEN \E rssi \in Rssi : Heard([sender |-> Root, hop |-> 0, rssi |-> rssi])
               ELSE UNCHANGED leaf
          /\ UNCHANGED <<hub, missed>>

RootRestart == /\ age' = 0
               /\ air' = "rough"
               /\ UNCHANGED <<leaf, hub, missed>>

(* A second root, or a rebooted one, on the same channel. Its period is    *)
(* the same and longer than the window.                                    *)
Stray == /\ Hears
         /\ \E c \in Strays : (\A k \in DOMAIN candidates : candidates[k] # c) /\ Heard(c)
         /\ UNCHANGED <<root, hub, history>>

-----------------------------------------------------------------------------
(* The leaf.                                                               *)
Wake == /\ pc = "asleep" /\ timer = 0
        /\ pc' = "listen"
        /\ candidates' = <<>>
        /\ UNCHANGED <<root, timer, i, best, interval, hub, history>>

(* sleep_wake_go_to_sleep, and the start after it.                         *)
GoToSleep(seconds) == /\ pc' = "asleep"
                      /\ \E late \in Late : timer' = Ticks(seconds) + late
                      /\ candidates' = <<>>
                      /\ i' = 0 /\ best' = 0

(* A seeded fault: half the time is enough.                                *)
ListenDoneEarly == timer = Listen \div 2 \/ Len(candidates) = MaxCandidates

ListenDone == timer = Listen \/ Len(candidates) = MaxCandidates

NoParent == /\ pc = "listen" /\ ListenDone /\ candidates = <<>>
            /\ GoToSleep(interval)
            /\ missed' = IF air = "calm" THEN UpTo(missed + 1, MissCap) ELSE UpTo(1, MissCap)
            /\ UNCHANGED <<root, interval, hub, air>>

(* select_parent.                                                          *)
SelectStart == /\ pc = "listen" /\ ListenDone /\ candidates # <<>>
               /\ pc' = "select"
               /\ timer' = 0
               /\ best' = 1
               /\ i' = 2
               /\ UNCHANGED <<root, candidates, interval, hub, history>>

(* A seeded fault: strength decides whatever the hop count.                *)
BetterLoud(c, b) == c.hop < b.hop \/ c.rssi > b.rssi

Better(c, b) == c.hop < b.hop \/ (c.hop = b.hop /\ c.rssi > b.rssi)

Select == /\ pc = "select" /\ i <= Len(candidates)
          /\ best' = IF Better(candidates[i], candidates[best]) THEN i ELSE best
          /\ i' = i + 1
          /\ UNCHANGED <<root, pc, timer, candidates, interval, hub, history>>

Selected == pc = "select" /\ i > Len(candidates)

(* JOIN to the parent, the reading and DATA; the hub stores it.            *)
Report == /\ Selected
          /\ pc' = "window"
          /\ candidates' = <<>> /\ i' = 0 /\ best' = 0
          /\ last_seen_at' = "set"
          /\ silent' = 0
          /\ missed' = 0
          /\ air' = "calm"
          /\ UNCHANGED <<root, timer, interval, phase, stored>>

(* Transmissions are neither acknowledged nor repeated.                    *)
ReportLost == /\ Selected
              /\ pc' = "unheard"
              /\ candidates' = <<>> /\ i' = 0 /\ best' = 0
              /\ missed' = IF air = "calm" THEN UpTo(missed + 1, MissCap) ELSE UpTo(1, MissCap)
              /\ air' = "rough"
              /\ UNCHANGED <<root, timer, interval, hub>>

InWindow == pc \in {"window", "unheard"}

(* The configuration window: the hub's answer to DATA, if there is one and *)
(* it is the first frame to arrive; or another frame, or none.             *)
HearConfig == /\ pc = "window" /\ stored # None
              /\ interval' = stored
              /\ GoToSleep(interval')
              /\ UNCHANGED <<root, hub, history>>

HearNoConfig == /\ InWindow
                /\ GoToSleep(interval)
                /\ UNCHANGED <<root, interval, hub, history>>

(* The battery is empty.                                                   *)
Die == /\ pc' = "dead"
       /\ timer' = 0
       /\ candidates' = <<>> /\ i' = 0 /\ best' = 0
       /\ pc # "dead"
       /\ UNCHANGED <<root, interval, hub, history>>

-----------------------------------------------------------------------------
(* Time.                                                                   *)
Due == \/ age = Period + Slack
       \/ pc = "asleep" /\ timer = 0
       \/ pc = "listen" /\ ListenDone
       \/ pc = "select"
       \/ InWindow /\ timer = Window

Tick == /\ ~Due
        /\ age' = age + 1
        /\ \/ pc = "asleep" /\ timer' = timer - 1
           \/ pc = "dead" /\ timer' = timer
           \/ pc \notin {"asleep", "dead"} /\ timer' = timer + 1
        /\ phase' = IF phase = Second - 1 THEN 0 ELSE phase + 1
        /\ silent' = IF last_seen_at = "set" /\ phase' = 0 THEN UpTo(silent + 1, Cap) ELSE silent
        /\ UNCHANGED <<pc, candidates, i, best, interval, stored, last_seen_at, history>>

-----------------------------------------------------------------------------
(* A board that has just been claimed: the hub has no configuration of it, *)
(* but its flash may hold one from before a factory reset.                 *)
Init == /\ age \in 0 .. Period
        /\ pc = "asleep" /\ timer = 0
        /\ candidates = <<>> /\ i = 0 /\ best = 0
        /\ interval \in Intervals
        /\ stored = None
        /\ phase \in 0 .. Second - 1
        /\ last_seen_at = "NULL" /\ silent = 0
        /\ missed = 0 /\ air = "calm"

Next == \/ SetConfig
        \/ Beacon \/ RootRestart \/ Stray
        \/ Wake \/ NoParent \/ SelectStart \/ Select
        \/ Report \/ ReportLost \/ HearConfig \/ HearNoConfig \/ Die
        \/ Tick

(* Time passes, and the root's loop runs.                                  *)
Spec == Init /\ [][Next]_vars /\ WF_vars(Tick) /\ WF_vars(Beacon)

-----------------------------------------------------------------------------
TypeOK == /\ age \in 0 .. Period + Slack
          /\ pc \in {"asleep", "listen", "select", "window", "unheard", "dead"}
          /\ timer \in Nat
          /\ pc = "listen" => timer <= Listen
          /\ pc = "select" => timer = 0
          /\ InWindow => timer <= Window
          /\ candidates \in Seq(Candidate) /\ Len(candidates) <= MaxCandidates
          /\ i \in 0 .. MaxCandidates + 1
          /\ best \in 0 .. MaxCandidates
          /\ interval \in Intervals
          /\ phase \in 0 .. Second - 1
          /\ stored \in Intervals \cup {None}
          /\ last_seen_at \in {"NULL", "set"}
          /\ silent \in 0 .. Cap
          /\ missed \in 0 .. MissCap
          /\ air \in {"calm", "rough"}

(* The loop settles on a beacon of the least hop count, and of those on a  *)
(* strongest (mesh_parent_select.c:3-17).                                  *)
ParentIsBest ==
  Selected =>
    \A k \in DOMAIN candidates :
      /\ candidates[best].hop <= candidates[k].hop
      /\ candidates[best].hop = candidates[k].hop => candidates[best].rssi >= candidates[k].rssi

(* A board that lives, and sleeps no longer than the hub takes it to, is   *)
(* shown offline only after it has missed a window (api.py:65-66).         *)
OfflineOnlyAfterMiss ==
  last_seen_at = "set" /\ Offline /\ pc # "dead" /\ interval <= Expected => missed > 0

(* Between two beacons there is a gap in which a whole window fits; and    *)
(* each cycle moves the window on within the root's period, by Shift for a *)
(* board that starts at once. A window that moves on by less than its own  *)
(* length cannot step over the beacon (Ahead), nor one that moves back by  *)
(* less (Behind); or else it may step over it once, but not twice (Twice). *)
Gap == Period - Listen
Shift(n) == (Listen + Ticks(n)) % Period
Most(n) == Shift(n) + Latest
Back(n) == Period - Most(n)
Sweep(n) == Gap \div Shift(n) + 1

Ahead(n) == 1 <= Shift(n) /\ Most(n) < Listen
Behind(n) == Gap < Shift(n) /\ 1 <= Back(n)
Twice(n) == 1 <= Shift(n) /\ Most(n) - Listen + Sweep(n) * Most(n) < Period

(* With beacons on time and no loss, a board misses no more windows in a   *)
(* row than its interval makes it take to sweep the gap (leaf_main.c:24-54,*)
(* root_main.c:79-85). The default interval is such a one; nothing is said *)
(* of those that are not, as 28 seconds, at which a board may miss any     *)
(* number, nor while a beacon is late, since what is calm is not yet known.*)
FewMisses ==
  air = "calm" /\ age <= Period =>
    /\ Ahead(interval) => missed <= Sweep(interval)
    /\ Behind(interval) => missed <= Gap \div Back(interval) + 1
    /\ Twice(interval) => missed <= 2 * Sweep(interval)

(* What the plan of the mesh promises: while no beacon is late and no DATA *)
(* is lost, every wake cycle of a board brings its data to the hub (M5     *)
(* plan:18). The code does not: leaf_main.c:38-43 goes back to sleep.      *)
DataWithinCycle == air = "calm" /\ age <= Period => missed = 0

(* What the hub's comment says of its rule: a board is judged by the       *)
(* interval it has (api.py:61-66). The code takes the one that is stored,  *)
(* and its default if none is.                                             *)
OfflineByOwnInterval == last_seen_at = "set" /\ Offline => silent > 2 * interval

(* A board that dies is shown offline, and for good (api.py:66).           *)
DeadShownOffline == pc = "dead" ~> [](Offline)
=============================================================================

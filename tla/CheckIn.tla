------------------------------ MODULE CheckIn ------------------------------
(***************************************************************************)
(* How an operator's configuration reaches a board: the web thread that    *)
(* stores it, the hub's poll thread that answers a DATA frame with it, the *)
(* serial line, the dongle's loop, the radio, and the one second in which  *)
(* the board looks at the first frame it gets.                             *)
(*                                                                         *)
(* One board is followed in detail; the others, the frames meant for them  *)
(* included, are its environment.  A configuration is the number of the    *)
(* operator's request that set it, so that newer and older can be told     *)
(* apart; 0 is no configuration, which is what a board starts with.        *)
(***************************************************************************)
EXTENDS Naturals, Sequences

CONSTANTS
  MaxVersion,     \* bound: how often the operator sets the board's configuration
  LineCap,        \* bound: lines under way on the serial port, per direction
  QueueCap,       \* depth of the radio's receive queue (8 in the code)
  MaxRestarts,    \* bound: how often the hub's process dies
  MaxPowerLosses  \* bound: how often the board loses power

ASSUME CheckInAssumption == /\ MaxVersion \in Nat
                            /\ LineCap \in Nat \ {0}
                            /\ QueueCap \in Nat \ {0}
                            /\ MaxRestarts \in Nat
                            /\ MaxPowerLosses \in Nat

Versions == 0 .. MaxVersion
Frame == [to : {"me", "other", "all"}, version : Versions]
Beacon == [to |-> "all", version |-> 0]

VARIABLES
  version,        \* number of set_desired_config calls so far
  desired, saved, \* the board's node_config row: on the connection, and on disk
  setting,        \* requests whose upsert is done and whose commit is not
  acked,          \* history: newest configuration the operator was told is set
  lost,           \* history: configurations a restart has rolled back
  restarts,
  poll,           \* the poll thread, the sender it answers and what it read
  uplink,         \* DATA lines from the dongle, by sender
  downlink,       \* CONFIG lines to the dongle
  step,           \* where the board is in leaf_main_run
  inbox,          \* the board's s_rx_queue
  taking,         \* the configuration being applied
  wake, dry,      \* the configurations the two keys in flash come from
  losses

hub == <<version, desired, saved, setting, acked, lost, restarts>>
line == <<uplink, downlink>>
board == <<step, inbox, taking, wake, dry, losses>>
vars == <<version, desired, saved, setting, acked, lost, restarts, poll,
          uplink, downlink, step, inbox, taking, wake, dry, losses>>

Awake == step # "asleep"

TypeOK == /\ version \in Versions
          /\ desired \in Versions
          /\ saved \in Versions
          /\ setting \subseteq Versions
          /\ acked \in Versions
          /\ lost \subseteq Versions
          /\ restarts \in 0 .. MaxRestarts
          /\ poll \in [at : {"read", "config", "push"},
                       from : {"me", "other"}, version : Versions]
          /\ uplink \in Seq({"me", "other"})
          /\ downlink \in Seq(Frame)
          /\ step \in {"asleep", "discover", "found", "window", "set_wake", "set_dry"}
          /\ inbox \in Seq(Frame)
          /\ Len(inbox) <= QueueCap
          /\ taking \in Versions
          /\ wake \in Versions
          /\ dry \in Versions
          /\ losses \in 0 .. MaxPowerLosses

Reading == [at |-> "read", from |-> "other", version |-> 0]

Init == /\ version = 0
        /\ desired = 0 /\ saved = 0
        /\ setting = {}
        /\ acked = 0
        /\ lost = {}
        /\ restarts = 0
        /\ poll = Reading
        /\ uplink = <<>> /\ downlink = <<>>
        /\ step = "asleep"
        /\ inbox = <<>>
        /\ taking = 0
        /\ wake = 0 /\ dry = 0
        /\ losses = 0

-----------------------------------------------------------------------------
(* Seeded faults, for showing that the properties notice them: a web       *)
(* thread that sends CONFIG itself, a commit left out, a radio queue       *)
(* without a limit, a board that skips the interval it already has.        *)
SetPushes(v) == /\ v \in setting
                /\ saved' = desired
                /\ setting' = setting \ {v}
                /\ acked' = IF v > acked THEN v ELSE acked
                /\ downlink' = Append(downlink, [to |-> "me", version |-> v])
                /\ UNCHANGED <<version, desired, lost, restarts, poll, uplink, board>>

SetUncommitted(v) == /\ v \in setting
                     /\ setting' = setting \ {v}
                     /\ acked' = IF v > acked THEN v ELSE acked
                     /\ UNCHANGED <<version, desired, saved, lost, restarts, poll, line, board>>

ReceiveUnlimited(f) == inbox' = Append(inbox, f)

HearNews == /\ step = "window"
            /\ inbox # <<>>
            /\ IF Head(inbox).to = "me" /\ Head(inbox).version # wake
               THEN step' = "set_wake" /\ taking' = Head(inbox).version
               ELSE step' = "asleep" /\ taking' = 0
            /\ inbox' = Tail(inbox)
            /\ UNCHANGED <<hub, poll, line, wake, dry, losses>>

(* The operator: set_desired_config's upsert, and its commit, after which  *)
(* the request is answered.                                                *)
SetStore == /\ version < MaxVersion                                  \* bound
            /\ version' = version + 1
            /\ desired' = version + 1
            /\ setting' = setting \cup {version + 1}
            /\ UNCHANGED <<saved, acked, lost, restarts, poll, line, board>>

SetCommit(v) == /\ v \in setting
                /\ saved' = desired
                /\ setting' = setting \ {v}
                /\ acked' = IF v > acked THEN v ELSE acked
                /\ UNCHANGED <<version, desired, lost, restarts, poll, line, board>>

(* The poll thread: ingest_data_frame, whose commit is everybody's ...     *)
PollIngest == /\ poll.at = "read"
              /\ uplink # <<>>
              /\ poll' = [at |-> "config", from |-> Head(uplink), version |-> 0]
              /\ uplink' = Tail(uplink)
              /\ saved' = desired
              /\ UNCHANGED <<version, desired, setting, acked, lost, restarts, downlink, board>>

(* ... then maybe_push_config: nothing to push, or a row that is read ...  *)
PollNoConfig == /\ poll.at = "config"
                /\ poll.from = "me" => desired = 0
                /\ poll' = Reading
                /\ UNCHANGED <<hub, line, board>>

PollConfig == /\ poll.at = "config"
              /\ poll.from = "me" => desired # 0
              /\ poll' = [poll EXCEPT !.at = "push",
                                      !.version = IF poll.from = "me" THEN desired ELSE 0]
              /\ UNCHANGED <<hub, line, board>>

(* ... and sent, whatever has happened to the row in between.              *)
PollPush == /\ poll.at = "push"
            /\ Len(downlink) < LineCap                               \* bound
            /\ downlink' = Append(downlink, [to |-> poll.from, version |-> poll.version])
            /\ poll' = Reading
            /\ UNCHANGED <<hub, uplink, board>>

(* The process dies and starts again: what nobody committed is rolled      *)
(* back, and opening the port discards what had come in.                   *)
Restart == /\ restarts < MaxRestarts                                 \* bound
           /\ restarts' = restarts + 1
           /\ desired' = saved
           /\ lost' = lost \cup ((saved + 1) .. desired)
           /\ setting' = {}
           /\ poll' = Reading
           /\ uplink' = <<>>
           /\ UNCHANGED <<version, saved, acked, downlink, board>>

-----------------------------------------------------------------------------
(* The radio's callback: a full queue drops the frame.                     *)
Receive(f) == inbox' = IF Len(inbox) < QueueCap THEN Append(inbox, f) ELSE inbox

(* The dongle: a beacon, which the board hears if it is awake and in luck, *)
(* and the next line from the hub, sent once and heard or not.             *)
BeaconHeard == /\ Awake
               /\ Receive(Beacon)
               /\ UNCHANGED <<hub, poll, line, step, taking, wake, dry, losses>>

RelayHeard == /\ downlink # <<>>
              /\ Awake
              /\ Receive(Head(downlink))
              /\ downlink' = Tail(downlink)
              /\ UNCHANGED <<hub, poll, uplink, step, taking, wake, dry, losses>>

RelayMissed == /\ downlink # <<>>
               /\ downlink' = Tail(downlink)
               /\ UNCHANGED <<hub, poll, uplink, board>>

(* Another board reports.                                                  *)
OtherReports == /\ Len(uplink) < LineCap                             \* bound
                /\ uplink' = Append(uplink, "other")
                /\ UNCHANGED <<hub, poll, downlink, board>>

-----------------------------------------------------------------------------
(* The board.  ieee802154_radio_init gives every wake an empty queue.      *)
Wake == /\ step = "asleep"
        /\ step' = "discover"
        /\ inbox' = <<>>
        /\ UNCHANGED <<hub, poll, line, taking, wake, dry, losses>>

(* listen_for_beacons takes frames one by one and forgets what is not a    *)
(* beacon; it stops at its deadline, or with as many candidates as it has  *)
(* room for, and frames may then be left in the queue.                     *)
Listen == /\ step \in {"discover", "found"}
          /\ inbox # <<>>
          /\ step' = IF Head(inbox).to = "all" THEN "found" ELSE step
          /\ inbox' = Tail(inbox)
          /\ UNCHANGED <<hub, poll, line, taking, wake, dry, losses>>

NoParent == /\ step = "discover"
            /\ step' = "asleep"
            /\ inbox' = <<>>
            /\ UNCHANGED <<hub, poll, line, taking, wake, dry, losses>>

(* JOIN and DATA go out; the DATA may reach the hub or not.                *)
ReportHeard == /\ step = "found"
               /\ Len(uplink) < LineCap                              \* bound
               /\ uplink' = Append(uplink, "me")
               /\ step' = "window"
               /\ UNCHANGED <<hub, poll, downlink, inbox, taking, wake, dry, losses>>

ReportLost == /\ step = "found"
              /\ step' = "window"
              /\ UNCHANGED <<hub, poll, line, inbox, taking, wake, dry, losses>>

(* listen_and_apply_config: the first frame decides, CONFIG for this board *)
(* or not, and without one the window times out.                           *)
Hear == /\ step = "window"
        /\ inbox # <<>>
        /\ IF Head(inbox).to = "me"
           THEN step' = "set_wake" /\ taking' = Head(inbox).version
           ELSE step' = "asleep" /\ taking' = 0
        /\ inbox' = Tail(inbox)
        /\ UNCHANGED <<hub, poll, line, wake, dry, losses>>

TimeOut == /\ step = "window"
           /\ inbox = <<>>
           /\ step' = "asleep"
           /\ UNCHANGED <<hub, poll, line, inbox, taking, wake, dry, losses>>

(* node_config_apply writes one key after the other.                       *)
SetWake == /\ step = "set_wake"
           /\ wake' = taking
           /\ step' = "set_dry"
           /\ UNCHANGED <<hub, poll, line, inbox, taking, dry, losses>>

SetDry == /\ step = "set_dry"
          /\ dry' = taking
          /\ step' = "asleep"
          /\ inbox' = <<>>
          /\ taking' = 0
          /\ UNCHANGED <<hub, poll, line, wake, losses>>

PowerLoss == /\ Awake
             /\ losses < MaxPowerLosses                              \* bound
             /\ losses' = losses + 1
             /\ step' = "asleep"
             /\ inbox' = <<>>
             /\ taking' = 0
             /\ UNCHANGED <<hub, poll, line, wake, dry>>

-----------------------------------------------------------------------------
Poll == PollIngest \/ PollNoConfig \/ PollConfig \/ PollPush
Web == SetStore \/ \E v \in Versions : SetCommit(v)
Air == BeaconHeard \/ RelayHeard \/ RelayMissed \/ OtherReports
Leaf == Wake \/ Listen \/ NoParent \/ ReportHeard \/ ReportLost
        \/ Hear \/ TimeOut \/ SetWake \/ SetDry

Next == Poll \/ Web \/ Air \/ Leaf \/ Restart \/ PowerLoss

Spec == Init /\ [][Next]_vars

(* The answer is at the dongle while the board still waits for its first   *)
(* frame.                                                                  *)
Answered == /\ step = "window"
            /\ inbox = <<>>
            /\ downlink # <<>>
            /\ Head(downlink) = [to |-> "me", version |-> desired]

(* The board runs its code, and the radio does not lose every answer that  *)
(* comes in time.                                                          *)
FairSpec == Spec /\ WF_vars(Hear \/ SetWake \/ SetDry)
                 /\ SF_vars(RelayHeard /\ Answered)

-----------------------------------------------------------------------------
(* The operator is told "set" only of what a restart cannot take back,     *)
(* whoever's commit made it durable, and no restart rolls it back.         *)
AckedIsDurable == acked <= saved /\ acked \notin lost

(* What makes it inductive: the hub's own three views are in order, and a  *)
(* number that was lost is none that anybody still counts on.              *)
Committing == /\ saved <= desired /\ desired <= version
              /\ setting \subseteq 1 .. desired
              /\ lost \subseteq 1 .. version
              /\ lost \cap (setting \cup {saved, desired}) = {}

(* A board's configuration never goes back to an older one, though the     *)
(* poll thread may push what has been replaced meanwhile and frames wait   *)
(* in three queues: the one exception is a newer one that the hub itself   *)
(* lost, having pushed it before it was committed.                         *)
NeverBack == [][/\ wake' < wake => wake \in lost
                /\ dry' < dry => dry \in lost]_vars

(* What makes it inductive: from the board's flash back to the hub's table *)
(* a configuration has six places, and what is nearer to the board is no   *)
(* newer than what is farther, unless it was lost.                         *)
Keys == {wake, dry}
Taken == IF step \in {"set_wake", "set_dry"} THEN {taking} ELSE {}
Mine(q) == {q[i].version : i \in {j \in DOMAIN q : q[j].to = "me"}}
Asked == IF poll.at = "push" /\ poll.from = "me" THEN {poll.version} ELSE {}

Precedes(S, T) == \A x \in S, y \in T : y < x => x \in lost
InOrder(q) == \A i, j \in DOMAIN q : i < j /\ q[i].to = "me" /\ q[j].to = "me"
                /\ q[j].version < q[i].version => q[i].version \in lost

Ordered == /\ Precedes(Keys, Taken)
           /\ Precedes(Keys \cup Taken, Mine(inbox))
           /\ Precedes(Keys \cup Taken \cup Mine(inbox), Mine(downlink))
           /\ Precedes(Keys \cup Taken \cup Mine(inbox) \cup Mine(downlink), Asked)
           /\ Precedes(Keys \cup Taken \cup Mine(inbox) \cup Mine(downlink) \cup Asked,
                       {desired})
           /\ InOrder(inbox) /\ InOrder(downlink)
           /\ Keys \cup Taken \cup Mine(inbox) \cup Mine(downlink) \cup Asked
                \subseteq 0 .. version

(* Every window starts afresh with what the hub wants, so a write torn by  *)
(* a power loss, a window spent on a beacon and a hub that restarts are    *)
(* all repaired: a board that again and again has its answer in time ends  *)
(* up with both keys as configured.                                        *)
EndsConfigured == []<>Answered => <>[](wake = desired /\ dry = desired)
=============================================================================

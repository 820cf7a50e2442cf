# office-plant in TLA+

office-plant is a mesh of plant-watering sensors. Battery boards (`src/firmware/`, C on ESP-IDF) wake
up, look for a parent, report a soil-moisture reading over 802.15.4 and sleep again. A dongle on a USB
serial port (the same firmware, built as root) relays between the air and a hub process (`src/hub/`,
Python: FastAPI, sqlite, pyserial), which stores readings, hands out addresses and pushes
configurations. `src/sim/` is the reference simulation of the mesh protocol.

These modules model that code, TLC checks them on small instances, and TLAPS proves every safety
invariant that a passing run checks, and the safety properties of steps, for every value of the constants. Section numbers ("spec section 4.2") refer to
`src/docs/superpowers/specs/2026-08-16-office-plant-swarm-design.md`.

## 1. Inventory

| Component | State | Operations | Interacts through | What makes it correct |
|---|---|---|---|---|
| Hub storage (`hub/models.py`, `ingest.py`) | tables `nodes`, `readings`, `node_config`; ONE connection with its implicit transaction, shared by all threads | `ingest_data_frame`: upsert, insert, commit | every other part of the hub | rows are never lost, references hold on disk after any crash |
| Poll thread (`hub/main.py`, `serial_bridge.py`) | the current line, where it is in `on_frame` | `poll_once`, dispatch on frame type, `maybe_push_config` | serial port, database, sightings | keeps polling; answers a DATA frame with what the operator wants |
| Provisioning (`hub/provisioning.py`) | `_sightings` in memory, `nodes` | `observe_announce`, `discoverable_nodes`, `blink`, `claim`, `factory_reset` | web threads call it, the poll thread feeds it | an address is handed out once, whatever interleaves or crashes |
| Node configuration (`hub/node_config.py`) | `node_config` rows | `set_desired_config`, `maybe_push_config` | web threads write, the poll thread reads | boards never go back, and end up configured |
| Web API (`hub/api.py`, templates) | none of its own | routes | the two above | lists what it says it lists |
| Wire format (`protocol_frame.c/.h`, `protocol_frame.py`) | none | encode and decode of seven frame types, RX and TX lines | hub, dongle, boards | both codecs agree; bad input is refused, not fatal |
| Identity and configuration in flash (`node_identity.c`, `node_config.c`) | NVS namespaces `node_id`, `node_cfg` | getters, `node_identity_set_claimed`, `node_identity_factory_reset`, `node_config_apply` | `app_main`, pairing, leaf | a committed claim survives anything but a confirmed hold |
| Boot, button, sleep (`main.c`, `factory_reset_button.c`, `sleep_wake.c`) | wake cause | `app_main`, hold confirmation, deep sleep | all firmware | a reset leads to pairing mode |
| Pairing mode (`pairing_mode.c`) | the endless loop | ANNOUNCE, listen, BLINK, CLAIM | radio, NVS | keeps announcing; a CLAIM that was received is acted on |
| Leaf cycle (`leaf_main.c`) | candidates, interval | discovery, JOIN, DATA, CONFIG window, sleep | radio, NVS, parent selection | sleeps for the configured interval |
| Root dongle (`root_main.c`, `dongle_uart.c`) | UART line buffer | beacon, relay up, relay down | UART and radio | relays each line once, in order |
| Radio driver (`ieee802154_radio.c`) | `s_rx_queue`, 8 frames | receive ISR, send | every board | never overruns its queue |
| Parent selection (`mesh_parent_select.c`) | none | one fold over candidates | leaf | lowest hop, then strongest signal |
| Moisture sensor (`moisture_sensor.c`) | none | ADC reads | leaf | - |
| Simulation (`sim/`) | nodes, positions, hop counts, parents | `run_wake_window`, `collect_data`, changes of the network | - | the tree is rebuilt exactly, loop-free, and the window ends |
| Simulated provisioning (`sim/provisioning.py`) | a dictionary | discover, claim, reset | - | superseded by the hub's |

What is hard to test here: two kinds of hub threads interleaving on a single sqlite transaction; a
crash of the hub or a power loss of a board between any two writes; CLAIM and CONFIG frames that are
unacknowledged and can be lost, delayed in three queues, or overtaken by a newer wish; windows in
which a board takes the first frame only; random orders and contests in the mesh; two hub threads that write
to one port, lines cut by a timeout or a restart, buffers without flow control; two radios whose clocks
nothing aligns.
`PROJECT.json` lists each of these as a hazard, at its line, with the properties that would catch it.

## 2. Modules

| Module | Models | Built on |
|---|---|---|
| `AddressBook` | abstract: addresses are recorded for good, and told to the air at most once | |
| `Hub` | the hub process, statement by statement | refines `AddressBook` |
| `Pairing` | boards being claimed: hub, serial line, dongle, radio queues, flash | composes `AddressBook` with the boards |
| `Node` | the firmware of one leaf board over its flash, with power losses | |
| `NodeReset` | `Node` with a record of whose the board is, to say into which mode it has to boot | `Node` |
| `CheckIn` | a configuration's way from the operator to a board's flash | |
| `CheckInNext` | `CheckIn` with a record of what was set before a check-in, to say what "the next check-in" promises | `CheckIn` |
| `Frame` | the wire format: the boards' C codec and the hub's Python one, byte for byte | |
| `SerialLink` | the serial line between hub and dongle: writing threads, driver and line buffers, RX and TX lines, restarts | `Frame` |
| `Discovery` | a sleeping board, the root's beacon clock, `select_parent`, the dashboard's offline rule, over time | |
| `SpanningTree` | abstract: a window grows a tree from the hub and closes when it is complete | |
| `WakeWindow` | the simulation's `run_round` over a changing network | refines `SpanningTree` |
| `MC*` | instances for TLC: symmetry, layouts | |
| `*Proofs` | theorems of `Hub`, `Pairing`, `CheckIn`, `Node`, `WakeWindow`, `Frame`, `Discovery`, `SerialLink` | `TLAPS` |

Each detailed module also holds a few "seeded faults": definitions that no specification uses, each the
form an action would have with a plausible bug in it. Every property of a passing run is violated
when one of them takes the place of the original, which shows that the property says something.

### Hub

One action is one statement after which another thread can run: an `execute()`, a `commit()`, a change
of `_sightings`, a `send()`. `db` is what the shared connection shows, `disk` what the last commit left.
Because the connection is shared (`models.py:36-47`) so is its transaction: a commit by any thread sets
`disk' = db` and with it makes everybody's half-done work durable, and a request that fails leaves its
statement in the open transaction. `Restart` sets `db' = disk` and forgets everything in memory.
`pc[w]` walks each web thread through `claim` (read MAX(id), insert, commit, pop, send),
`set_desired_config`, `factory_reset` or `discoverable_nodes`; `poll` does so for the poll thread.
Abstracted: a reading is the fact that its address has one; a configuration is "none", "fits", or "wide"
(a value that CONFIG's fields cannot hold); a sighting is "near" (fresh and strong enough), "far" or
"stale". `factory_reset` has no route in `api.py` yet;
it is an operation of the hub's registry that a web thread would call, and is modelled as one. The implicit
BEGIN is one step with the statement that causes it. `blink` and the pages that
only read change no state. A `RuntimeError` from iterating `_sightings` while it grows ends the request
as a rendered page does, so `DiscoverDone` stands for both.

### Pairing

The hub's part is the abstract address book (which `Hub` is shown to implement), so that the composition
stays small. A CLAIM is a line in `downlink`, then a frame in the `inbox` of any subset of the boards
that listen (`Relay(S)`; an empty S is a loss), then two keys in flash. CLAIM names no board, and the
source relies on a supervised procedure with one board in pairing mode at a time
(`pairing_mode.c:73-79`). The model does not: any number of boards may listen, and `overheard` records every
address for which one transmission was queued by several, which is how two boards come to share one. `NoTwins`
says it is the only way. The procedure is the predicate `Solo` (at most one board is in pairing mode); under it
no two boards share an address (`PairingApart`). CLAIMs may be issued at any
time, repeatedly, and may be heard by a board switched on later. `hub_id` is left out (always 0), and so
is ANNOUNCE, which changes only what the operator sees. A board whose claim was torn before its address was written
reports under 0; that is no granted address and not `NoTwins`' subject, but finding 3's.

### Node

One board. Every `nvs_set_*` is durable by itself (ESP-IDF writes an entry through; `nvs_commit` adds
nothing), so each is an action and power may fail after any. `nvs_open` read-only fails for a namespace
that has never been opened for writing; `ESP_ERROR_CHECK` turns that into `abort()` and a reboot.
`Prepared` says which namespaces the partition has at first power-on. Frames that arrive are free
choices. The board wakes by its timer or by the button, whose hold is confirmed or released. `NodeReset` adds one
variable, whether the board is new or reset and has heard no CLAIM since, and restricts nothing.

### CheckIn

Here a configuration is the number of the request that set it, so "older" means something. The
operator's two statements, the poll thread's reads and sends, both directions of the serial line, the
dongle's relay and beacons, the receive queue and the two keys in flash are separate steps; other boards
are the environment (`OtherReports`, frames "to other"). `lost` remembers configurations that a restart
of the hub has rolled back, `acked` the newest one whose request was answered. Opening the port throws
away what had come in (pyserial resets its input buffer), hence `uplink' = <<>>` in `Restart`. `CheckInNext` adds what
had been acknowledged when the board last reported to the hub (`owed`), and restricts nothing.

### Frame and SerialLink

`Frame` has no state. A frame is its type and the tuple of its fields; `encode_*` and `decode_*` of
`protocol_frame.c` are operators on tuples of bytes, and `HubDecode` is what the Python port makes of the
same bytes: a frame, `NoFrame` (None), or `ValueError` (`NeedsWater` of an unknown byte). `NoFrame`,
the boards' "-1", also stands for a type that no case handles.

`SerialLink` has characters in it, because what may go wrong does so between characters. A thread's line
is in `todo` until the operating system has taken it, whole or in two parts (`Write`), and other threads
may write in between: `main.send` holds no lock. `ring` is the UART driver's buffer of the dongle (what does not fit is lost; there is no
flow control), `line_buf` is `s_line_buf`. `Iterate` is one turn of `root_main_run`: at most one TX frame
transmitted, the rest left in the driver, then at most one received payload reported. `HubPoll` is
`poll_once`; `Reads` is what its `readline` may return: a line, or, when its second is over, what has come of it, which
may be less than what is under way. The rest is then read as a line of its own. `DongleRestart` loses
the dongle's buffers and perhaps the end of its line; `HubRestart` opens the port somewhere in a line. The
history variables `open` and `due` hold what was written and not yet transmitted, and what was reported and not
yet heard; `damage` says what has happened to the line so far. What comes out is the first place in `open` or `due`
that it may be (`Settled`): of two equal payloads the second one is still expected. Words of a line (`str.split`) are found by where they
start, without recursion, so that the module can be proved about.

What the run shows of the code's limits: two lines that cut into each other, or a restart, lose frames
and no more, since the merged line has a 'T' where a hexadecimal digit should be and is refused. Only bytes lost to a full driver buffer, or two lines left unfinished at
once, can splice halves of two commands together, hence `damage = "mixes"` in `SentAsWritten`. A line that `readline` cuts within
its last word is taken with the digits that came ("-5" of "-52"), though `decode_rx_line` says that
partial reads are dropped: that is finding 7, and `HeardAsReported`, which says what does hold, compares the strength up
to a prefix. Lines are cut, cut off, merged and lost here; characters that flip on the way are not modelled (a flipped
digit in the place of `needs_water` would raise as the payload of finding 5 does).

### Discovery

Time is a variable here: a tick is a quarter of a second in the run, and `Tick` is disabled while anything is due. `age` is the
root's clock since its last beacon (the loop looks at it at most `Slack` late), `timer` the board's sleep or
window. A board that wakes listens until its two seconds are over or its buffer is full, walks through
`select_parent`'s loop, reports (or its DATA is lost), listens for a configuration and sleeps again for
what its flash says. The hub keeps its configured interval and the time it last heard
the board, in whole seconds of its own clock; `Offline` is the dashboard's rule. A claimed board starts without a configuration at the hub,
though its flash may hold one, as a factory reset leaves `node_cfg` alone. `air` and `missed` are history:
whether, since the last report, beacons were on time and nothing was lost, and how many windows in a row went by
(counted up to `MissCap`).

### WakeWindow

`run_round`: open the window, let every parented node beacon in any order, group the pending nodes by
parent, let one of each group win in any order, repeat, then collect DATA. Between rounds nodes are
added, moved and removed at will. Positions are abstracted to the relation "in range"; a pending
node holds a single `BeaconReceived` in this code, so the signal strength it carries decides nothing.

## 3. Runs

| Run | Bounds | Result |
|---|---|---|
| `hub_book` | 2 web threads, poll thread, addresses 0..2 (frames carry 0..1), one factory id, DATA from address 1, all four requests, bad lines | passes: `TypeOK`, `HubInv`, `DiskReferences`, `KeepsBook`, `NoTakeover` |
| `hub_poll` | claim and config only | violates `PollRuns` (finding 1) |
| `wake_tree` | hub and three boards, all 64 symmetric layouts, any changes between rounds | passes: `TypeOK`, `WindowInv`, `RoundIsExact`, `GrowsTree`, `WindowEnds` |
| `wake_lowest` | hub and four boards, one layout | violates `LowestHopHeard` (finding 2) |
| `node_power` | two addresses, two intervals, two thresholds, three initial partitions | passes: `TypeOK`, `ClaimSurvives`, `SleepsAsConfigured`, `ResetLeadsToPairing`, `KeepsAnnouncing` |
| `node_torn` | both namespaces present | violates `ReportsAsItself` (finding 3) |
| `node_fresh` | as `node_power` | violates `BootsIntoItsMode` (finding 4) |
| `pairing_unique` | two boards, both may listen, two addresses, two lines, queue of two: 708,220 states | passes: `TypeOK`, `NoTwins`, `HeardIsTaken` |
| `checkin_config` | two configurations, one line each way, queue of two, one hub restart, one power loss | passes: `TypeOK`, `AckedIsDurable`, `NeverBack`, `EndsConfigured` |
| `serial_link` | one request handler and the poll thread, a CLAIM and a CONFIG, two payloads off the air (DATA; a longer one that is cut to nine bytes with an unknown `needs_water`), two strengths one of which begins the other, buffers of 30, 24 and 1, lines interrupted two characters from an end, two lines or frames under way: 325,819 states | passes: `TypeOK`, `SentAsWritten`, `QuietMeansSent`, `HeardAsReported`, `CutsNeverRaise` |
| `serial_raise` | as `serial_link` | violates `NeverRaises` (finding 5) |
| `discovery` | ticks of 250 ms, beacons every 5 s and up to one tick late, windows of 2 s and 1 s, intervals of 28 and 30 s which the operator changes at will, up to one tick lost on waking, two other beaconers, a buffer of two candidates, clocks up to 62 s, five missed windows counted: 2,576,247 states | passes: `TypeOK`, `ParentIsBest`, `FewMisses`, `OfflineOnlyAfterMiss`, `DeadShownOffline` |

Seven more configurations lie beside these, to be run by hand (`tlc -config X.cfg M`). One passes and widens `discovery`; each of the others shows
a statement of the repository's that the code does not keep:

| Configuration | Module | Bounds | Result |
|---|---|---|---|
| `Discovery_drift` | `MCDiscovery` | intervals of 27, 28, 29 and 30 s, no other beaconers, nine missed windows counted: 5,499,995 states | passes: `FewMisses` |
| `Node_reset` | `NodeReset` | both namespaces present | violates `BootsIntoItsMode` by a half-done reset (finding 4) |
| `Hub_discover` | `MCHub` | factory ids 1 and 7 | violates `ListsUnclaimed` (finding 6) |
| `Serial_partial` | `MCSerialLink` | as `serial_link`, but the payload off the air is an ANNOUNCE | violates `PartialDropped` (finding 7) |
| `Discovery_cycle` | `MCDiscovery` | 30 s | violates `DataWithinCycle` (finding 8) |
| `Discovery_kept` | `MCDiscovery` | 30 and 60 s | violates `OfflineByOwnInterval` (finding 9) |
| `CheckIn_next` | `CheckInNext` | one configuration, no restarts, no power losses | violates `TakesEffectNext` (finding 10) |

What the properties say:

- `HubInv` (`NothingUnseen`, `SoleOwner`, `ToldOnce`): from its INSERT on a claim in progress owns its
  address alone, and no CLAIM goes on the air for an address that a restarted hub could hand out again.
- `KeepsBook`: the hub implements `AddressBook`.
- `NoTakeover`: a row that a stray DATA frame created is never taken over by a claim that read MAX(id) before.
- `DiskReferences`: readings and configurations have their row on disk, too, whoever's commit put it there.
- `NoTwins`: two boards have a granted address in common only if both were listening when the dongle sent it, once;
  a repeated, late or lost CLAIM, a torn claim and a reset never bring it about. `HeardIsTaken`: a
  CLAIM that got into a queue is acted on, BLINKs in front of it or not (one that a full queue dropped is lost).
- `ClaimSurvives`, `SleepsAsConfigured`, `ResetLeadsToPairing`, `KeepsAnnouncing`: see their comments.
  `ResetLeadsToPairing` is about a board that keeps its power; what a power failure in the middle of a reset leaves
  is `BootsIntoItsMode`, which does not hold.
- `AckedIsDurable`, `NeverBack`, `EndsConfigured`: what was acknowledged stays; a board's keys go back
  only from a configuration that the hub itself lost; a board that again and again has its answer in time
  ends up with both keys as wanted, torn writes and wasted windows notwithstanding. `TakesEffectNext`, the documents'
  stronger wording ("on that node's next check-in"), does not hold.
- `WindowInv`, `RoundIsExact`, `GrowsTree`, `WindowEnds`: the parented nodes form a tree of nodes that
  reach the hub, nobody is forgotten, and a round reports exactly who has a path now.
- `SentAsWritten`, `QuietMeansSent`: what the dongle transmits is a line that was written, in order and once,
  nothing from before its restart; and without damage nothing is left behind. `HeardAsReported`: the same
  upwards. `CutsNeverRaise`: no line that was cut or merged raises in the poll thread; only a payload
  off the air does, and that it does is what `NeverRaises` finds.
- `ParentIsBest`: see its comment. `OfflineOnlyAfterMiss`: a board that lives and sleeps no longer than the hub takes it to is
  shown offline only after a miss. The premise is needed: a board that kept a longer interval across a reset,
  or whose interval was just shortened, is shown offline though it missed nothing (`api.py:65`), which is what `OfflineByOwnInterval` finds. `DeadShownOffline`: a dead one is, for good.
- `FewMisses`: in calm air a board misses a bounded number of windows in a row, for the intervals of which that is
  true. Each wake lasts two seconds on top of the sleep, so every cycle moves the window on within the root's five
  seconds: by `Shift`, and up to `Latest` more. A window that moves on by less than its own two seconds cannot step over the
  beacon (`Ahead`: 29 s, at most 4 misses), nor can one that moves back by less (`Behind`: 27 s, at most 5); at 30 s it may, once
  but not twice (`Twice`: at most 4). In seconds modulo five these are 4, 2 and 0. Of 28 s nothing is said: the sum is a
  multiple of five seconds, the phase is the same at every wake, and such a board may never be heard. Of 26 s and 31 s nothing is said
  either; the argument does not reach them. No code keeps an operator from any of these values. `DataWithinCycle`, the
  documents' wording, holds for none of them.

Why the bounds are enough to be of interest. Two web threads and the poll thread give every pair of
writers, and MaxId = 2 lets a claim collide with another claim, with a DATA row, and with the end of
the 16-bit range (address 2 no longer fits a frame there); web threads are interchangeable, so they
are symmetric. `wake_tree`'s three boards admit a chain of three hops, a contest of three, a loop if
hop counts were stale, and partitions. In `pairing_unique` there is an address for each board, each
can be in either of the two lines and two queue places of both boards, and a board can be reset and claimed again under the other one; both boards
hear one transmission in some behaviours and different ones in others. In `checkin_config` two configurations suffice for
"older", and one line, one read and two queue places hold a stale one in every place.

In `serial_link` the smaller buffers keep their proportions to the lines (a driver buffer holds one CONFIG line of 22 characters
and a part of another one, the line buffer one line and one character more), so that merged and overlong lines and
lost bytes all occur; real payload lengths are kept. One place to cut is enough for a line to be cut into, cut off and read in parts, each of
which happens within a word and at its end; that other places bring nothing new is what the proofs show. In `discovery` nothing is scaled but the buffer of eight candidates and the number
of strays; a stray beacons with the same period and is heard once in a window. `Cap` is beyond
twice the longest interval, where the offline rule no longer changes. `MissCap` is one more than any bound
`FewMisses` states for the intervals of the run, so that the count is never cut off where it matters; `Discovery_kept` and `Discovery_cycle` ask only whether there was a miss.

Deadlock is checked in every run.

### Fairness

- `WakeWindow`: `run_round` is straight-line code in one thread, so an open window goes on. Opening one,
  and changing the network, is never required.
- `Node`: a board with power runs its code (weak fairness of `Run`), and the sleep timer goes off. Power
  need not come back and nobody needs to press the button.
- `Pairing`: each board's pairing loop goes on (weak fairness of `Firmware(b)`); the hub, the line and the
  air owe nothing.
- `CheckIn`: the board runs its code once it has a frame (weak fairness), and a radio that has a matching
  answer at the dongle again and again while the board listens does not lose every one (strong fairness
  of that one delivery). That answers come in time again and again is a premise, `[]<>Answered`, not
  an assumption of the specification: the code cannot promise it, since a leaf listens for one second.
- `Discovery`: time passes and the root's loop runs (weak fairness of `Tick` and `Beacon`). The board owes nothing, and
  nothing needs to be received.

## 4. Proofs

The `*Proofs` modules prove, for any values of the constants that satisfy the ASSUMEs (named in the
modules that declare them, checked by TLC in the runs), and without a bound other than those named in guards:

- `HubTyped`, `HubSafe`, `HubKeepsBook`, `HubNoTakeover`, `HubReferences`. The inductive invariant is
  `TypeOK /\ HubInv /\ DiskReferences /\ RowFirst`. `HubInv` carries the argument: no row is ever
  deleted, hence MAX(id) over the shared view is never less than over the disk, and an INSERT that
  succeeds finds its address absent both there and on the air. `RowFirst` (the reading comes after its
  row in the same thread, and a restart resets that thread) is needed for the references.
- `PairingTyped`, `PairingUnique`: `NoTwins` needs `Told` / `Spoken` (whatever is under way has been
  told) and `SentOnce` (no two lines carry one address), which make the step of `Relay` safe: what leaves the line is
  nowhere else, and goes to one board or is overheard. It assumes nothing of how many boards listen. `PairingApart` adds the procedure as a premise on the
  behaviour, `Spec /\ []Solo => []Apart`: then `overheard` stays empty.
- `CheckInTyped`, `CheckInDurable`, `CheckInNeverBack`. `Committing` orders the hub's own views (disk,
  connection, requests) and keeps what was lost apart from them, which gives `AckedIsDurable`. `Ordered`
  follows a configuration through six places: flash, being taken, the radio's queue, the line, the poll
  thread, the table. What is nearer to the board is never newer than what is farther, unless it was lost;
  both queues are in order by themselves. Every step takes from one place what it puts into the next,
  and a restart declares lost exactly what it takes out of the table, so the order is kept, and writing a
  key cannot take it back.
- `NodeTyped`, `NodeKeepsClaim`, `NodeSleepsAsConfigured`: `Ungranted` says that identity is only written
  by a board with no committed claim, which is what makes `ClaimSurvives` inductive.
- `WindowTyped`, `WindowSafe`, `RoundExact`, `WindowGrowsTree`: `WindowInv` is inductive together with
  the types; exactness follows since the collected tree is within `Reachable` (each join keeps it
  there) and is closed under links (`NobodyLeft`), and `Reachable` is the least closed set.
- `DiscoveryTyped`, `DiscoveryParentIsBest`, `DiscoveryOfflineOnlyAfterMiss`. The second has the loop invariant of `select_parent`:
  `best` is a best one of those before `i`, for any buffer and any strengths. The third relates two clocks, the hub's
  seconds and the board's ticks: as long as nothing was missed, the ticks since the report are bounded by where the
  board is in its cycle (window, then sleep), hence the seconds are within twice the interval. It
  assumes `IntervalAssumption`, that losing time on waking and both windows take no longer than a sleep, which TLC evaluates for the run.
- `DiscoveryFewMisses`: in calm air nothing but the clocks decides what a board hears. A missed window opened at a phase w between 0 and
  `Gap`, so long after a beacon that it closed before the next; `Slept` says that the next one opens `Shift` to `Shift + Latest` later, modulo the period.
  `Calm` keeps where m windows missed in a row have brought the last of them: at least `(m - 1) * Shift` on (`Onward`), or as much back (`Backward`),
  or past the beacon once and on from near the beginning (`Again`). `SweptNext` shows that each further miss keeps it and `SweptBounds` that
  the gap is swept after so many, for each of the three conditions on the interval. Nothing is assumed but `DiscoveryAssumption`
  (the sorts of the constants, a window no longer than the period); an operator may change the interval in between, since a report
  comes before every change and starts the count anew.
- `ClaimReadBack`, `BlinkReadBack`, `ConfigReadBack`, `DataHeard`: what one side encodes the other side reads, for all 16- and
  32-bit values of the fields. `TwoBytes` and `FourBytes` are the arithmetic, `WholeHas` and `NineBytesHave` say what is where in a
  concatenation. `CodecsAgree` is about what nobody here encoded: for any sequence of bytes the hub's decoder and the boards' give the same
  frame or both refuse it, except that the hub raises on a DATA with an unknown `needs_water`.
- `SerialHeard`, `SerialKills`: what is on its way to the hub is a stream from which restarts have taken ends and beginnings. `HubInv`
  says that its characters can be traced: each is the so-and-so-many-th of the line of some received item, characters that follow
  each other are of one item or the next one starts with its first, the items whose beginning is still there are in `due`, in that order.
  A line that has three words, "RX" first, contains an "R", which is the beginning of an item (`OneBegins`), and one only, so the hexadecimal
  word is that item's whole (a space has to follow it) and the third word a beginning of its strength (`HeardParts`). Hence the frame is
  `HubDecode` of a payload that was reported, to which `CodecsAgree` applies. Reading, cutting and appending keep the trace (`TraceRest`, `TraceCut`,
  `TraceMore`), and since items are in order, the report taken is the first that fits or an earlier one (`ReadOff`).
- `SerialSent`, `SerialQuiet`: `Feeds` says what the dongle's line buffer holds behind every character of the driver's
  buffer, `Hit` where a line ends that holds a frame, `Marks` which of the lines begun each of them is, in order and each once. The end of what was
  written is in one of three conditions: `Finished` (all lines complete), `Begun` (the last one is not, and its thread has the
  rest), `Lost` (cut into or cut off: what the buffer holds makes no frame whatever comes behind it, because a 'T' stands where a digit
  should be, or because what will come is headless). `DongleInv` is their disjunction unless `damage` is "mixes". The lemmas `Write...` prove that every write, whole
  or in part, into a driver with or without room, takes one condition to another; `PollIs` that `dongle_uart_poll_tx_frame`, a fold over
  the driver's buffer, stops at the first hit.
- `SerialTypes`: the two invariants above, and `Load <= MaxLoad` (`BoundInv`), for which each step is shown to take from one of the
  places `Load` counts what it puts into another. That the line buffer stays below its size is not a bound of the model but `ReadByte`'s guard,
  and holds for every length of line.

Functions over lines and buffers call for induction. It is had from the least element of a set of naturals (`LeastOf`, from the library's `WFMin`): the first
index at which a claimed equality fails cannot exist. The assumptions are `SerialAssumption`: a line the hub writes fits the line buffer, payloads
are bytes and strengths the text of numbers.

The attempt at the proof showed where the model, not the code, was wrong. `HubPoll` used to strike an arbitrary one of the reports a line
fits from `due`; with strengths "-5" and "-52" that may be a later one than the hub read, and `HeardAsReported` fails for the
next line. It is the first now (`Settled`), and the run has two such strengths. An earlier `readline` also never timed out before what was
under way had arrived, so that the middle of a line was cut by restarts only; `Reads` has both.

Only model-checked: all liveness (`WindowEnds`, `ResetLeadsToPairing`, `KeepsAnnouncing`, `HeardIsTaken`,
`EndsConfigured`, `DeadShownOffline`), as fairness and ENABLED are out of the prover's reach. That the codecs and the text of lines are the source's is
the reader's to judge; the proofs are about the operators in the modules.

## 5. Findings

Where the code and a statement about it in the repository disagree:

1. `hub_poll`: `serial_poll_loop` "runs bridge.poll_once() until stop_event is set" (`hub/main.py:45`), but
   a configuration value too large for CONFIG's fields, which the web form accepts, raises in the thread and ends it.
2. `wake_lowest`: a node that hears two beacons in one pass keeps the one that is walked first, whatever its hop count, while the
   M0 plan wants hop count first (`sim/protocol.py:47`).
3. `node_torn`: power lost after `"claimed"` and before `"short_addr"` leaves a claimed board without an
   address (`firmware/main/node_identity.c:36-45`).
4. `node_fresh`: a blank partition makes the first read-only `nvs_open` abort at every boot, where the
   spec has a new or factory-reset node boot into pairing mode (`firmware/main/node_identity.c:26`). Nor does a factory-reset one always:
   `Node_reset` shows power lost between the confirmation of a hold and the erase of `"claimed"`, after which the board is a leaf
   again, with its claim or half of it (`node_identity.c:71-78`).
5. `serial_raise`: a payload of DATA's length and type with an unknown `needs_water` raises outside the try block and ends the poll thread,
   where `decode_rx_line` says that what fails to decode is dropped "rather than crashing" (`hub/serial_bridge.py:66-70`).

And by the further configurations:

6. `Hub_discover`: `discoverable_nodes` compares factory ids with short addresses, so a board nobody has
   claimed can be missing from the list (`hub/provisioning.py:61-72`).
7. `Serial_partial`: a report cut within its strength is dispatched with the digits that have come, where the
   comment on `decode_rx_line` says a partial read is dropped (`hub/serial_bridge.py:69-70`, `107`).
8. `Discovery_cycle`: a wake that meets no beacon reports nothing, at the default interval too, where the M5 plan has every node's data reach
   the hub within its wake cycle (line 18; `firmware/main/leaf_main.c:15`, `87-92`).
9. `Discovery_kept`: the hub takes a board without a stored configuration to sleep 30 s, as its comment says, but `node_cfg` outlives
   a factory reset and the board sleeps for what is there (`hub/api.py:61-66`).
10. `CheckIn_next`: any frame ends the configuration window, so that a configuration may miss the next check-in, on which it
    "takes effect" (`hub/api.py:83-85`, `firmware/main/leaf_main.c:64`).

## 6. Not modelled, and assumptions

- External, modelled from how the code uses them: sqlite (one implicit transaction per connection, primary
  and foreign keys enforced), pyserial (input discarded on open), NVS (entry-wise writes), the ESP-IDF
  802.15.4 driver (each received frame calls the ISR once).
- Factory ids are distinct, as their derivation from the MAC makes them.
- Python's `int.to_bytes`, `int.from_bytes`, `str.split` and `int()`, modelled by what they do with the characters and
  bytes that occur here; the UART driver (drops what does not fit) and the operating system's `write` (may take a part).
- The wake-up hardware of the button; HTML templates; logging.
- `moisture_sensor.c`: three calls into the ADC driver between JOIN and DATA. It keeps nothing from one wake to the
  next; what it returns is compared with the threshold once, and an error aborts, which `Node` and `CheckIn` have as
  a power loss.
- The Python encoders of BEACON, JOIN, DATA and ANNOUNCE and the C encoders of BLINK, CLAIM and CONFIG have no caller in the
  running system.
- `sim/provisioning.py`: three sequential methods over a dictionary, superseded by the hub's code.
- A failed request that iterates `_sightings` while it grows (`provisioning.py:69`) changes no state, so no property is about it.

## 7. Plan

Done, in this order (most important first): `AddressBook`, `Hub`, `HubProofs`; `SpanningTree`,
`WakeWindow`, `WakeWindowProofs`; `Node`, `NodeProofs`; `Pairing`, `PairingProofs`; `CheckIn`, `CheckInProofs`; `Frame`, `SerialLink`,
`FrameProofs`; `Discovery`, `DiscoveryProofs`; `SerialLinkProofs`.

Worth doing next: several leaves in `Discovery` (the receive queue shared with JOIN and DATA of others); a bound on the misses at
intervals of 26 and 31 s, whose windows step over the beacon at every other cycle; that `Pairing`'s and `CheckIn`'s lines behave as `SerialLink`'s
do when nothing mixes them, as a refinement.

-------------------------------- MODULE Hub --------------------------------
(***************************************************************************)
(* The hub process (src/hub/): one daemon thread that polls the dongle's   *)
(* serial port (main.py) and a pool of web threads that serve the          *)
(* operator's requests (api.py), all of them sharing ONE sqlite connection *)
(* (models.py:36-47), the registry of ANNOUNCE sightings and the port.     *)
(*                                                                         *)
(* One action is one statement after which another thread can run: an      *)
(* execute(), a commit(), a change of the registry, a send().  Because the *)
(* connection is shared, so is its implicit transaction: `db' is what      *)
(* every thread reads, written or committed by anyone, `disk' is what a    *)
(* restart finds, and any thread's commit() makes all of `db' durable.     *)
(***************************************************************************)
EXTENDS Integers, FiniteSets, FiniteSetsExt

CONSTANTS
  MaxId,          \* bound: largest nodes.id the model explores
  MaxWire,        \* largest short address a frame can carry (2^16 - 1 in the code)
  FactoryIds,     \* factory ids in ANNOUNCE frames and in /discover/<id>/claim
  Senders,        \* short addresses DATA frames arrive from
  Workers,        \* threads of the web server
  Requests,       \* the requests the operator makes
  BadLines        \* whether a corrupted DATA line can pass for a whole one

ASSUME HubAssumption == /\ MaxId \in Nat
                        /\ MaxWire \in Nat
                        /\ Senders \subseteq 0 .. MaxId
                        /\ FactoryIds \subseteq Nat
                        /\ FactoryIds # {}
                        /\ BadLines \in BOOLEAN
                        /\ Requests \subseteq {"claim", "config", "reset", "discover"}

HUB_ID == 0
Ids == 0 .. MaxId

Row == {"absent", "unclaimed", "claimed"}       \* claimed_at IS NOT NULL, or not
Config == {"none", "fits", "wide"}              \* "wide": a value CONFIG's fields cannot hold
Sighting == {"none", "near", "far", "stale"}
Tables == [rows : [Ids -> Row], readings : SUBSET Ids, config : [Ids -> Config]]

PollSteps == {"read", "upsert", "reading", "commit", "config", "push", "dead"}
WorkerSteps == {"idle", "insert", "commit", "pop", "send",
                "stored", "cleared", "list"}

VARIABLES
  db,             \* the tables as the shared connection shows them
  disk,           \* the tables as the last commit left them
  sightings,      \* provisioning.Hub._sightings, with age and strength abstracted
  poll,           \* the poll thread: where it is and the sender of the DATA it handles
  pushing,        \* the config it has read and is about to encode
  pc,             \* where each web thread is in its request
  id,             \* the address each web thread works with (next_id, node_id)
  fac,            \* the factory id of each web thread's request
  known,          \* what each /discover took for the claimed factory ids
  named,          \* history: factory ids that some request has claimed
  claims          \* history: number of CLAIM frames sent, per address

store == <<db, disk>>
pollVars == <<poll, pushing>>
webVars == <<pc, id, fac, known>>
history == <<named, claims>>
vars == <<db, disk, sightings, poll, pushing, pc, id, fac, known, named, claims>>

TypeOK == /\ db \in Tables
          /\ disk \in Tables
          /\ sightings \in [FactoryIds -> Sighting]
          /\ poll \in [step : PollSteps, sender : Ids]
          /\ pushing \in Config
          /\ pc \in [Workers -> WorkerSteps]
          /\ id \in [Workers -> Ids]
          /\ fac \in [Workers -> FactoryIds]
          /\ known \in [Workers -> SUBSET Ids]
          /\ named \subseteq FactoryIds
          /\ claims \in [Ids -> Nat]

EmptyTables == [rows |-> [a \in Ids |-> "absent"],
                readings |-> {},
                config |-> [a \in Ids |-> "none"]]

Rows(t) == {a \in Ids : t.rows[a] # "absent"}
ClaimedRows(t) == {a \in Ids : t.rows[a] = "claimed"}
Configured(t) == {a \in Ids : t.config[a] # "none"}

(* SELECT MAX(id) FROM nodes, "or HUB_ID", plus one.                       *)
NextId(t) == IF Rows(t) = {} THEN HUB_ID + 1 ELSE Max(Rows(t)) + 1

NoFactory == CHOOSE f \in FactoryIds : TRUE       \* in fac while a thread has no request

(* Nothing of a thread or of the registry survives the process.            *)
Init == /\ db = EmptyTables
        /\ disk = EmptyTables
        /\ sightings = [f \in FactoryIds |-> "none"]
        /\ poll = [step |-> "read", sender |-> HUB_ID]
        /\ pushing = "none"
        /\ pc = [w \in Workers |-> "idle"]
        /\ id = [w \in Workers |-> HUB_ID]
        /\ fac = [w \in Workers |-> NoFactory]
        /\ known = [w \in Workers |-> {}]
        /\ named = {}
        /\ claims = [a \in Ids |-> 0]

-----------------------------------------------------------------------------
(* The poll thread: serial_poll_loop, SerialBridge.poll_once, on_frame.    *)

PollTo(step) == poll' = [poll EXCEPT !.step = step]

(* An ANNOUNCE line records or refreshes a sighting (observe_announce).    *)
PollAnnounce(f, strength) ==
  /\ poll.step = "read"
  /\ sightings' = [sightings EXCEPT ![f] = strength]
  /\ UNCHANGED <<store, pollVars, webVars, history>>

PollData(s) ==
  /\ poll.step = "read"
  /\ poll' = [step |-> "upsert", sender |-> s]
  /\ UNCHANGED <<store, sightings, pushing, webVars, history>>

(* A DATA line whose needs_water byte names no NeedsWater member: the      *)
(* ValueError of decode_data_frame passes decode_rx_line, poll_once and    *)
(* the loop, and the thread ends.                                          *)
PollBadData ==
  /\ BadLines
  /\ poll.step = "read"
  /\ PollTo("dead")
  /\ UNCHANGED <<store, sightings, pushing, webVars, history>>

(* ingest_data_frame: the row, the reading, the commit.                    *)
PollUpsert ==
  /\ poll.step = "upsert"
  /\ db' = [db EXCEPT !.rows[poll.sender] = IF @ = "absent" THEN "unclaimed" ELSE @]
  /\ PollTo("reading")
  /\ UNCHANGED <<disk, sightings, pushing, webVars, history>>

PollReading ==
  /\ poll.step = "reading"
  /\ db' = [db EXCEPT !.readings = @ \cup {poll.sender}]
  /\ PollTo("commit")
  /\ UNCHANGED <<disk, sightings, pushing, webVars, history>>

PollCommit ==
  /\ poll.step = "commit"
  /\ disk' = db
  /\ PollTo("config")
  /\ UNCHANGED <<db, sightings, pushing, webVars, history>>

(* maybe_push_config: nothing set for this node, or a config to send.      *)
PollNoConfig ==
  /\ poll.step = "config"
  /\ db.config[poll.sender] = "none"
  /\ PollTo("read")
  /\ UNCHANGED <<store, sightings, pushing, webVars, history>>

PollConfig ==
  /\ poll.step = "config"
  /\ db.config[poll.sender] # "none"
  /\ pushing' = db.config[poll.sender]
  /\ PollTo("push")
  /\ UNCHANGED <<store, sightings, webVars, history>>

(* encode_config_frame's to_bytes raises OverflowError for a value that    *)
(* CONFIG's fields cannot hold, and the thread ends here too.              *)
PollPush ==
  /\ poll.step = "push"
  /\ PollTo(IF pushing = "wide" THEN "dead" ELSE "read")
  /\ pushing' = "none"
  /\ UNCHANGED <<store, sightings, webVars, history>>

Poll == \/ \E f \in FactoryIds, s \in {"near", "far"} : PollAnnounce(f, s)
        \/ \E s \in Senders : PollData(s)
        \/ PollBadData
        \/ PollUpsert \/ PollReading \/ PollCommit
        \/ PollNoConfig \/ PollConfig \/ PollPush

-----------------------------------------------------------------------------
(* The web threads: one request each, step by step.                        *)

WorkerTo(w, step) == pc' = [pc EXCEPT ![w] = step]

(* A response, or an exception that becomes a 500: the request's locals    *)
(* are gone, and an open implicit transaction stays open.                  *)
Finish(w) == /\ WorkerTo(w, "idle")
             /\ id' = [id EXCEPT ![w] = HUB_ID]
             /\ fac' = [fac EXCEPT ![w] = NoFactory]
             /\ known' = [known EXCEPT ![w] = {}]

(* Seeded faults, for showing that the properties notice them: a claim     *)
(* filed under the factory id, an INSERT OR REPLACE, an upsert over a row  *)
(* that DATA created, a commit left out, a missing foreign_keys = ON.      *)
ClaimReadFactory(w, f) ==
  /\ "claim" \in Requests
  /\ pc[w] = "idle"
  /\ NextId(db) \in Ids
  /\ WorkerTo(w, "insert")
  /\ id' = [id EXCEPT ![w] = f]
  /\ fac' = [fac EXCEPT ![w] = f]
  /\ UNCHANGED <<store, sightings, pollVars, known, history>>

ClaimReplace(w) ==
  /\ pc[w] = "insert"
  /\ db' = [db EXCEPT !.rows[id[w]] = "claimed"]
  /\ named' = named \cup {fac[w]}
  /\ WorkerTo(w, "commit")
  /\ UNCHANGED <<disk, sightings, pollVars, id, fac, known, claims>>

ClaimUpsert(w) ==
  /\ pc[w] = "insert"
  /\ db.rows[id[w]] # "claimed"
  /\ db' = [db EXCEPT !.rows[id[w]] = "claimed"]
  /\ named' = named \cup {fac[w]}
  /\ WorkerTo(w, "commit")
  /\ UNCHANGED <<disk, sightings, pollVars, id, fac, known, claims>>

ClaimNoCommit(w) ==
  /\ pc[w] = "commit"
  /\ WorkerTo(w, "pop")
  /\ UNCHANGED <<store, sightings, pollVars, id, fac, known, history>>

SetConfigUnchecked(w, a, c) ==
  /\ "config" \in Requests
  /\ pc[w] = "idle"
  /\ db' = [db EXCEPT !.config[a] = c]
  /\ WorkerTo(w, "stored")
  /\ UNCHANGED <<disk, sightings, pollVars, id, fac, known, history>>

(* Hub.claim: read the largest id ...                                      *)
ClaimRead(w, f) ==
  /\ "claim" \in Requests
  /\ pc[w] = "idle"
  /\ NextId(db) \in Ids                             \* bound
  /\ WorkerTo(w, "insert")
  /\ id' = [id EXCEPT ![w] = NextId(db)]
  /\ fac' = [fac EXCEPT ![w] = f]
  /\ UNCHANGED <<store, sightings, pollVars, known, history>>

(* ... insert the claimed row (the primary key refuses a second one) ...   *)
ClaimInsert(w) ==
  /\ pc[w] = "insert"
  /\ db.rows[id[w]] = "absent"
  /\ db' = [db EXCEPT !.rows[id[w]] = "claimed"]
  /\ named' = named \cup {fac[w]}
  /\ WorkerTo(w, "commit")
  /\ UNCHANGED <<disk, sightings, pollVars, id, fac, known, claims>>

ClaimRefused(w) ==
  /\ pc[w] = "insert"
  /\ db.rows[id[w]] # "absent"
  /\ Finish(w)
  /\ UNCHANGED <<store, sightings, pollVars, history>>

(* ... commit, forget the sighting ...                                     *)
ClaimCommit(w) ==
  /\ pc[w] = "commit"
  /\ disk' = db
  /\ WorkerTo(w, "pop")
  /\ UNCHANGED <<db, sightings, pollVars, id, fac, known, history>>

ClaimPop(w) ==
  /\ pc[w] = "pop"
  /\ sightings' = [sightings EXCEPT ![fac[w]] = "none"]
  /\ WorkerTo(w, "send")
  /\ UNCHANGED <<store, pollVars, id, fac, known, history>>

(* ... and send CLAIM, whose encoder raises when the address is too wide.  *)
ClaimSend(w) ==
  /\ pc[w] = "send"
  /\ claims' = IF id[w] <= MaxWire THEN [claims EXCEPT ![id[w]] = @ + 1] ELSE claims
  /\ Finish(w)
  /\ UNCHANGED <<store, sightings, pollVars, named>>

(* set_desired_config: the upsert, which foreign_keys = ON refuses for a   *)
(* node without a row, then the commit.                                    *)
SetConfigStore(w, a, c) ==
  /\ "config" \in Requests
  /\ pc[w] = "idle"
  /\ db.rows[a] # "absent"
  /\ db' = [db EXCEPT !.config[a] = c]
  /\ WorkerTo(w, "stored")
  /\ UNCHANGED <<disk, sightings, pollVars, id, fac, known, history>>

SetConfigCommit(w) ==
  /\ pc[w] = "stored"
  /\ disk' = db
  /\ Finish(w)
  /\ UNCHANGED <<db, sightings, pollVars, history>>

(* Hub.factory_reset keeps the row and clears the claim.                   *)
ResetClear(w, a) ==
  /\ "reset" \in Requests
  /\ pc[w] = "idle"
  /\ db' = [db EXCEPT !.rows[a] = IF @ = "claimed" THEN "unclaimed" ELSE @]
  /\ WorkerTo(w, "cleared")
  /\ UNCHANGED <<disk, sightings, pollVars, id, fac, known, history>>

ResetCommit(w) ==
  /\ pc[w] = "cleared"
  /\ disk' = db
  /\ Finish(w)
  /\ UNCHANGED <<db, sightings, pollVars, history>>

(* Hub.discoverable_nodes: the ids of claimed rows, then the sightings     *)
(* that pass the filter.                                                   *)
DiscoverRead(w) ==
  /\ "discover" \in Requests
  /\ pc[w] = "idle"
  /\ known' = [known EXCEPT ![w] = ClaimedRows(db)]
  /\ WorkerTo(w, "list")
  /\ UNCHANGED <<store, sightings, pollVars, id, fac, history>>

Page(w) == {f \in FactoryIds : f \notin known[w] /\ sightings[f] = "near"}

(* The page is rendered, or the registry changed size under the loop and   *)
(* the request fails: neither changes the hub's state.                     *)
DiscoverDone(w) ==
  /\ pc[w] = "list"
  /\ Finish(w)
  /\ UNCHANGED <<store, sightings, pollVars, history>>

Web(w) == \/ \E f \in FactoryIds : ClaimRead(w, f)
          \/ ClaimInsert(w) \/ ClaimRefused(w) \/ ClaimCommit(w)
          \/ ClaimPop(w) \/ ClaimSend(w)
          \/ \E a \in Ids, c \in {"fits", "wide"} : SetConfigStore(w, a, c)
          \/ SetConfigCommit(w)
          \/ \E a \in Ids : ResetClear(w, a)
          \/ ResetCommit(w)
          \/ DiscoverRead(w) \/ DiscoverDone(w)

-----------------------------------------------------------------------------
(* ANNOUNCE_STALE_AFTER_SEC pass without a new announcement.               *)
Age(f) == /\ sightings[f] = "near"
          /\ sightings' = [sightings EXCEPT ![f] = "stale"]
          /\ UNCHANGED <<store, pollVars, webVars, history>>

(* The process dies anywhere and main() starts again on the same file: an  *)
(* uncommitted transaction is rolled back, every thread starts over.       *)
Restart == /\ db' = disk
           /\ sightings' = [f \in FactoryIds |-> "none"]
           /\ poll' = [step |-> "read", sender |-> HUB_ID]
           /\ pushing' = "none"
           /\ pc' = [w \in Workers |-> "idle"]
           /\ id' = [w \in Workers |-> HUB_ID]
           /\ fac' = [w \in Workers |-> NoFactory]
           /\ known' = [w \in Workers |-> {}]
           /\ UNCHANGED <<disk, history>>

Next == \/ Poll
        \/ \E w \in Workers : Web(w)
        \/ \E f \in FactoryIds : Age(f)
        \/ Restart

Spec == Init /\ [][Next]_vars

-----------------------------------------------------------------------------
(* The steps of a claim after its row is in, and after it is committed.    *)
Holds(w) == pc[w] \in {"commit", "pop", "send"}
Durable(w) == pc[w] \in {"pop", "send"}

(* No row is ever deleted, so nothing durable is missing from the shared   *)
(* view: a thread never computes MAX(id) over less than what is on disk.   *)
NothingUnseen == Rows(disk) \subseteq Rows(db)

(* A claim in progress owns its address alone: no other thread, however    *)
(* the two interleaved, holds the same one, no CLAIM has carried it, and   *)
(* once committed a restart cannot forget it.                              *)
SoleOwner == \A w \in Workers : Holds(w) =>
               /\ id[w] \in Rows(db)
               /\ claims[id[w]] = 0
               /\ Durable(w) => id[w] \in Rows(disk)
               /\ \A v \in Workers \ {w} : Holds(v) => id[v] # id[w]

(* A CLAIM on the air means a durable row, and there is at most one: this  *)
(* is what stands between two claims, crashes included, and two plants     *)
(* reporting under one address.                                            *)
ToldOnce == \A a \in Ids : /\ claims[a] <= 1
                           /\ claims[a] = 1 => a \in Rows(disk)

HubInv == NothingUnseen /\ SoleOwner /\ ToldOnce

(* Every reading and every stored config refers to a row of nodes, on disk *)
(* too, whatever thread's commit put it there.                             *)
References(t) == t.readings \cup Configured(t) \subseteq Rows(t)
DiskReferences == References(db) /\ References(disk)

(* What makes it inductive: the reading follows its row in the same thread.*)
RowFirst == poll.step = "reading" => poll.sender \in Rows(db)

(* An address that some node already reports under is never given to       *)
(* another: an unclaimed row does not become a claimed one, unless a       *)
(* restart takes back a factory reset that was not committed.              *)
NoTakeover == [][\A a \in Ids : db.rows[a] = "unclaimed" /\ db'.rows[a] = "claimed"
                                 => Restart]_vars

(* The hub implements the address book.                                    *)
Book == INSTANCE AddressBook WITH recorded <- Rows(disk), told <- claims
KeepsBook == Book!Spec

(* What serial_poll_loop says of itself (main.py:45): it "runs             *)
(* bridge.poll_once() until stop_event is set".                            *)
PollRuns == poll.step # "dead"

(* What discoverable_nodes says it returns (provisioning.py:61-62): the    *)
(* factory ids "announced recently, at or above the RSSI threshold, and    *)
(* not already claimed".                                                   *)
ListsUnclaimed == \A w \in Workers : pc[w] = "list" =>
                    {f \in FactoryIds \ named : sightings[f] = "near"} \subseteq Page(w)
=============================================================================

-------------------------------- MODULE Node --------------------------------
(***************************************************************************)
(* The firmware of one leaf board (src/firmware/main): app_main, pairing   *)
(* mode, the leaf's wake cycle and the factory-reset button, over a flash  *)
(* partition that survives what the rest of the board does not.            *)
(*                                                                         *)
(* NVS writes one entry at a time and nvs_commit adds nothing to what has  *)
(* been written, so every nvs_set_* is a step and power may fail after it. *)
(* nvs_open(.., NVS_READONLY) of a namespace nobody has opened for writing *)
(* fails, and ESP_ERROR_CHECK turns that into abort() and a reboot.        *)
(* Frames heard are any frame of the right type that is in the air.        *)
(***************************************************************************)
EXTENDS Naturals

CONSTANTS
  Addresses,      \* short addresses CLAIM frames carry
  Intervals,      \* wake intervals CONFIG frames carry
  Thresholds,     \* moisture thresholds CONFIG frames carry
  DefaultInterval, DefaultThreshold,    \* node_config.h's defaults
  Prepared,       \* the sets of namespaces a partition may have at first power-on
  Unset           \* a key that is not in flash

NoAddress == 0    \* short_address of a node that has none, and the hub's own
HUB_ID == 0

ASSUME NodeAssumption ==
  /\ Addresses \subseteq Nat \ {NoAddress}
  /\ DefaultInterval \in Intervals
  /\ DefaultThreshold \in Thresholds
  /\ Prepared \subseteq SUBSET {"node_id", "node_cfg"}
  /\ Unset \notin {1, HUB_ID} \cup Addresses \cup Intervals \cup Thresholds

Namespaces == {"node_id", "node_cfg"}
IdentityKeys == {"claimed", "hub_id", "short_addr"}
ConfigKeys == {"wake_ivl", "moist_thr"}
Keys == IdentityKeys \cup ConfigKeys

AnyValue == {1, HUB_ID, Unset} \cup Addresses \cup Intervals \cup Thresholds

Steps == {"off", "boot", "hold", "erase", "check", "abort",
          "announce", "listen", "blink", "delay",
          "open_id", "set_claimed", "set_hub_id", "set_short_addr", "commit_id",
          "leaf", "discover", "report", "listen_config",
          "set_wake", "set_thr", "to_sleep", "asleep"}

VARIABLES
  spaces,         \* NVS namespaces that exist
  flash,          \* the entries of the NVS partition
  pc,             \* where the firmware is
  cause,          \* what esp_sleep_get_wakeup_cause will say
  grant,          \* address in the CLAIM being persisted
  own,            \* leaf_main_run's short_address
  interval,       \* the interval the leaf has read last
  config,         \* CONFIG being applied: interval and threshold
  granted         \* history: the address of the last claim committed, until a reset

nvs == <<spaces, flash>>
ram == <<grant, own, interval, config>>
vars == <<spaces, flash, pc, cause, grant, own, interval, config, granted>>

TypeOK == /\ spaces \subseteq Namespaces
          /\ flash \in [Keys -> AnyValue]
          /\ flash["claimed"] \in {1, Unset}
          /\ flash["short_addr"] \in Addresses \cup {Unset}
          /\ flash["wake_ivl"] \in Intervals \cup {Unset}
          /\ flash["moist_thr"] \in Thresholds \cup {Unset}
          /\ pc \in Steps
          /\ cause \in {"power", "timer", "button"}
          /\ grant \in Addresses \cup {NoAddress}
          /\ own \in Addresses \cup {NoAddress}
          /\ interval \in Intervals
          /\ config \in Intervals \X Thresholds
          /\ granted \in Addresses \cup {NoAddress}

Goto(step) == pc' = step

(* What the getters return.                                                *)
IsClaimed == flash["claimed"] = 1
ShortAddress == IF flash["short_addr"] = Unset THEN NoAddress ELSE flash["short_addr"]
WakeInterval == IF flash["wake_ivl"] = Unset THEN DefaultInterval ELSE flash["wake_ivl"]

NoRam == /\ grant' = NoAddress
         /\ own' = NoAddress
         /\ interval' = DefaultInterval
         /\ config' = <<DefaultInterval, DefaultThreshold>>

Init == /\ spaces \in Prepared
        /\ flash = [key \in Keys |-> Unset]
        /\ pc = "off"
        /\ cause = "power"
        /\ grant = NoAddress
        /\ own = NoAddress
        /\ interval = DefaultInterval
        /\ config = <<DefaultInterval, DefaultThreshold>>
        /\ granted = NoAddress

-----------------------------------------------------------------------------
(* Seeded faults, for showing that the properties notice them: a short     *)
(* press that counts, a reset that leaves a key, an announcement outside   *)
(* the loop, swapped arguments, an interval that is not read again.        *)
HoldReleasedWipes == /\ pc = "hold"
                     /\ Goto("erase")
                     /\ UNCHANGED <<nvs, cause, ram, granted>>

EraseDoneEarly == /\ pc = "erase"
                  /\ flash["short_addr"] = Unset
                  /\ Goto("boot")
                  /\ cause' = "power"
                  /\ NoRam
                  /\ UNCHANGED <<nvs, granted>>

DelayQuiet == /\ pc = "delay"
              /\ Goto("listen")
              /\ UNCHANGED <<nvs, cause, ram, granted>>

SetShortAddrSwapped == /\ pc = "set_short_addr"
                       /\ flash' = [flash EXCEPT !["short_addr"] = HUB_ID]
                       /\ Goto("commit_id")
                       /\ UNCHANGED <<spaces, cause, ram, granted>>

ToSleepStale == /\ pc = "to_sleep"
                /\ Goto("asleep")
                /\ UNCHANGED <<nvs, cause, ram, granted>>

(* app_main.                                                               *)
PowerOn == /\ pc = "off"
           /\ Goto("boot")
           /\ cause' = "power"
           /\ UNCHANGED <<nvs, ram, granted>>

(* A wake-up by the button has its hold confirmed before anything else.    *)
Boot == /\ pc = "boot"
        /\ Goto(IF cause = "button" THEN "hold" ELSE "check")
        /\ UNCHANGED <<nvs, cause, ram, granted>>

HoldReleased == /\ pc = "hold"
                /\ Goto("check")
                /\ UNCHANGED <<nvs, cause, ram, granted>>

HoldConfirmed == /\ pc = "hold"
                 /\ spaces' = spaces \cup {"node_id"}
                 /\ granted' = NoAddress
                 /\ Goto("erase")
                 /\ UNCHANGED <<flash, cause, ram>>

(* nvs_erase_all erases the namespace's entries one after another, in the  *)
(* order they lie in flash; then the board restarts.                       *)
Erase(key) == /\ pc = "erase"
              /\ flash[key] # Unset
              /\ flash' = [flash EXCEPT ![key] = Unset]
              /\ UNCHANGED <<spaces, pc, cause, ram, granted>>

EraseDone == /\ pc = "erase"
             /\ \A key \in IdentityKeys : flash[key] = Unset
             /\ Goto("boot")
             /\ cause' = "power"
             /\ NoRam
             /\ UNCHANGED <<nvs, granted>>

(* node_identity_is_claimed decides between pairing mode and the cycle.    *)
Check == /\ pc = "check"
         /\ Goto(IF "node_id" \notin spaces THEN "abort"
                 ELSE IF IsClaimed THEN "leaf" ELSE "announce")
         /\ UNCHANGED <<nvs, cause, ram, granted>>

Abort == /\ pc = "abort"
         /\ Goto("boot")
         /\ cause' = "power"
         /\ NoRam
         /\ UNCHANGED <<nvs, granted>>

-----------------------------------------------------------------------------
(* pairing_mode_run: announce, listen, wait, over and over.                *)
Announce == /\ pc = "announce"
            /\ Goto("listen")
            /\ UNCHANGED <<nvs, cause, ram, granted>>

(* Nothing heard, or nothing for this node; a BLINK that names it; a CLAIM.*)
HearNothing == /\ pc = "listen"
               /\ Goto("delay")
               /\ UNCHANGED <<nvs, cause, ram, granted>>

HearBlink == /\ pc = "listen"
             /\ Goto("blink")
             /\ UNCHANGED <<nvs, cause, ram, granted>>

BlinkLed == /\ pc = "blink"
            /\ Goto("delay")
            /\ UNCHANGED <<nvs, cause, ram, granted>>

HearClaim(a) == /\ pc = "listen"
                /\ grant' = a
                /\ Goto("open_id")
                /\ UNCHANGED <<nvs, cause, own, interval, config, granted>>

Delay == /\ pc = "delay"
         /\ Goto("announce")
         /\ UNCHANGED <<nvs, cause, ram, granted>>

(* node_identity_set_claimed, write by write.                              *)
OpenIdentity == /\ pc = "open_id"
                /\ spaces' = spaces \cup {"node_id"}
                /\ Goto("set_claimed")
                /\ UNCHANGED <<flash, cause, ram, granted>>

SetClaimed == /\ pc = "set_claimed"
              /\ flash' = [flash EXCEPT !["claimed"] = 1]
              /\ Goto("set_hub_id")
              /\ UNCHANGED <<spaces, cause, ram, granted>>

SetHubId == /\ pc = "set_hub_id"
            /\ flash' = [flash EXCEPT !["hub_id"] = HUB_ID]
            /\ Goto("set_short_addr")
            /\ UNCHANGED <<spaces, cause, ram, granted>>

SetShortAddr == /\ pc = "set_short_addr"
                /\ flash' = [flash EXCEPT !["short_addr"] = grant]
                /\ Goto("commit_id")
                /\ UNCHANGED <<spaces, cause, ram, granted>>

(* Committed: the pairing loop returns and the leaf's cycle starts.        *)
CommitIdentity == /\ pc = "commit_id"
                  /\ granted' = grant
                  /\ grant' = NoAddress
                  /\ Goto("leaf")
                  /\ UNCHANGED <<nvs, cause, own, interval, config>>

-----------------------------------------------------------------------------
(* leaf_main_run: read identity and configuration, of which the namespace  *)
(* may not exist yet ...                                                   *)
LeafStart == /\ pc = "leaf"
             /\ own' = ShortAddress
             /\ IF "node_cfg" \in spaces
                THEN interval' = WakeInterval /\ Goto("discover")
                ELSE UNCHANGED interval /\ Goto("abort")
             /\ UNCHANGED <<nvs, cause, grant, config, granted>>

(* ... find a parent or give up until the next wake ...                    *)
NoParent == /\ pc = "discover"
            /\ Goto("asleep")
            /\ UNCHANGED <<nvs, cause, ram, granted>>

Parent == /\ pc = "discover"
          /\ Goto("report")
          /\ UNCHANGED <<nvs, cause, ram, granted>>

(* ... send JOIN and DATA as `own' ...                                     *)
Report == /\ pc = "report"
          /\ Goto("listen_config")
          /\ UNCHANGED <<nvs, cause, ram, granted>>

(* ... and take a CONFIG that names it, or none, from the first frame in   *)
(* the window.  node_config_apply opens the namespace and writes two keys. *)
HearNoConfig == /\ pc = "listen_config"
                /\ Goto("to_sleep")
                /\ UNCHANGED <<nvs, cause, ram, granted>>

HearConfig(i, t) == /\ pc = "listen_config"
                    /\ config' = <<i, t>>
                    /\ spaces' = spaces \cup {"node_cfg"}
                    /\ Goto("set_wake")
                    /\ UNCHANGED <<flash, cause, grant, own, interval, granted>>

SetWake == /\ pc = "set_wake"
           /\ flash' = [flash EXCEPT !["wake_ivl"] = config[1]]
           /\ Goto("set_thr")
           /\ UNCHANGED <<spaces, cause, ram, granted>>

SetThreshold == /\ pc = "set_thr"
                /\ flash' = [flash EXCEPT !["moist_thr"] = config[2]]
                /\ Goto("to_sleep")
                /\ UNCHANGED <<spaces, cause, ram, granted>>

(* The interval is read again for the sleep that follows.                  *)
ToSleep == /\ pc = "to_sleep"
           /\ interval' = WakeInterval
           /\ Goto("asleep")
           /\ UNCHANGED <<nvs, cause, grant, own, config, granted>>

(* Deep sleep keeps no RAM; the timer or the button ends it.               *)
Wake(why) == /\ pc = "asleep"
             /\ cause' = why
             /\ Goto("boot")
             /\ NoRam
             /\ UNCHANGED <<nvs, granted>>

(* The battery is pulled, or runs out, anywhere.                           *)
PowerLoss == /\ pc # "off"
             /\ Goto("off")
             /\ cause' = "power"
             /\ NoRam
             /\ UNCHANGED <<nvs, granted>>

-----------------------------------------------------------------------------
Run == \/ Boot \/ HoldReleased \/ HoldConfirmed
       \/ \E key \in IdentityKeys : Erase(key)
       \/ EraseDone \/ Check \/ Abort
       \/ Announce \/ HearNothing \/ HearBlink \/ BlinkLed \/ Delay
       \/ \E a \in Addresses : HearClaim(a)
       \/ OpenIdentity \/ SetClaimed \/ SetHubId \/ SetShortAddr \/ CommitIdentity
       \/ LeafStart \/ NoParent \/ Parent \/ Report \/ HearNoConfig
       \/ \E i \in Intervals, t \in Thresholds : HearConfig(i, t)
       \/ SetWake \/ SetThreshold \/ ToSleep

Next == \/ PowerOn
        \/ Run
        \/ \E why \in {"timer", "button"} : Wake(why)
        \/ PowerLoss

Spec == Init /\ [][Next]_vars

(* A board with power runs its code, and the sleep timer goes off; nobody  *)
(* has to press the button, and power need not come back.                  *)
FairSpec == Spec /\ WF_vars(Run) /\ WF_vars(Wake("timer"))

-----------------------------------------------------------------------------
(* node_identity.h:13-16: a committed claim "must survive a full power     *)
(* loss".  Whatever the node did since, a bump of the button, a sleep, a   *)
(* lost battery in the middle of a CONFIG, only a confirmed hold ends it.  *)
ClaimSurvives == granted # NoAddress => /\ IsClaimed
                                        /\ flash["short_addr"] = granted
                                        /\ "node_id" \in spaces

(* What makes it inductive: an identity is written only by a node that has *)
(* none, or has just had its hold confirmed.                               *)
Claiming == {"announce", "listen", "blink", "delay", "open_id",
             "set_claimed", "set_hub_id", "set_short_addr"}
Ungranted == /\ pc \in Claiming \cup {"erase", "commit_id"} => granted = NoAddress
             /\ pc \in Claiming \cup {"commit_id", "leaf"} => "node_id" \in spaces
             /\ pc \in {"set_hub_id", "set_short_addr", "commit_id"} => IsClaimed
             /\ pc = "commit_id" => flash["short_addr"] = grant
             /\ pc \in {"discover", "asleep"} => interval = WakeInterval
             /\ pc \in {"open_id", "set_claimed", "set_hub_id", "set_short_addr",
                        "commit_id"} => grant # NoAddress

(* The interval of a sleep is the configured one, also when this very      *)
(* check-in changed it (leaf_main.c:121-124).                              *)
SleepsAsConfigured == pc = "asleep" => interval = WakeInterval

(* A hold that is confirmed ends in pairing mode, unless power fails.      *)
ResetLeadsToPairing == pc = "erase" ~> pc \in {"announce", "off"}

(* A node that has power and no identity is heard again and again until it *)
(* is claimed: neither a BLINK nor a stray frame ends its pairing loop.    *)
KeepsAnnouncing == pc \in {"listen", "blink", "delay"}
                     ~> pc \in {"announce", "open_id", "off"}

(* What node_identity.h:19 says of node_identity_set_claimed: it "persists *)
(* hub_id + short_address to NVS and marks the node claimed"; a leaf that  *)
(* reports has the address its claim carried.                              *)
ReportsAsItself == pc = "report" => own # NoAddress
=============================================================================

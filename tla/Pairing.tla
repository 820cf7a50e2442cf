------------------------------ MODULE Pairing ------------------------------
(***************************************************************************)
(* How boards come by their addresses.  The hub is the address book that   *)
(* Hub.tla implements; here a CLAIM goes on, through the serial line and   *)
(* the dongle, onto the air, into the receive queue of every board that is *)
(* listening (the frame names no board), and into flash key by key.  Power *)
(* may fail anywhere, and a reset makes a board listen again.              *)
(*                                                                         *)
(* Any number of boards may listen at once: pairing_mode.c:73-79 leaves it *)
(* to the operator to pair one at a time, and overheard records each       *)
(* address for which that went wrong.  Claims may be sent at any time,     *)
(* also twice.                                                             *)
(***************************************************************************)
EXTENDS Naturals, Sequences

CONSTANTS
  Boards,
  NoBoard,
  MaxAddress,     \* bound: largest address the hub hands out
  LineCap,        \* bound: lines under way from the hub to the dongle
  QueueCap        \* depth of the radio's receive queue (8 in the code)

ASSUME PairingAssumption == /\ NoBoard \notin Boards
                            /\ MaxAddress \in Nat
                            /\ LineCap \in Nat
                            /\ QueueCap \in Nat

Addresses == 1 .. MaxAddress
NoAddress == 0

VARIABLES
  recorded, told, \* the address book
  downlink,       \* lines from the hub to the dongle
  mode,           \* where each board's firmware is
  inbox,          \* each board's s_rx_queue
  grant,          \* the address each board is persisting
  claimed,        \* "claimed" in each board's flash
  address,        \* "short_addr" in each board's flash
  overheard       \* history: addresses that one transmission gave to several

book == <<recorded, told>>
flash == <<claimed, address>>
boards == <<mode, inbox, grant, claimed, address, overheard>>
vars == <<recorded, told, downlink, mode, inbox, grant, claimed, address, overheard>>

Book == INSTANCE AddressBook WITH Ids <- Addresses

Claim(a) == [type |-> "claim", address |-> a, target |-> NoBoard]
Blink(b) == [type |-> "blink", address |-> NoAddress, target |-> b]
Frame == {Claim(a) : a \in Addresses} \cup {Blink(b) : b \in Boards}

Pairing == {"listen", "blink", "set_claimed", "set_addr"}
Modes == Pairing \cup {"off", "leaf", "wipe"}

TypeOK == /\ Book!TypeOK
          /\ downlink \in Seq(Frame)
          /\ mode \in [Boards -> Modes]
          /\ inbox \in [Boards -> Seq(Frame)]
          /\ \A b \in Boards : Len(inbox[b]) <= QueueCap
          /\ grant \in [Boards -> Addresses \cup {NoAddress}]
          /\ claimed \in [Boards -> BOOLEAN]
          /\ address \in [Boards -> Addresses \cup {NoAddress}]
          /\ overheard \subseteq Addresses

Init == /\ Book!Init
        /\ downlink = <<>>
        /\ mode = [b \in Boards |-> "off"]
        /\ inbox = [b \in Boards |-> <<>>]
        /\ grant = [b \in Boards |-> NoAddress]
        /\ claimed = [b \in Boards |-> FALSE]
        /\ address = [b \in Boards |-> NoAddress]
        /\ overheard = {}

Go(b, m) == mode' = [mode EXCEPT ![b] = m]
Empty(b) == inbox' = [inbox EXCEPT ![b] = <<>>]
Forget(b) == grant' = [grant EXCEPT ![b] = NoAddress]

-----------------------------------------------------------------------------
(* Seeded faults, for showing that the properties notice them: a queue     *)
(* without a limit, a line that is sent again, a radio that is set up anew *)
(* after the LED has blinked.                                              *)
QueuedUnlimited(b, f) == Append(inbox[b], f)

RelayTwice(S) == /\ downlink # <<>>
                 /\ inbox' = [b \in Boards |-> IF b \in S /\ Len(inbox[b]) < QueueCap
                                              THEN Append(inbox[b], Head(downlink))
                                              ELSE inbox[b]]
                 /\ UNCHANGED <<book, downlink, mode, grant, flash, overheard>>

BlinkResets(b) == /\ mode[b] = "blink"
                  /\ Go(b, "listen")
                  /\ Empty(b)
                  /\ UNCHANGED <<book, downlink, grant, flash, overheard>>

(* The hub records addresses, sends CLAIM with one, and BLINK.             *)
Record(new) == /\ Book!Record(new)
               /\ UNCHANGED <<downlink, boards>>

SendClaim(a) == /\ Len(downlink) < LineCap                           \* bound
                /\ Book!Tell(a)
                /\ downlink' = Append(downlink, Claim(a))
                /\ UNCHANGED boards

SendBlink(b) == /\ Len(downlink) < LineCap                           \* bound
                /\ downlink' = Append(downlink, Blink(b))
                /\ UNCHANGED <<book, boards>>

(* The dongle sends the next line once; any of the boards whose radio is   *)
(* on may hear it, and a full queue drops it.                              *)
Hearing == {b \in Boards : mode[b] \in Pairing}

Queued(b, f) == IF Len(inbox[b]) < QueueCap THEN Append(inbox[b], f) ELSE inbox[b]

(* One CLAIM, queued by more than one board.                               *)
Takers(S) == {b \in S : Len(inbox[b]) < QueueCap}
Shared(S, f) == IF \E b, v \in Takers(S) : b # v THEN {f.address} \ {NoAddress} ELSE {}

Relay(S) == /\ downlink # <<>>
            /\ inbox' = [b \in Boards |-> IF b \in S THEN Queued(b, Head(downlink))
                                         ELSE inbox[b]]
            /\ downlink' = Tail(downlink)
            /\ overheard' = overheard \cup Shared(S, Head(downlink))
            /\ UNCHANGED <<book, mode, grant, flash>>

-----------------------------------------------------------------------------
(* A board that is switched on: pairing mode, with a queue of its own, or  *)
(* straight to the leaf's cycle.                                           *)
PowerOn(b) == /\ mode[b] = "off"
              /\ Go(b, IF claimed[b] THEN "leaf" ELSE "listen")
              /\ UNCHANGED <<book, downlink, inbox, grant, flash, overheard>>

(* handle_frame: one frame per cycle, in the order they came.              *)
HearBlink(b) == /\ mode[b] = "listen"
                /\ inbox[b] # <<>>
                /\ Head(inbox[b]).type = "blink"
                /\ inbox' = [inbox EXCEPT ![b] = Tail(@)]
                /\ Go(b, IF Head(inbox[b]).target = b THEN "blink" ELSE "listen")
                /\ UNCHANGED <<book, downlink, grant, flash, overheard>>

BlinkDone(b) == /\ mode[b] = "blink"
                /\ Go(b, "listen")
                /\ UNCHANGED <<book, downlink, inbox, grant, flash, overheard>>

HearClaim(b) == /\ mode[b] = "listen"
                /\ inbox[b] # <<>>
                /\ Head(inbox[b]).type = "claim"
                /\ inbox' = [inbox EXCEPT ![b] = Tail(@)]
                /\ grant' = [grant EXCEPT ![b] = Head(inbox[b]).address]
                /\ Go(b, "set_claimed")
                /\ UNCHANGED <<book, downlink, flash, overheard>>

(* node_identity_set_claimed; then the leaf sets its radio up anew, with   *)
(* an empty queue.                                                         *)
SetClaimed(b) == /\ mode[b] = "set_claimed"
                 /\ claimed' = [claimed EXCEPT ![b] = TRUE]
                 /\ Go(b, "set_addr")
                 /\ UNCHANGED <<book, downlink, inbox, grant, address, overheard>>

SetAddr(b) == /\ mode[b] = "set_addr"
              /\ address' = [address EXCEPT ![b] = grant[b]]
              /\ Forget(b)
              /\ Empty(b)
              /\ Go(b, "leaf")
              /\ UNCHANGED <<book, downlink, claimed, overheard>>

(* The button is held on a leaf: both keys go, in the order they lie in    *)
(* flash, and the board starts again in pairing mode.                      *)
Reset(b) == /\ mode[b] = "leaf"
            /\ Go(b, "wipe")
            /\ UNCHANGED <<book, downlink, inbox, grant, flash, overheard>>

WipeClaimed(b) == /\ mode[b] = "wipe"
                  /\ claimed[b]
                  /\ claimed' = [claimed EXCEPT ![b] = FALSE]
                  /\ UNCHANGED <<book, downlink, mode, inbox, grant, address, overheard>>

WipeAddress(b) == /\ mode[b] = "wipe"
                  /\ address[b] # NoAddress
                  /\ address' = [address EXCEPT ![b] = NoAddress]
                  /\ UNCHANGED <<book, downlink, mode, inbox, grant, claimed, overheard>>

WipeDone(b) == /\ mode[b] = "wipe"
               /\ ~ claimed[b]
               /\ address[b] = NoAddress
               /\ Go(b, "listen")
               /\ UNCHANGED <<book, downlink, inbox, grant, flash, overheard>>

PowerLoss(b) == /\ mode[b] # "off"
                /\ Go(b, "off")
                /\ Empty(b)
                /\ Forget(b)
                /\ UNCHANGED <<book, downlink, flash, overheard>>

-----------------------------------------------------------------------------
(* What a board with power does on its own.                                *)
Firmware(b) == \/ HearBlink(b) \/ BlinkDone(b) \/ HearClaim(b)
               \/ SetClaimed(b) \/ SetAddr(b)
               \/ WipeClaimed(b) \/ WipeAddress(b) \/ WipeDone(b)

Next == \/ \E new \in SUBSET Addresses : Record(new)
        \/ \E a \in Addresses : SendClaim(a)
        \/ \E b \in Boards : SendBlink(b)
        \/ \E S \in SUBSET Hearing : Relay(S)
        \/ \E b \in Boards : Firmware(b)
        \/ \E b \in Boards : PowerOn(b) \/ Reset(b) \/ PowerLoss(b)

Spec == Init /\ [][Next]_vars

(* pairing_mode_run is an endless loop that takes what is in the queue.    *)
FairSpec == Spec /\ \A b \in Boards : WF_vars(Firmware(b))

-----------------------------------------------------------------------------
(* The addresses on the way to a board, and those it has or may yet have.  *)
Carried(q) == {q[i].address : i \in DOMAIN q} \ {NoAddress}
InLine == Carried(downlink)
Has(b) == Carried(inbox[b]) \cup ({address[b], grant[b]} \ {NoAddress})

(* No two boards come to have the same granted address, be a CLAIM lost,   *)
(* late, repeated by a second request or torn in flash, but in the one way *)
(* pairing_mode.c:73-79 warns of: both were listening when the dongle sent *)
(* it.  And what a board has is never still in the line, and is recorded,  *)
(* so that a hub that restarts does not hand it out again.  (A board whose *)
(* claim was torn before its address was written reports under 0, which    *)
(* nobody was granted: see ReportsAsItself in Node.)                       *)
NoTwins == /\ \A b \in Boards : Has(b) \subseteq recorded \ InLine
           /\ \A b, v \in Boards : b # v => Has(b) \cap Has(v) \subseteq overheard

(* What makes it inductive: whatever is under way has been told, once.     *)
Told == {a \in recorded : told[a] = 1}
Spoken == InLine \subseteq Told /\ \A b \in Boards : Has(b) \subseteq Told
SentOnce == \A i, j \in DOMAIN downlink :
              i # j => downlink[i].address # downlink[j].address
                       \/ downlink[i].address = NoAddress

(* With an operator who pairs one board at a time, as pairing_mode.c       *)
(* expects, there is no such way: no two boards have an address in common. *)
Solo == \A b, v \in Hearing : b = v
Apart == \A b, v \in Boards : b # v => Has(b) \cap Has(v) = {}

(* A CLAIM that has made it into a board's queue makes it a leaf, also     *)
(* behind BLINKs for it and for others, unless its power fails.            *)
ClaimIn(b) == mode[b] \in {"listen", "blink"} /\ Carried(inbox[b]) # {}
HeardIsTaken == \A b \in Boards : ClaimIn(b) ~> mode[b] \in {"leaf", "off"}
=============================================================================

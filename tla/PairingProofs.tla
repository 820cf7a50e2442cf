--------------------------- MODULE PairingProofs ---------------------------
(***************************************************************************)
(* Proofs about Pairing: types; that no two boards come to have the same  *)
(* granted address, but for a CLAIM that both heard; and, with an operator *)
(* who pairs one board at a time, that there is no exception.  For any     *)
(* number of boards, addresses and queue depths.                           *)
(*                                                                         *)
(* The argument follows an address from the line to a queue to flash.  All *)
(* actions but two only shrink what a board has.  A CLAIM enters the line  *)
(* with an address that was never told, so that nobody has it; when the    *)
(* dongle sends it, it leaves the line, where it was only once: either one *)
(* board queues it, or its address is overheard from then on.              *)
(***************************************************************************)
EXTENDS Pairing, TLAPS

(* The addresses of a frame, and of the sequences the queues are made of.  *)
LEMMA FrameAddress == ASSUME NEW f \in Frame
                      PROVE f.address \in Addresses \cup {NoAddress}
BY DEF Frame, Claim, Blink

LEMMA CarriedAppend == ASSUME NEW q \in Seq(Frame), NEW f \in Frame
                       PROVE Carried(Append(q, f)) = Carried(q) \cup ({f.address} \ {NoAddress})
<1>1. Append(q, f) \in Seq(Frame) /\ Len(Append(q, f)) = Len(q) + 1 /\ Len(q) \in Nat
  OBVIOUS
<1>2. DOMAIN Append(q, f) = (DOMAIN q) \cup {Len(q) + 1}
  BY <1>1
<1>3. \A i \in DOMAIN q : Append(q, f)[i] = q[i]
  BY <1>1
<1>4. Append(q, f)[Len(q) + 1] = f
  BY <1>1
<1>. QED  BY <1>2, <1>3, <1>4 DEF Carried

LEMMA CarriedTail == ASSUME NEW q \in Seq(Frame), q # <<>>
                     PROVE /\ Carried(Tail(q)) \subseteq Carried(q)
                           /\ Head(q) \in Frame
                           /\ {Head(q).address} \ {NoAddress} \subseteq Carried(q)
<1>1. Tail(q) \in Seq(Frame) /\ Len(Tail(q)) = Len(q) - 1 /\ Len(q) \in Nat \ {0}
  OBVIOUS
<1>2. \A i \in DOMAIN Tail(q) : Tail(q)[i] = q[i + 1] /\ i + 1 \in DOMAIN q
  BY <1>1
<1>3. Head(q) = q[1] /\ 1 \in DOMAIN q /\ q[1] \in Frame
  BY <1>1
<1>. QED  BY <1>2, <1>3 DEF Carried

LEMMA CarriedEmpty == Carried(<<>>) = {}
BY DEF Carried

-----------------------------------------------------------------------------
(* Every variable keeps its type; queues keep their depth.                 *)
THEOREM PairingTyped == Spec => []TypeOK
<1>. USE PairingAssumption DEF TypeOK, Book!TypeOK, Addresses, NoAddress, Modes, Pairing
<1>1. Init => TypeOK
  BY DEF Init, Book!Init, Frame
<1>2. TypeOK /\ [Next]_vars => TypeOK'
  <2>. SUFFICES ASSUME TypeOK, [Next]_vars
                PROVE TypeOK'
    OBVIOUS
  <2>1. ASSUME NEW new \in SUBSET Addresses, Record(new)
        PROVE TypeOK'
    BY <2>1 DEF Record, Book!Record, boards
  <2>2. ASSUME NEW a \in Addresses, SendClaim(a)
        PROVE TypeOK'
    <3>1. Claim(a) \in Frame
      BY DEF Frame
    <3>2. Append(downlink, Claim(a)) \in Seq(Frame)
      BY <3>1
    <3>. QED  BY <2>2, <3>2 DEF SendClaim, Book!Tell, boards
  <2>3. ASSUME NEW b \in Boards, SendBlink(b)
        PROVE TypeOK'
    <3>1. Append(downlink, Blink(b)) \in Seq(Frame)
      BY DEF Frame
    <3>. QED  BY <2>3, <3>1 DEF SendBlink, book, boards
  <2>4. ASSUME NEW S \in SUBSET Hearing, Relay(S)
        PROVE TypeOK'
    <3>1. Head(downlink) \in Frame /\ Tail(downlink) \in Seq(Frame)
      BY <2>4 DEF Relay
    <3>2. \A b \in Boards : /\ Queued(b, Head(downlink)) \in Seq(Frame)
                            /\ Len(Queued(b, Head(downlink))) <= QueueCap
      <4>. SUFFICES ASSUME NEW b \in Boards
                    PROVE /\ Queued(b, Head(downlink)) \in Seq(Frame)
                          /\ Len(Queued(b, Head(downlink))) <= QueueCap
        OBVIOUS
      <4>1. inbox[b] \in Seq(Frame) /\ Len(inbox[b]) \in Nat /\ Len(inbox[b]) <= QueueCap
        OBVIOUS
      <4>2. /\ Append(inbox[b], Head(downlink)) \in Seq(Frame)
            /\ Len(Append(inbox[b], Head(downlink))) = Len(inbox[b]) + 1
        BY <3>1, <4>1
      <4>. QED  BY <4>1, <4>2 DEF Queued
    <3>3. inbox' \in [Boards -> Seq(Frame)] /\ \A b \in Boards : Len(inbox'[b]) <= QueueCap
      BY <2>4, <3>2 DEF Relay
    <3>4. overheard' \subseteq Addresses
      <4>1. Shared(S, Head(downlink)) \subseteq Addresses
        BY <3>1, FrameAddress DEF Shared
      <4>. QED  BY <2>4, <4>1 DEF Relay
    <3>. QED  BY <2>4, <3>1, <3>3, <3>4 DEF Relay, book, flash
  <2>5. ASSUME NEW b \in Boards, HearBlink(b) \/ HearClaim(b)
        PROVE TypeOK'
    <3>1. /\ inbox[b] \in Seq(Frame) /\ inbox[b] # <<>>
          /\ inbox' = [inbox EXCEPT ![b] = Tail(@)]
      BY <2>5 DEF HearBlink, HearClaim
    <3>2. Tail(inbox[b]) \in Seq(Frame) /\ Len(Tail(inbox[b])) <= QueueCap
      BY <3>1
    <3>3. Head(inbox[b]) \in Frame
      BY <3>1
    <3>4. Head(inbox[b]).address \in Addresses \cup {NoAddress}
      BY <3>3, FrameAddress
    <3>5. inbox' \in [Boards -> Seq(Frame)] /\ \A v \in Boards : Len(inbox'[v]) <= QueueCap
      BY <3>1, <3>2
    <3>. QED  BY <2>5, <3>4, <3>5 DEF HearBlink, HearClaim, Go, book, flash
  <2>6. ASSUME NEW b \in Boards, PowerOn(b) \/ BlinkDone(b) \/ Reset(b) \/ WipeDone(b)
        PROVE TypeOK'
    BY <2>6 DEF PowerOn, BlinkDone, Reset, WipeDone, Go, book, flash
  <2>7. ASSUME NEW b \in Boards, SetClaimed(b) \/ WipeClaimed(b) \/ WipeAddress(b)
        PROVE TypeOK'
    BY <2>7 DEF SetClaimed, WipeClaimed, WipeAddress, Go, book
  <2>8. ASSUME NEW b \in Boards, SetAddr(b) \/ PowerLoss(b)
        PROVE TypeOK'
    <3>1. <<>> \in Seq(Frame) /\ Len(<<>>) <= QueueCap
      OBVIOUS
    <3>. QED  BY <2>8, <3>1 DEF SetAddr, PowerLoss, Go, Empty, Forget, book, flash
  <2>9. CASE UNCHANGED vars
    BY <2>9 DEF vars
  <2>. QED  BY <2>1, <2>2, <2>3, <2>4, <2>5, <2>6, <2>7, <2>8, <2>9 DEF Next, Firmware
<1>. QED  BY <1>1, <1>2, PTL DEF Spec

-----------------------------------------------------------------------------
(* What an address may not do, in one formula.                             *)
Safe == NoTwins /\ Spoken /\ SentOnce

(* A step that gives no board and no line an address keeps them apart.     *)
LEMMA Shrinks == ASSUME Safe,
                        \A b \in Boards : Has(b)' \subseteq Has(b),
                        downlink' = downlink,
                        Told \subseteq Told',
                        overheard' = overheard
                 PROVE Safe'
<1>1. InLine' = InLine /\ SentOnce'
  BY DEF InLine, Carried, Safe, SentOnce
<1>2. Spoken'
  BY <1>1 DEF Safe, Spoken
<1>3. NoTwins'
  <2>1. \A b \in Boards : Has(b)' \subseteq Told'
    BY <1>2 DEF Spoken
  <2>2. Told' \subseteq recorded'
    BY DEF Told
  <2>. QED  BY <1>1, <2>1, <2>2 DEF Safe, NoTwins
<1>. QED  BY <1>1, <1>2, <1>3 DEF Safe

(* A board's own steps move an address on or drop it.                      *)
LEMMA FirmwareShrinks ==
  ASSUME TypeOK, NEW b \in Boards, Firmware(b) \/ PowerOn(b) \/ Reset(b) \/ PowerLoss(b)
  PROVE /\ \A v \in Boards : Has(v)' \subseteq Has(v)
        /\ UNCHANGED <<downlink, recorded, told, overheard>>
<1>. USE DEF TypeOK, Has
<1>1. UNCHANGED <<downlink, recorded, told, overheard>>
  BY DEF Firmware, HearBlink, BlinkDone, HearClaim, SetClaimed, SetAddr, WipeClaimed,
         WipeAddress, WipeDone, PowerOn, Reset, PowerLoss, book
<1>2. CASE HearBlink(b) \/ HearClaim(b)
  <2>1. inbox[b] \in Seq(Frame) /\ inbox[b] # <<>>
    BY <1>2 DEF HearBlink, HearClaim
  <2>2. /\ Carried(Tail(inbox[b])) \subseteq Carried(inbox[b])
        /\ {Head(inbox[b]).address} \ {NoAddress} \subseteq Carried(inbox[b])
    BY <2>1, CarriedTail
  <2>3. /\ inbox' = [inbox EXCEPT ![b] = Tail(inbox[b])]
        /\ grant' = grant \/ grant' = [grant EXCEPT ![b] = Head(inbox[b]).address]
        /\ address' = address
    BY <1>2 DEF HearBlink, HearClaim, flash
  <2>4. /\ inbox'[b] = Tail(inbox[b])
        /\ grant'[b] \in {grant[b], Head(inbox[b]).address}
        /\ address'[b] = address[b]
        /\ \A v \in Boards \ {b} : /\ inbox'[v] = inbox[v]
                                   /\ grant'[v] = grant[v]
                                   /\ address'[v] = address[v]
    BY <2>3
  <2>5. Has(b)' \subseteq Has(b)
    <3>1. Has(b)' = Carried(Tail(inbox[b])) \cup ({address[b], grant'[b]} \ {NoAddress})
      BY <2>4 DEF Carried
    <3>. QED  BY <2>2, <2>4, <3>1
  <2>6. \A v \in Boards \ {b} : Has(v)' = Has(v)
    BY <2>4 DEF Carried
  <2>. QED  BY <1>1, <2>5, <2>6
<1>3. CASE SetAddr(b) \/ PowerLoss(b)
  <2>1. /\ inbox'[b] = <<>> /\ grant'[b] = NoAddress
        /\ address'[b] \in {address[b], grant[b]}
        /\ \A v \in Boards \ {b} : /\ inbox'[v] = inbox[v]
                                   /\ grant'[v] = grant[v]
                                   /\ address'[v] = address[v]
    BY <1>3 DEF SetAddr, PowerLoss, Empty, Forget, flash
  <2>2. Has(b)' = Carried(<<>>) \cup ({address'[b], NoAddress} \ {NoAddress})
    BY <2>1 DEF Carried
  <2>3. \A v \in Boards \ {b} : Has(v)' = Has(v)
    BY <2>1 DEF Carried
  <2>. QED  BY <1>1, <2>1, <2>2, <2>3, CarriedEmpty
<1>4. CASE SetClaimed(b) \/ BlinkDone(b) \/ WipeClaimed(b) \/ WipeDone(b) \/ PowerOn(b) \/ Reset(b)
  BY <1>1, <1>4 DEF SetClaimed, BlinkDone, WipeClaimed, WipeDone, PowerOn, Reset, flash, Carried
<1>5. CASE WipeAddress(b)
  <2>1. inbox' = inbox /\ grant' = grant
    BY <1>5 DEF WipeAddress
  <2>2. \A v \in Boards : address'[v] \in {address[v], NoAddress}
    BY <1>5 DEF WipeAddress
  <2>. QED  BY <1>1, <2>1, <2>2 DEF Carried
<1>. QED  BY <1>2, <1>3, <1>4, <1>5 DEF Firmware

(* A CLAIM on its way into the line carries an address nobody has.         *)
LEMMA SendKeeps == ASSUME TypeOK, Safe, NEW a \in Addresses, SendClaim(a)
                   PROVE Safe'
<1>. USE DEF TypeOK, Book!TypeOK
<1>0. /\ downlink' = Append(downlink, Claim(a)) /\ UNCHANGED <<recorded, boards>>
      /\ a \in recorded /\ told[a] = 0 /\ told' = [told EXCEPT ![a] = 1]
      /\ Claim(a) \in Frame /\ Claim(a).address = a
      /\ a \notin Told /\ a # NoAddress
  BY DEF SendClaim, Book!Tell, Frame, Claim, Told, Addresses, NoAddress
<1>1. Told' = Told \cup {a}
  BY <1>0 DEF Told
<1>2. InLine' = InLine \cup ({a} \ {NoAddress})
  BY <1>0, CarriedAppend DEF InLine
<1>3. \A b \in Boards : Has(b)' = Has(b)
  BY <1>0 DEF Has, Carried, boards
<1>4. Spoken'
  BY <1>1, <1>2, <1>3 DEF Safe, Spoken
<1>5. NoTwins'
  <2>1. \A b \in Boards : a \notin Has(b)
    BY <1>0 DEF Safe, Spoken
  <2>. QED  BY <1>0, <1>2, <1>3, <2>1 DEF Safe, NoTwins, boards
<1>6. SentOnce'
  <2>1. \A i \in DOMAIN downlink : downlink[i].address # a \/ downlink[i].address = NoAddress
    BY <1>0 DEF Safe, Spoken, InLine, Carried
  <2>2. /\ DOMAIN downlink' = DOMAIN downlink \cup {Len(downlink) + 1}
        /\ downlink'[Len(downlink) + 1].address = a
        /\ \A i \in DOMAIN downlink : downlink'[i] = downlink[i]
    <3>1. Len(Append(downlink, Claim(a))) = Len(downlink) + 1 /\ Len(downlink) \in Nat
      BY <1>0
    <3>. QED  BY <1>0, <3>1
  <2>3. SUFFICES ASSUME NEW i \in DOMAIN downlink', NEW j \in DOMAIN downlink', i # j
                 PROVE downlink'[i].address # downlink'[j].address
                       \/ downlink'[i].address = NoAddress
    BY DEF SentOnce
  <2>. QED  BY <1>0, <2>1, <2>2, <2>3 DEF Safe, SentOnce
<1>. QED  BY <1>4, <1>5, <1>6 DEF Safe

(* BLINK carries no address.                                               *)
LEMMA BlinkKeeps == ASSUME TypeOK, Safe, NEW b \in Boards, SendBlink(b)
                    PROVE Safe'
<1>. USE DEF TypeOK
<1>0. /\ downlink' = Append(downlink, Blink(b)) /\ UNCHANGED <<recorded, told, boards>>
      /\ Blink(b) \in Frame /\ Blink(b).address = NoAddress
  BY DEF SendBlink, Frame, Blink, book
<1>1. Told' = Told /\ InLine' = InLine /\ \A v \in Boards : Has(v)' = Has(v)
  <2>1. InLine' = InLine
    <3>1. Carried(Append(downlink, Blink(b)))
            = Carried(downlink) \cup ({Blink(b).address} \ {NoAddress})
      BY <1>0, CarriedAppend
    <3>2. Carried(Append(downlink, Blink(b))) = Carried(downlink)
      BY <1>0, <3>1
    <3>. QED  BY <1>0, <3>2 DEF InLine
  <2>2. Told' = Told
    BY <1>0 DEF Told
  <2>3. \A v \in Boards : Has(v)' = Has(v)
    BY <1>0 DEF Has, Carried, boards
  <2>. QED  BY <2>1, <2>2, <2>3
<1>2. SentOnce'
  <2>1. /\ DOMAIN downlink' = DOMAIN downlink \cup {Len(downlink) + 1}
        /\ downlink'[Len(downlink) + 1].address = NoAddress
        /\ \A i \in DOMAIN downlink : downlink'[i] = downlink[i]
    <3>1. Len(Append(downlink, Blink(b))) = Len(downlink) + 1 /\ Len(downlink) \in Nat
      BY <1>0
    <3>. QED  BY <1>0, <3>1
  <2>. QED  BY <2>1 DEF Safe, SentOnce
<1>. QED  BY <1>0, <1>1, <1>2 DEF Safe, Spoken, NoTwins, boards

(* The dongle's line empties into the queue of one board, or of several of *)
(* which overheard takes note.                                             *)
LEMMA RelayKeeps == ASSUME TypeOK, Safe, NEW S \in SUBSET Hearing, Relay(S)
                    PROVE Safe'
<1>. DEFINE h == Head(downlink)
<1>. USE DEF TypeOK
<1>0. /\ downlink \in Seq(Frame) /\ downlink # <<>> /\ downlink' = Tail(downlink)
      /\ UNCHANGED <<recorded, told, grant, address>>
      /\ inbox' = [b \in Boards |-> IF b \in S THEN Queued(b, h) ELSE inbox[b]]
      /\ overheard' = overheard \cup Shared(S, h)
  BY DEF Relay, book, flash
<1>1. /\ Carried(Tail(downlink)) \subseteq InLine
      /\ h \in Frame
      /\ {h.address} \ {NoAddress} \subseteq InLine
  BY <1>0, CarriedTail DEF InLine
<1>2. \A i \in DOMAIN Tail(downlink) : Tail(downlink)[i] = downlink[i + 1]
                                      /\ i + 1 \in DOMAIN downlink /\ i + 1 # 1 /\ i \in Nat
  <2>1. Len(Tail(downlink)) = Len(downlink) - 1 /\ Len(downlink) \in Nat \ {0}
    BY <1>0
  <2>. QED  BY <1>0, <2>1
<1>3. h = downlink[1] /\ 1 \in DOMAIN downlink
  BY <1>0
<1>4. {h.address} \cap Carried(Tail(downlink)) = {}
  BY <1>2, <1>3 DEF Carried, Safe, SentOnce
<1>5. SentOnce'
  BY <1>0, <1>2 DEF Safe, SentOnce
<1>6. InLine' = Carried(Tail(downlink)) /\ Told' = Told
  BY <1>0 DEF InLine, Told, Carried
<1>7. \A b \in Boards : Has(b)' \subseteq Has(b) \cup ({h.address} \ {NoAddress})
  <2>. SUFFICES ASSUME NEW b \in Boards
                PROVE Has(b)' \subseteq Has(b) \cup ({h.address} \ {NoAddress})
    OBVIOUS
  <2>1. inbox'[b] \in {inbox[b], Append(inbox[b], h)}
    BY <1>0 DEF Queued
  <2>2. Carried(inbox'[b]) \subseteq Carried(inbox[b]) \cup ({h.address} \ {NoAddress})
    BY <1>1, <2>1, CarriedAppend
  <2>3. Has(b)' = Carried(inbox'[b]) \cup ({address[b], grant[b]} \ {NoAddress})
    BY <1>0 DEF Has, Carried
  <2>. QED  BY <2>2, <2>3 DEF Has
<1>8. \A b \in Boards \ Takers(S) : Has(b)' = Has(b)
  <2>. SUFFICES ASSUME NEW b \in Boards \ Takers(S)
                PROVE Has(b)' = Has(b)
    OBVIOUS
  <2>1. inbox'[b] = inbox[b]
    BY <1>0 DEF Queued, Takers
  <2>. QED  BY <1>0, <2>1 DEF Has, Carried
<1>9. \/ \A b, v \in Takers(S) : b = v
      \/ {h.address} \ {NoAddress} \subseteq overheard'
  BY <1>0 DEF Shared
<1>10. Spoken'
  BY <1>1, <1>6, <1>7 DEF Safe, Spoken
<1>11. NoTwins'
  <2>1. \A b \in Boards : Has(b) \cap InLine = {} /\ Has(b) \subseteq recorded
    BY DEF Safe, NoTwins
  <2>2. \A b \in Boards : Has(b)' \subseteq recorded'
    BY <1>0, <1>10 DEF Spoken, Told
  <2>3. \A b \in Boards : Has(b)' \cap InLine' = {}
    BY <1>1, <1>4, <1>6, <1>7, <2>1
  <2>4. ASSUME NEW b \in Boards, NEW v \in Boards, b # v
        PROVE Has(b)' \cap Has(v)' \subseteq overheard'
    <3>1. Has(b) \cap Has(v) \subseteq overheard /\ overheard \subseteq overheard'
      BY <1>0, <2>4 DEF Safe, NoTwins
    <3>2. CASE b \notin Takers(S) \/ v \notin Takers(S)
      BY <1>1, <1>7, <1>8, <2>1, <3>1, <3>2
    <3>3. CASE b \in Takers(S) /\ v \in Takers(S)
      <4>1. {h.address} \ {NoAddress} \subseteq overheard'
        BY <1>9, <2>4, <3>3
      <4>. QED  BY <1>1, <1>7, <2>1, <3>1, <4>1
    <3>. QED  BY <3>2, <3>3
  <2>. QED  BY <2>2, <2>3, <2>4 DEF NoTwins
<1>. QED  BY <1>5, <1>10, <1>11 DEF Safe

(* What keeps two boards apart, of which NoTwins is a part, is inductive.  *)
LEMMA SafeAlways == Spec => []Safe
<1>1. Init => Safe
  <2>. SUFFICES ASSUME Init
                PROVE Safe
    OBVIOUS
  <2>1. InLine = {} /\ \A b \in Boards : Has(b) = {}
    BY CarriedEmpty DEF Init, InLine, Has
  <2>2. SentOnce
    BY DEF Init, SentOnce
  <2>. QED  BY <2>1, <2>2 DEF Safe, NoTwins, Spoken
<1>2. TypeOK /\ Safe /\ [Next]_vars => Safe'
  <2>. SUFFICES ASSUME TypeOK, Safe, [Next]_vars
                PROVE Safe'
    OBVIOUS
  <2>1. ASSUME NEW new \in SUBSET Addresses, Record(new)
        PROVE Safe'
    <3>1. /\ Told \subseteq Told' /\ downlink' = downlink /\ overheard' = overheard
          /\ \A b \in Boards : Has(b)' = Has(b)
      BY <2>1 DEF Record, Book!Record, Told, Has, Carried, boards
    <3>. QED  BY <3>1, Shrinks
  <2>2. ASSUME NEW b \in Boards, Firmware(b) \/ PowerOn(b) \/ Reset(b) \/ PowerLoss(b)
        PROVE Safe'
    <3>1. Told' = Told
      BY <2>2, FirmwareShrinks DEF Told
    <3>. QED  BY <2>2, <3>1, FirmwareShrinks, Shrinks
  <2>3. CASE UNCHANGED vars
    BY <2>3, Shrinks DEF vars, Told, Has, Carried
  <2>. QED  BY <2>1, <2>2, <2>3, SendKeeps, BlinkKeeps, RelayKeeps DEF Next
<1>. QED  BY <1>1, <1>2, PairingTyped, PTL DEF Spec

(* No two boards come to have one granted address, whatever is lost, late  *)
(* or torn, but by a CLAIM that both heard (pairing_mode.c:73-79).         *)
THEOREM PairingUnique == Spec => []NoTwins
<1>1. Safe => NoTwins
  BY DEF Safe
<1>. QED  BY <1>1, SafeAlways, PTL

(* And with an operator who never has two boards listening at once, none   *)
(* have: nothing is overheard, for one transmission has one taker.         *)
THEOREM PairingApart == Spec /\ []Solo => []Apart
<1>. DEFINE Quiet == overheard = {}
<1>1. Init => Quiet
  BY DEF Init
<1>2. Solo /\ Quiet /\ [Next]_vars => Quiet'
  <2>. SUFFICES ASSUME Solo, Quiet, [Next]_vars
                PROVE Quiet'
    OBVIOUS
  <2>1. ASSUME NEW S \in SUBSET Hearing, Relay(S)
        PROVE Quiet'
    <3>1. \A b, v \in Takers(S) : b = v
      BY DEF Takers, Solo
    <3>. QED  BY <2>1, <3>1 DEF Relay, Shared
  <2>2. CASE \E b \in Boards : Firmware(b) \/ PowerOn(b) \/ Reset(b) \/ PowerLoss(b)
    BY <2>2 DEF Firmware, HearBlink, BlinkDone, HearClaim, SetClaimed, SetAddr, WipeClaimed,
                WipeAddress, WipeDone, PowerOn, Reset, PowerLoss
  <2>3. CASE (\E new \in SUBSET Addresses : Record(new)) \/ (\E a \in Addresses : SendClaim(a))
             \/ (\E b \in Boards : SendBlink(b)) \/ UNCHANGED vars
    BY <2>3 DEF Record, SendClaim, SendBlink, boards, vars
  <2>. QED  BY <2>1, <2>2, <2>3 DEF Next
<1>3. NoTwins /\ Quiet => Apart
  BY DEF NoTwins, Apart
<1>. QED  BY <1>1, <1>2, <1>3, PairingUnique, PTL DEF Spec
=============================================================================

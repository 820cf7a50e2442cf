----------------------------- MODULE SerialLink -----------------------------
(***************************************************************************)
(* The dongle between the radio and the hub (root_main.c, dongle_uart.c,   *)
(* ieee802154_radio.c, hub/serial_bridge.py): text lines in both           *)
(* directions over a serial line without flow control or checksum.         *)
(*                                                                         *)
(* Hub threads share the port and no lock: the operating system may take a *)
(* part of a line and another thread's bytes before the rest. The UART     *)
(* driver of the dongle holds a bounded number of bytes, and the dongle or *)
(* the hub may restart in the middle of a line. Root beacons leave this    *)
(* state alone and are in Discovery.                                       *)
(***************************************************************************)
EXTENDS Frame, FiniteSets, SequencesExt

CONSTANTS
  Web, Poll,      \* the threads that write: request handlers, the poll thread
  Commands,       \* the BLINK and CLAIM payloads requests send
  Configs,        \* the CONFIG payloads the poll thread may answer DATA with
  Air,            \* payloads the dongle's radio may receive
  Rssi,           \* signal strengths, as the text of a decimal number
  RingSize,       \* DONGLE_UART_DRIVER_RX_BUF_SIZE
  LineMax,        \* DONGLE_UART_LINE_MAX_LEN
  QueueDepth,     \* the radio's receive queue
  Cuts,           \* the places of a line where it may be interrupted
  MaxLoad         \* bound of the model: lines and frames under way

(* Every line the hub writes fits into the line buffer; str(int) has no    *)
(* other characters.                                                       *)
ASSUME SerialAssumption ==
  /\ IsFiniteSet(Web) /\ Poll \notin Web
  /\ RingSize \in Nat /\ LineMax \in Nat \ {0} /\ QueueDepth \in Nat
  /\ Cuts \subseteq Nat \ {0}
  /\ MaxLoad \in Nat
  /\ \A p \in Commands \cup Configs :
       /\ p \in Seq(0 .. 255) /\ Len(p) \in 1 .. PROTOCOL_FRAME_MAX_LEN
       /\ 2 * Len(p) + 4 < LineMax
  /\ Air \subseteq Seq(0 .. 255)
  /\ Rssi \subseteq Seq({"-", "0", "1", "2", "3", "4", "5", "6", "7", "8", "9"})

Threads == Web \cup {Poll}

VARIABLES
  todo,           \* per thread, the characters of its line not yet written
  ring,           \* characters in the UART driver of the dongle
  line_buf,       \* the dongle's s_line_buf
  rxq,            \* the radio's receive queue
  up,             \* characters on their way to the hub
  poll,           \* the poll thread: "runs", or "dead" of an exception
  open,           \* history: payloads whose lines were begun and which neither
                  \* they nor a later one has been transmitted
  due,            \* history: frames and strengths reported to the hub, likewise
                  \* (none once nothing is on its way)
  damage          \* history: "none"; "loses" once a line was cut into or cut
                  \* off by a restart; "mixes" once a byte was lost to a full
                  \* ring or two lines were left unfinished at once

dongle == <<ring, line_buf, rxq>>
history == <<open, due, damage>>
vars == <<todo, dongle, up, poll, history>>

-----------------------------------------------------------------------------
(* Lines. Characters are strings of length one.                            *)
Newline == "\n"
Space == " "
Hex == <<"0", "1", "2", "3", "4", "5", "6", "7", "8", "9", "a", "b", "c", "d", "e", "f">>
UpperHex == <<"0", "1", "2", "3", "4", "5", "6", "7", "8", "9", "A", "B", "C", "D", "E", "F">>

(* The characters of the lines either side writes.                         *)
Char == ToSet(Hex) \cup {"R", "T", "X", "-", Space, Newline}

hex_encode(data) ==
  [i \in 1 .. 2 * Len(data) |->
     LET byte == data[(i + 1) \div 2]
     IN  Hex[1 + IF i % 2 = 1 THEN byte \div 16 ELSE byte % 16]]

IsHex(c) == c \in ToSet(Hex) \cup ToSet(UpperHex)
hex_nibble(c) == CHOOSE n \in 0 .. 15 : c \in {Hex[n + 1], UpperHex[n + 1]}

(* The bytes a hexadecimal text stands for, <<>> when it is refused.       *)
FromHex(hex) ==
  IF Len(hex) % 2 = 0 /\ \A i \in DOMAIN hex : IsHex(hex[i])
    THEN [i \in 1 .. Len(hex) \div 2 |-> 16 * hex_nibble(hex[2 * i - 1]) + hex_nibble(hex[2 * i])]
    ELSE <<>>

hex_decode(hex) == IF Len(hex) \div 2 > PROTOCOL_FRAME_MAX_LEN THEN <<>> ELSE FromHex(hex)

encode_tx_line(payload) == <<"T", "X", Space>> \o hex_encode(payload) \o <<Newline>>
rx_line(payload, rssi) ==
  <<"R", "X", Space>> \o hex_encode(payload) \o <<Space>> \o rssi \o <<Newline>>

(* A seeded fault: the prefix is not compared.                             *)
parse_tx_lineLoose(line) == IF Len(line) < 4 THEN <<>> ELSE hex_decode(SubSeq(line, 4, Len(line)))

parse_tx_line(line) ==
  IF Len(line) < 4 \/ SubSeq(line, 1, 3) # <<"T", "X", Space>>
    THEN <<>> ELSE hex_decode(SubSeq(line, 4, Len(line)))

(* Seeded faults: a line buffer without a bound, a reader that drops what  *)
(* follows a frame.                                                        *)
ReadByteUnbounded(s, byte) ==
  IF s.frame # <<>> THEN [s EXCEPT !.ring = Append(@, byte)]
  ELSE IF byte = Newline THEN [s EXCEPT !.frame = parse_tx_line(s.line), !.line = <<>>]
  ELSE [s EXCEPT !.line = Append(@, byte)]

ReadByteDrops(s, byte) ==
  IF s.frame # <<>> THEN s
  ELSE IF byte = Newline THEN [s EXCEPT !.frame = parse_tx_line(s.line), !.line = <<>>]
  ELSE IF Len(s.line) < LineMax - 1 THEN [s EXCEPT !.line = Append(@, byte)]
  ELSE s

(* One turn of dongle_uart_poll_tx_frame's loop; what follows the first    *)
(* line that holds a frame stays in the driver.                            *)
ReadByte(s, byte) ==
  IF s.frame # <<>> THEN [s EXCEPT !.ring = Append(@, byte)]
  ELSE IF byte = Newline THEN [s EXCEPT !.frame = parse_tx_line(s.line), !.line = <<>>]
  ELSE IF Len(s.line) < LineMax - 1 THEN [s EXCEPT !.line = Append(@, byte)]
  ELSE s

dongle_uart_poll_tx_frame ==
  LET read[i \in 0 .. Len(ring)] ==
        IF i = 0 THEN [frame |-> <<>>, line |-> line_buf, ring |-> <<>>]
                 ELSE ReadByte(read[i - 1], ring[i])
  IN  read[Len(ring)]

(* str.strip().split(): the k-th word begins where k words have begun.     *)
Blank(c) == c \in {Space, Newline}

Starts(line) ==
  {i \in DOMAIN line : ~Blank(line[i]) /\ (i = 1 \/ Blank(line[i - 1]))}

Word(line, i) ==
  SubSeq(line, i, Min({j \in i .. Len(line) : j = Len(line) \/ Blank(line[j + 1])}))

Words(line) ==
  LET start(k) == CHOOSE i \in Starts(line) : Cardinality({j \in Starts(line) : j <= i}) = k
  IN  [k \in 1 .. Cardinality(Starts(line)) |-> Word(line, start(k))]

IsInt(word) ==
  LET digits == IF word[1] = "-" THEN Tail(word) ELSE word
  IN  digits # <<>> /\ ToSet(digits) \subseteq {Hex[i] : i \in 1 .. 10}

(* A seeded fault: int() outside the try block.                            *)
decode_rx_lineUncaught(line) ==
  LET parts == Words(line)
  IN  IF Len(parts) # 3 \/ parts[1] # <<"R", "X">> THEN NoFrame
      ELSE IF ~IsInt(parts[3]) THEN ValueError
      ELSE HubDecode(FromHex(parts[2]))

(* The frame a line carries; NoFrame if malformed, ValueError if decoding  *)
(* it raises.                                                              *)
decode_rx_line(line) ==
  LET parts == Words(line)
  IN  IF Len(parts) # 3 \/ parts[1] # <<"R", "X">> THEN NoFrame
      ELSE IF ~IsInt(parts[3]) THEN NoFrame
      ELSE HubDecode(FromHex(parts[2]))

-----------------------------------------------------------------------------
Init ==
  /\ todo = [t \in Threads |-> <<>>]
  /\ ring = <<>> /\ line_buf = <<>> /\ rxq = <<>> /\ up = <<>>
  /\ poll = "runs"
  /\ open = <<>> /\ due = <<>> /\ damage = "none"

Unfinished(rest) == rest # <<>> /\ rest[1] # "T"
Worse(level) == damage' = IF damage = "mixes" THEN damage ELSE level

(* One of these has come out: what it may be the least of, and what was    *)
(* before it, are no longer expected.                                      *)
Settled(queue, these) ==
  IF these = {} THEN queue ELSE SubSeq(queue, Min(these) + 1, Len(queue))

Load == Len(open) + Len(due) + Len(rxq)
        + Cardinality({t \in Threads : todo[t] # <<>> /\ ~Unfinished(todo[t])})

(* A request handler sends BLINK or CLAIM.                                 *)
Send(t, payload) ==
  /\ todo[t] = <<>>
  /\ Load < MaxLoad
  /\ todo' = [todo EXCEPT ![t] = encode_tx_line(payload)]
  /\ UNCHANGED <<dongle, up, poll, history>>

(* The operating system takes a line, or a part of it and later the rest;  *)
(* what does not fit in the dongle's driver is lost.                       *)
Write(t) ==
  /\ todo[t] # <<>>
  /\ open' = IF Unfinished(todo[t]) THEN open
             ELSE Append(open, parse_tx_line(Front(todo[t])))
  /\ \E n \in {Len(todo[t])} \cup IF Unfinished(todo[t]) THEN {}
                                 ELSE {c \in Cuts : c < Len(todo[t])} :
       LET fits == Min({n, RingSize - Len(ring)})
           rest == SubSeq(todo[t], n + 1, Len(todo[t]))
           between == \E u \in Threads \ {t} : Unfinished(todo[u])
       IN  /\ ring' = ring \o SubSeq(todo[t], 1, fits)
           /\ todo' = [todo EXCEPT ![t] = rest]
           /\ Worse(IF fits < n \/ (between /\ rest # <<>>) THEN "mixes"
                    ELSE IF between THEN "loses" ELSE damage)
  /\ UNCHANGED <<line_buf, rxq, up, poll, due>>

(* The radio's interrupt handler: at most the length of a frame is kept,   *)
(* and nothing when the queue is full.                                     *)
radio_on_receive_done(payload, rssi) ==
  /\ Load < MaxLoad
  /\ LET item == [data |-> SubSeq(payload, 1, Min({Len(payload), PROTOCOL_FRAME_MAX_LEN})),
                  rssi |-> rssi]
     IN  rxq' = IF Len(rxq) < QueueDepth THEN Append(rxq, item) ELSE rxq
  /\ UNCHANGED <<todo, ring, line_buf, up, poll, history>>

(* The second half of root_main_run's loop: one received frame reported.   *)
Report ==
  IF rxq = <<>> THEN UNCHANGED <<rxq, up, due>>
  ELSE /\ rxq' = Tail(rxq)
       /\ up' = up \o rx_line(Head(rxq).data, Head(rxq).rssi)
       /\ due' = Append(due, [frame |-> BoardDecode(Head(rxq).data), rssi |-> Head(rxq).rssi])

(* One iteration of root_main_run: at most one line of the hub is sent.    *)
Iterate ==
  LET tx == dongle_uart_poll_tx_frame
  IN  /\ ring' = tx.ring
      /\ line_buf' = tx.line
      /\ open' = Settled(open, {k \in DOMAIN open : open[k] = tx.frame})
      /\ Report
      /\ UNCHANGED <<todo, poll, damage>>

(* What readline may return: a line up to its newline, or when it times    *)
(* out what there is of one, perhaps without the end of what is under way. *)
Reads ==
  LET ends == {i \in DOMAIN up : up[i] = Newline}
      end == IF ends = {} THEN Len(up) ELSE Min(ends)
  IN  {SubSeq(up, 1, end - c) : c \in {0} \cup {c \in Cuts : c < end}}

(* The reports the hub may take a line for: of what is due, those with the *)
(* frame and with as much of the strength as the line has.                 *)
Reports(line) ==
  {k \in DOMAIN due : /\ due[k].frame = decode_rx_line(line)
                      /\ IsPrefix(Words(line)[3], due[k].rssi)}

(* poll_once, and on_frame: DATA may be answered with a CONFIG line.       *)
HubPoll ==
  /\ poll = "runs" /\ todo[Poll] = <<>> /\ up # <<>>
  /\ \E line \in Reads :
       LET frame == decode_rx_line(line)
       IN  /\ up' = SubSeq(up, Len(line) + 1, Len(up))
           /\ poll' = IF frame = ValueError THEN "dead" ELSE poll
           /\ due' = IF up' = <<>> THEN <<>>
                     ELSE IF frame \in {NoFrame, ValueError} THEN due
                     ELSE Settled(due, Reports(line))
           /\ \/ UNCHANGED todo
              \/ /\ frame.type = DATA
                 /\ \E payload \in Configs : todo' = [todo EXCEPT ![Poll] = encode_tx_line(payload)]
  /\ UNCHANGED <<dongle, open, damage>>

(* The dongle reboots: what it held is gone, and so is the end of what it  *)
(* was sending.                                                            *)
DongleRestart ==
  /\ ring' = <<>> /\ line_buf' = <<>> /\ rxq' = <<>>
  /\ \E lost \in {0} \cup {c \in Cuts : c <= Len(up)} : up' = SubSeq(up, 1, Len(up) - lost)
  /\ open' = <<>>
  /\ due' = IF up' = <<>> THEN <<>> ELSE due
  /\ Worse("loses")
  /\ UNCHANGED <<todo, poll>>

(* The hub's process starts again and opens the port, perhaps in the       *)
(* middle of a line; what its threads were writing stays unfinished.       *)
HubRestart ==
  /\ todo' = [t \in Threads |-> <<>>]
  /\ \E kept \in {0} \cup {c \in Cuts : c <= Len(up)} : up' = SubSeq(up, Len(up) - kept + 1, Len(up))
  /\ poll' = "runs"
  /\ due' = IF up' = <<>> THEN <<>> ELSE due
  /\ Worse("loses")
  /\ UNCHANGED <<dongle, open>>

Next ==
  \/ \E t \in Web, payload \in Commands : Send(t, payload)
  \/ \E t \in Threads : Write(t)
  \/ \E payload \in Air, rssi \in Rssi : radio_on_receive_done(payload, rssi)
  \/ Iterate
  \/ HubPoll
  \/ DongleRestart
  \/ HubRestart

Spec == Init /\ [][Next]_vars

-----------------------------------------------------------------------------
TypeOK ==
  /\ todo \in [Threads -> Seq(Char)]
  /\ ring \in Seq(Char) /\ line_buf \in Seq(Char) /\ up \in Seq(Char)
  /\ Len(ring) <= RingSize
  /\ Len(line_buf) < LineMax
  /\ Len(rxq) <= QueueDepth
  /\ poll \in {"runs", "dead"}
  /\ Len(open) + Len(due) <= MaxLoad
  /\ damage \in {"none", "loses", "mixes"}

(* Threads that cut into each other's lines and restarts in the middle of  *)
(* one may cost frames, but the dongle transmits only what the hub wrote,  *)
(* each once, in order, and nothing from before it restarted, as long as   *)
(* no byte was lost to a full ring and no two lines were unfinished at     *)
(* once (dongle_uart.c:79-114, main.py:71).                                *)
SentAsWritten ==
  LET frame == dongle_uart_poll_tx_frame.frame
  IN  damage = "mixes" \/ frame = <<>> \/ Contains(open, frame)

(* When nothing of that happened, nothing is left behind: a dongle with an *)
(* empty driver has transmitted every line it was given                    *)
(* (root_main.c:87-92).                                                    *)
QuietMeansSent ==
  damage = "none" /\ ring = <<>> /\ (\A t \in Threads : todo[t] = <<>>) => open = <<>>

(* What the hub takes for a frame is a frame the dongle had to report, in  *)
(* that order and at most once, read as a board reads it; of its strength  *)
(* the last digits may be missing (serial_bridge.py:66-89, 104-115).       *)
HeardAsReported ==
  \A line \in Reads :
    decode_rx_line(line) \notin {NoFrame, ValueError} => Reports(line) # {}

(* A line that was cut, cut off or run into another never raises in the    *)
(* poll thread: only a payload that came off the air as DATA with an       *)
(* unknown needs_water byte does (protocol_frame.py:182, main.py:45-50).   *)
(* Characters that change on the way are not in this model.                *)
CutsNeverRaise ==
  \A line \in Reads : decode_rx_line(line) = ValueError =>
    \E k \in DOMAIN due : due[k].frame.type = DATA /\ due[k].frame.fields[2] \notin NeedsWater

(* What the comment on decode_rx_line says: a payload that fails to decode *)
(* is dropped rather than crashing (serial_bridge.py:66-70). The code      *)
(* calls NeedsWater(buf[3]) outside the try block, and nothing above it    *)
(* catches.                                                                *)
NeverRaises == \A line \in Reads : decode_rx_line(line) # ValueError

(* And what it says of a partial read: it is dropped, so that a line that  *)
(* is taken for a frame has the whole strength of a report                 *)
(* (serial_bridge.py:66-70). The code takes the digits that have come.     *)
PartialDropped ==
  \A line \in Reads :
    decode_rx_line(line) \notin {NoFrame, ValueError} =>
      \E k \in DOMAIN due : /\ due[k].frame = decode_rx_line(line)
                            /\ due[k].rssi = Words(line)[3]
=============================================================================

------------------------------- MODULE Frame -------------------------------
(***************************************************************************)
(* The wire format: the C codec of the boards (protocol_frame.c) and what  *)
(* the hub uses of its Python port (hub/protocol_frame.py), over sequences *)
(* of bytes. A frame is its type and its fields, in the order of the C     *)
(* structures; a payload that does not decode gives NoFrame.               *)
(***************************************************************************)
EXTENDS Integers, Sequences

BEACON == 1
JOIN == 2
DATA == 3
BLINK == 4
CLAIM == 5
ANNOUNCE == 6
CONFIG == 7

FRAME_LEN == <<4, 5, 9, 5, 5, 3, 9>>
PROTOCOL_FRAME_MAX_LEN == FRAME_LEN[DATA]

NeedsWater == 0 .. 2

NoFrame == [type |-> 0, fields |-> <<>>]
Frame(type, fields) == [type |-> type, fields |-> fields]

-----------------------------------------------------------------------------
(* Little-endian integers, a byte at a time.                               *)
Byte(v, shift) == (v \div shift) % 256
u16le(v) == <<v % 256, Byte(v, 256)>>
u32le(v) == <<v % 256, Byte(v, 256), Byte(v, 65536), Byte(v, 16777216)>>
read_u16le(b, at) == b[at] + 256 * b[at + 1]
read_u32le(b, at) ==
  b[at] + 256 * b[at + 1] + 65536 * b[at + 2] + 16777216 * b[at + 3]

encode_beacon_frame(sender_id, hop_count) == <<BEACON>> \o u16le(sender_id) \o <<hop_count>>
encode_join_frame(sender_id, target_parent_id) ==
  <<JOIN>> \o u16le(sender_id) \o u16le(target_parent_id)
encode_data_frame(sender_id, needs_water, battery_pct, timestamp) ==
  <<DATA>> \o u16le(sender_id) \o <<needs_water, battery_pct>> \o u32le(timestamp)
encode_announce_frame(factory_id) == <<ANNOUNCE>> \o u16le(factory_id)

(* What every decode_*_frame does: length and type byte, then the fields.  *)
Decoded(b, type, fields) ==
  IF Len(b) = FRAME_LEN[type] /\ b[1] = type THEN Frame(type, fields) ELSE NoFrame

decode_frame_type(b) == IF b = <<>> THEN 0 ELSE b[1]
decode_beacon_frame(b) == Decoded(b, BEACON, <<read_u16le(b, 2), b[4]>>)
decode_join_frame(b) == Decoded(b, JOIN, <<read_u16le(b, 2), read_u16le(b, 4)>>)
decode_data_frame(b) ==
  Decoded(b, DATA, <<read_u16le(b, 2), b[4], b[5], read_u32le(b, 6)>>)
decode_blink_frame(b) == Decoded(b, BLINK, <<read_u16le(b, 2), read_u16le(b, 4)>>)
decode_claim_frame(b) == Decoded(b, CLAIM, <<read_u16le(b, 2), read_u16le(b, 4)>>)
decode_announce_frame(b) == Decoded(b, ANNOUNCE, <<read_u16le(b, 2)>>)
decode_config_frame(b) ==
  Decoded(b, CONFIG, <<read_u16le(b, 2), read_u32le(b, 4), read_u16le(b, 8)>>)

(* What a board makes of a payload, on whichever side of the protocol.     *)
BoardDecode(b) ==
  LET type == decode_frame_type(b)
  IN  CASE type = BEACON -> decode_beacon_frame(b)
        [] type = JOIN -> decode_join_frame(b)
        [] type = DATA -> decode_data_frame(b)
        [] type = BLINK -> decode_blink_frame(b)
        [] type = CLAIM -> decode_claim_frame(b)
        [] type = ANNOUNCE -> decode_announce_frame(b)
        [] type = CONFIG -> decode_config_frame(b)
        [] OTHER -> NoFrame

-----------------------------------------------------------------------------
(* The Python port: int.to_bytes(n, "little"), int.from_bytes(.., "little")*)
(* and, per type, the widths of the fields. The hub sends BLINK, CLAIM and *)
(* CONFIG; numbers too wide for their field are in Hub (OverflowError).    *)
Power == <<1, 256, 65536, 16777216>>
to_bytes(v, n) == [i \in 1 .. n |-> Byte(v, Power[i])]

(* A seeded fault: the bytes in the other order.                           *)
from_bytesBig(s) ==
  LET part(i) == IF i <= Len(s) THEN s[i] * Power[Len(s) + 1 - i] ELSE 0
  IN  part(1) + part(2) + part(3) + part(4)

(* No field has more than four bytes.                                      *)
from_bytes(s) ==
  LET part(i) == IF i <= Len(s) THEN s[i] * Power[i] ELSE 0
  IN  part(1) + part(2) + part(3) + part(4)

encode_blink_frame(hub_id, target_node_id) ==
  <<BLINK>> \o to_bytes(hub_id, 2) \o to_bytes(target_node_id, 2)
encode_claim_frame(assigned_short_address, hub_id) ==
  <<CLAIM>> \o to_bytes(assigned_short_address, 2) \o to_bytes(hub_id, 2)
encode_config_frame(target_node_id, wake_interval_sec, moisture_dry_threshold_raw) ==
  <<CONFIG>> \o to_bytes(target_node_id, 2) \o to_bytes(wake_interval_sec, 4)
             \o to_bytes(moisture_dry_threshold_raw, 2)

(* The slices buf[from:to] the Python decoders take, per frame type.       *)
Slices == <<<< <<1, 3>>, <<3, 4>> >>,
            << <<1, 3>>, <<3, 5>> >>,
            << <<1, 3>>, <<3, 4>>, <<4, 5>>, <<5, 9>> >>,
            << <<1, 3>>, <<3, 5>> >>,
            << <<1, 3>>, <<3, 5>> >>,
            << <<1, 3>> >>,
            << <<1, 3>>, <<3, 7>>, <<7, 9>> >> >>

(* NeedsWater(buf[3]) raises for a byte that is none of its members.       *)
ValueError == [type |-> -1, fields |-> <<>>]

HubDecode(b) ==
  LET type == decode_frame_type(b)
      slice(s) == from_bytes(SubSeq(b, s[1] + 1, s[2]))
  IN  IF type \notin DOMAIN Slices THEN NoFrame
      ELSE IF Len(b) # FRAME_LEN[type] THEN NoFrame
      ELSE IF type = DATA /\ b[4] \notin NeedsWater THEN ValueError
      ELSE Frame(type, [k \in DOMAIN Slices[type] |-> slice(Slices[type][k])])
=============================================================================

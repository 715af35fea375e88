----------------------------------- MODULE Wire ---------------------------------
(* src/thalovant/_wire.py: HiveMind envelopes and the WIRE-1 binary frame.     *)
(* A frame is a sequence of bytes read bit by bit; a text part is its bytes,   *)
(* and Objects are the byte sequences that hold a JSON object.                 *)
EXTENDS Integers, Sequences, SequencesExt

CONSTANTS Objects,   \* byte sequences that are JSON objects
          FAIL,      \* a ValueError
          Inflated   \* what compressed byte sequences inflate to, within the limit

Types == <<"shake", "bus", "shared_bus", "broadcast", "propagate", "escalate", "hello", "query",
           "cascade", "ping", "rendezvous", "3rdparty", "bin">>
TypeOfNumber(n) == IF n + 1 \in DOMAIN Types THEN Types[n + 1] ELSE "3rdparty"
NumberOfType(type) ==
  IF type = "handshake" THEN 0
  ELSE IF type \in Range(Types) THEN (CHOOSE n \in DOMAIN Types: Types[n] = type) - 1 ELSE 11

Failed(x) == x = FAIL

-----------------------------------------------------------------------------
(* _BitReader: bit i of the frame, the first bit being the highest.            *)
BitAt(frame, i) == (frame[(i \div 8) + 1] \div (2 ^ (7 - (i % 8)))) % 2
BitsIn(frame) == 8 * Len(frame)

UintAt(frame, i, width) ==
  IF i + width > BitsIn(frame) THEN FAIL
  ELSE FoldLeft(LAMBDA value, j: 2 * value + BitAt(frame, i + j - 1), 0, [j \in 1..width |-> j])

BigEndian(bytes) == FoldLeft(LAMBDA value, b: 256 * value + b, 0, bytes)
ToBytes(value, length) == [j \in 1..length |-> (value \div (256 ^ (length - j))) % 256]

\* mutant: the span of an unaligned part ends with its last whole byte.
TakeShort(frame, i, length) ==
  LET skipped == i \div 8
  IN IF skipped + length > Len(frame) THEN FAIL
     ELSE ToBytes(BigEndian(SubSeq(frame, skipped + 1, skipped + length)) \div (2 ^ ((8 - (i % 8)) % 8)), length)

TakeAt(frame, i, length) ==
  LET skipped == i \div 8
      shift == i % 8
      spanned == IF shift = 0 THEN length ELSE length + 1
      span == SubSeq(frame, skipped + 1, skipped + spanned)
  IN IF skipped + spanned > Len(frame) THEN FAIL
     ELSE IF shift = 0 THEN span
     ELSE ToBytes((BigEndian(span) \div (2 ^ (8 - shift))) % (256 ^ length), length)

RestAt(frame, i) == TakeAt(frame, i, (BitsIn(frame) - i) \div 8)

(* Past the padding and the marker; BitsIn(frame) when there is no marker.     *)
AfterPadding(frame) ==
  LET ones == {i \in 0..BitsIn(frame) - 1: BitAt(frame, i) = 1}
  IN IF ones = {} THEN BitsIn(frame) ELSE 1 + CHOOSE i \in ones: \A j \in ones: i <= j

(* _text() of a part: plain, or inflated within the limit.                     *)
TextOf(bytes, compressed) ==
  IF ~compressed THEN bytes ELSE IF bytes \in DOMAIN Inflated THEN Inflated[bytes] ELSE FAIL

(* decode_binary_frame()                                                       *)
Decoded(frame) ==
  LET flag == AfterPadding(frame)
      version == UintAt(frame, flag + 1, 8)
      versioned == UintAt(frame, flag, 1) = 1
      at == IF versioned THEN flag + 9 ELSE flag + 1
      number == UintAt(frame, at, 5)
      squeezed == UintAt(frame, at + 5, 1)
      length == UintAt(frame, at + 6, 8)
      taken == TakeAt(frame, at + 14, length)
      metadata == TextOf(taken, squeezed = 1)
      body == at + 14 + 8 * length
      type == TypeOfNumber(number)
      rest == RestAt(frame, IF type = "bin" THEN body + 4 ELSE body)
      payload == TextOf(rest, squeezed = 1)
  IN IF \/ at + 14 > BitsIn(frame) \/ (versioned /\ version > 1)
        \/ Failed(taken) \/ metadata \notin Objects THEN FAIL
     ELSE IF type = "bin"
          THEN IF body + 4 > BitsIn(frame) THEN FAIL
               ELSE [type |-> type, metadata |-> metadata, kind |-> UintAt(frame, body, 4), payload |-> rest]
          ELSE IF payload \notin Objects THEN FAIL
               ELSE [type |-> type, metadata |-> metadata, kind |-> 0, payload |-> payload]

(* encode_binary_frame() of an envelope that carries JSON.                     *)
Encoded(type, metadata, payload) ==
  IF Len(metadata) > 255 THEN FAIL
  ELSE <<128 + 2 * NumberOfType(type), Len(metadata)>> \o metadata \o payload

-----------------------------------------------------------------------------
(* Envelopes.  A JSON dictionary keeps what is read of it: msg_type and data   *)
(* ("" and "none" when absent), its payload and its route.                     *)
NULL == [is |-> "null"]
Dict(msg_type, payload, route, data) ==
  [is |-> "dict", msg_type |-> msg_type, payload |-> payload, route |-> route, data |-> data]
EmptyDict == Dict("", NULL, "none", "none")
Nested == {"broadcast", "propagate", "escalate", "intercom", "rendezvous", "query", "cascade", "shared_bus"}

RECURSIVE MessageOf(_), AsDict(_)

(* hive_message_from_json(), the payload of a mesh frame included.             *)
MessageOf(raw) ==
  [is |-> "message", msg_type |-> raw.msg_type,
   route |-> IF raw.route = "list" THEN "list" ELSE "empty",
   payload |->
     IF raw.payload.is = "dict" /\ raw.msg_type = "bus"
     THEN [is |-> "bus", data |-> IF raw.payload.data \in {"object", "empty"} THEN raw.payload.data ELSE "empty"]
     ELSE IF raw.payload.is = "dict" /\ raw.msg_type \in Nested /\ raw.payload.msg_type # ""
     THEN MessageOf(raw.payload)
     ELSE IF raw.payload = NULL THEN EmptyDict ELSE raw.payload]

(* as_dict of a HiveMessage; an empty route is written as an empty list.       *)
AsDict(m) ==
  Dict(m.msg_type,
       IF m.payload.is = "bus" THEN Dict("", NULL, "none", m.payload.data)
       ELSE IF m.payload.is = "message" THEN AsDict(m.payload) ELSE m.payload,
       IF m.route = "list" THEN "list" ELSE "none", "none")

-----------------------------------------------------------------------------
(* The frame a hub packs: bits, padded on the left to whole bytes.             *)
BitsOf(value, width) == [j \in 1..width |-> (value \div (2 ^ (width - j))) % 2]
AllBits(bytes) == FoldLeft(LAMBDA bits, b: bits \o BitsOf(b, 8), <<>>, bytes)
PackedBytes(bits) ==
  LET padded == [j \in 1..((8 - (Len(bits) % 8)) % 8) |-> 0] \o bits
  IN [n \in 1..(Len(padded) \div 8) |->
       FoldLeft(LAMBDA value, j: 2 * value + padded[8 * (n - 1) + j], 0, <<1, 2, 3, 4, 5, 6, 7, 8>>)]
Packed(f) ==
  PackedBytes(<<1>> \o (IF f.version = -1 THEN <<0>> ELSE <<1>> \o BitsOf(f.version, 8)) \o BitsOf(f.number, 5)
              \o BitsOf(IF f.squeezed THEN 1 ELSE 0, 1) \o BitsOf(Len(f.metadata), 8) \o AllBits(f.metadata)
              \o (IF f.number = 12 THEN BitsOf(f.kind, 4) ELSE <<>>) \o AllBits(f.payload))

(* Whatever a hub packs, in whichever alignment its header leaves the parts,   *)
(* is read back as it was, a BINARY payload never inflated; anything else is   *)
(* refused rather than misread (230-262, 292-325).                             *)
FrameIsRead(f) ==
  LET metadata == TextOf(f.metadata, f.squeezed)
      payload == IF f.number = 12 THEN f.payload ELSE TextOf(f.payload, f.squeezed)
      sound == f.version \in {-1, 0, 1} /\ metadata \in Objects /\ (f.number = 12 \/ payload \in Objects)
  IN Decoded(Packed(f)) =
       IF sound THEN [type |-> TypeOfNumber(f.number), metadata |-> metadata,
                      kind |-> IF f.number = 12 THEN f.kind ELSE 0, payload |-> payload]
       ELSE FAIL

(* What this node encodes it, and a hub, reads as it was, but for the mesh     *)
(* types the table does not name (328-339).                                    *)
EncodedIsRead(type, metadata, payload) ==
  metadata \in Objects /\ payload \in Objects /\ type \in Range(Types) \ {"bin"} =>
    Decoded(Encoded(type, metadata, payload)) =
      [type |-> type, metadata |-> metadata, kind |-> 0, payload |-> payload]

(* An envelope relayed as it was received is read the same by the next node,   *)
(* however deep its mesh frames nest (164-178, 199-225).                       *)
EnvelopeIsKept(raw) == MessageOf(AsDict(MessageOf(raw))) = MessageOf(raw)
=============================================================================

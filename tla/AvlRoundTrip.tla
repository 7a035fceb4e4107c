---------------------------- MODULE AvlRoundTrip ----------------------------
(***************************************************************************)
(* The encoder at one end and the decoder at the other: a packet is        *)
(* encoded, and its fields are decoded one by one as AvlDecoder does.  A   *)
(* frame may also be foreign: the decoder takes whatever comes.            *)
(***************************************************************************)
EXTENDS AvlDecoder, AvlEncoder

CONSTANTS
  Packets,    (* the packets to encode, as [codec, items]                  *)
  ImeiLength  (* characters of the IMEI in a UDP frame                     *)

Imei == [zeros : Nat, digits : Nat]

DataPacket ==
  [codec : DataCodecs,
   items : Seq([event : Nat, gen : Nat, elements : Seq([id : Nat, len : Nat])])]

CommandPacket ==
  [codec : CommandCodecs, items : Seq([type : MessageTypes, text : Nat, imei : Imei])]

(* The size of a packet fits the 32 bits that a TCP frame has for it.      *)
ASSUME RoundTripAssumption ==
  /\ Packets \subseteq DataPacket \cup CommandPacket
  /\ \A p \in Packets : Encodable(p.codec, p.items) => DataSize(p.codec, p.items, 3) < Word
  /\ ImeiLength \in Nat

VARIABLES
  given,      (* the packet that was passed to EncodePacketTCP or UDP      *)
  tape        (* the fields on their way                                   *)

roundTripVars == <<decVars, given, tape>>

Foreign == [codec |-> "foreign", items |-> <<>>]

(* Both encoders fail before anything is sent: on a packet they cannot     *)
(* represent, and for UDP on one of more than 1280 bytes.                  *)
RoundTripInit ==
  /\ DecoderInit
  /\ \/ given = Foreign /\ tape = <<>>
     \/ /\ given \in Packets
        /\ Encodable(given.codec, given.items)
        /\ \/ /\ transport = "tcp"
              /\ tape = EncodeTCP(given.codec, given.items)
           \/ /\ transport = "udp"
              /\ UDPSize(given.codec, given.items, ImeiLength) <= MaxLength
              /\ tape = EncodeUDP(given.codec, given.items, ImeiLength)

DecodeForeign == given = Foreign /\ DecoderNext /\ UNCHANGED <<given, tape>>

DecodeGiven ==
  /\ tape # <<>>
  /\ Decode(Head(tape))
  /\ tape' = Tail(tape)
  /\ UNCHANGED given

RoundTripNext == DecodeForeign \/ DecodeGiven

RoundTripSpec == RoundTripInit /\ [][RoundTripNext]_roundTripVars
-----------------------------------------------------------------------------
(* The decoder's types hold for any frame; those of DecoderTypeOK are made *)
(* of the values that foreign frames are given here.                       *)
ForeignTypeOK ==
  given = Foreign => DecoderTypeOK

BytesOf(fields) == Add(0, [i \in DOMAIN fields |-> fields[i].w])

(* Encoder and decoder walk over the same fields: whatever the encoder     *)
(* wrote comes when the decoder expects a field of that kind, and takes as *)
(* many bytes on both sides, so that no field is read across another's     *)
(* boundary.                                                               *)
FieldsLineUp ==
  given # Foreign /\ st \notin Ended =>
    /\ tape # <<>> /\ Head(tape).kind = st
    /\ st \in Reading => Head(tape).w = Bytes(Head(tape))
    /\ st = "element" /\ group <= 4 => Head(tape).len = ValueBytes(group)

(* The size that is calculated in advance is exactly what is written: at   *)
(* any moment the bytes left in the frame are those of the fields still to *)
(* come, and none when the packet is accepted.                             *)
SizeIsWhatIsWritten ==
  given # Foreign /\ st \in Reading \cup {"accepted"} => size = pos + BytesOf(tape)

(* Which group an element goes to, as a number that grows with the groups. *)
Class(e) == IF e.len \in FixedWidths THEN e.len ELSE 9

(* The elements of a record, whatever their order when encoded, come back  *)
(* all and only, grouped by width, those of one width in their order.      *)
Rearranged(before, after) ==
  /\ Len(after) = Len(before)
  /\ \A i, j \in 1..Len(after) : i < j => Class(after[i]) <= Class(after[j])
  /\ \A k \in FixedWidths : Chosen(after, {k}) = Chosen(before, {k})
  /\ Chosen(after, Nat \ FixedWidths) = Chosen(before, Nat \ FixedWidths)

SameRecord(before, after) ==
  /\ after.event = before.event
  /\ after.gen = IF given.codec = "16" THEN before.gen ELSE Unknown
  /\ Rearranged(before.elements, after.elements)

(* An IMEI comes back without its leading zeros, its own included.         *)
SameMessage(before, after) ==
  /\ after.type = before.type /\ after.text = before.text
  /\ after.imei = IF Addressed(given.codec) THEN {TrimLeft(before.imei)} ELSE {}

(* What was encoded is decoded, and only a TCP frame of more than 1280     *)
(* bytes, which the encoder makes without complaint, is refused.           *)
RoundTrip ==
  /\ given # Foreign /\ st = "rejected" =>
       transport = "tcp" /\ DataSize(given.codec, given.items, 3) > MaxLength
  /\ given # Foreign /\ st = "accepted" =>
       /\ codec = given.codec
       /\ Len(items) = Len(given.items)
       /\ \A i \in 1..Len(items) :
            IF IsCommandCodec(codec) THEN SameMessage(given.items[i], items[i])
                                     ELSE SameRecord(given.items[i], items[i])
=============================================================================

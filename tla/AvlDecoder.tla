----------------------------- MODULE AvlDecoder -----------------------------
(***************************************************************************)
(* The packet decoder: decodeTCPInternal, decodeUDPInternal, decodePacket  *)
(* and what they call.  A frame is opened by its header, which fixes how   *)
(* many bytes follow; after that a byteReader walks over these bytes, one  *)
(* field after the other, and the first field that does not fit or is not  *)
(* acceptable ends the decode with an error.                               *)
(*                                                                         *)
(* A field is a record: its kind and its contents.  Fields the code reads  *)
(* in a row without using them (the 24 bytes from the timestamp to the     *)
(* speed, an id and its value, ...) are one field, since every failure     *)
(* among them has the same effect.  Positions are counted in bytes.        *)
(*                                                                         *)
(* int has 64 bits, as on the platforms the examples are built for.        *)
(***************************************************************************)
EXTENDS Naturals, Sequences

CONSTANTS
  Transports, (* of {"tcp", "udp"}: which of the two decoders is called    *)
  Lengths,    (* values of the length field of a frame                     *)
  Counts,     (* values of a count field                                   *)
  Sizes,      (* sizes of a value, a command or an IMEI                    *)
  Ids,        (* ids of I/O elements                                       *)
  Imeis,      (* IMEIs in a message                                        *)
  Word        (* 2^32, where the unsigned size of a command wraps          *)

DataCodecs    == {"8", "8E", "16"}
CommandCodecs == {"12", "13", "14", "15"}
Codecs        == DataCodecs \cup CommandCodecs

(* "The maximum AVL packet size is 1280 bytes."                            *)
MaxLength == 1280

(* Fields are unsigned; a wrapped command size is far beyond a frame.      *)
ASSUME DecoderAssumption ==
  /\ Transports \subseteq {"tcp", "udp"}
  /\ Lengths \subseteq Nat /\ Counts \subseteq Nat /\ Ids \subseteq Nat
  /\ Word \in Nat /\ Word > 2 * MaxLength
  /\ Sizes \subseteq 0..(Word - 1)

VARIABLES
  transport, (* which decoder runs                                         *)
  st,        (* the kind of field to be read next, or how the decode ended *)
  size,      (* byteReader.size: bytes after the header                    *)
  pos,       (* byteReader.pos                                             *)
  codec,     (* packet.CodecID                                             *)
  count,     (* dataCount                                                  *)
  items,     (* packet.Data or packet.Messages, as far as decoded          *)
  filled,    (* k, elements stored in the last record                      *)
  group,     (* which group of elements is read: 1, 2, 4, 8, or X bytes    *)
  left,      (* elements of that group still to be read                    *)
  response   (* Response: nothing, or the number of accepted records       *)

decVars == <<transport, st, size, pos, codec, count, items, filled, group, left,
             response>>

Ended   == {"accepted", "rejected", "panic"}
Reading == {"prefix", "header", "record", "group", "element", "message", "tail", "crc"}

GenerationTypes == 0..8
Unknown         == 255
MessageTypes    == {"command", "response", "notExecuted", "other"}

(* The fields a frame may bring, by kind.                                  *)
Field ==
  [kind : {"frame"}, zero : BOOLEAN, length : Lengths, whole : BOOLEAN]
  \cup [kind : {"prefix"}, imei : Sizes]
  \cup [kind : {"header"}, codec : Codecs \cup {"other"}, count : Counts \cap 0..255]
  \cup [kind : {"record"}, event : Ids, gen : GenerationTypes, total : Counts]
  \cup [kind : {"group"}, n : Counts]
  \cup [kind : {"element"}, id : Ids, len : Sizes]
  \cup [kind : {"message"}, type : MessageTypes, declared : Sizes, imei : Imeis]
  \cup [kind : {"tail"}, n : Counts]
  \cup [kind : {"crc"}, matches : BOOLEAN]

(* How many bytes the codecs spend on a count, an id, and what precedes    *)
(* the groups of a record.                                                 *)
CountBytes == IF codec = "8E" THEN 2 ELSE 1
IdBytes    == IF codec = "8" THEN 1 ELSE 2
EventBytes == IF codec = "8" THEN 2 ELSE 4

(* Groups 1 to 4 hold values of 1, 2, 4 and 8 bytes; only codec 8 extended *)
(* has the fifth, whose values carry their length.                         *)
Groups        == IF codec = "8E" THEN 5 ELSE 4
ValueBytes(g) == CASE g = 1 -> 1 [] g = 2 -> 2 [] g = 3 -> 4 [] g = 4 -> 8
LengthBytes   == IF group = 5 THEN 2 ELSE 0

(* A message's timestamp and IMEI are counted in its declared size.        *)
Timestamped(c) == c \in {"13", "15"}
Addressed(c)   == c \in {"14", "15"}
Extra(c) == (IF Timestamped(c) THEN 4 ELSE 0) + (IF Addressed(c) THEN 8 ELSE 0)

(* Mutant: a size too small for them is taken for that of an empty text.   *)
TextBytesOrNone(c, declared) == IF declared >= Extra(c) THEN declared - Extra(c) ELSE 0

(* commandSize is reduced by them as a 32-bit number.                      *)
TextBytes(c, declared) ==
  IF declared >= Extra(c) THEN declared - Extra(c) ELSE declared + Word - Extra(c)

(* Bytes the decoder takes from the reader for a field.                    *)
Bytes(f) ==
  CASE f.kind = "prefix"  -> 3 + f.imei
    [] f.kind = "header"  -> 2
    [] f.kind = "record"  -> 24 + EventBytes
    [] f.kind = "group"   -> CountBytes
    [] f.kind = "element" -> IdBytes + LengthBytes + f.len
    [] f.kind = "message" -> 5 + Extra(codec) + TextBytes(codec, f.declared)
    [] f.kind = "tail"    -> 1
    [] f.kind = "crc"     -> 4

Allowed(type) ==
  CASE codec = "12" -> type \in {"command", "response"}
    [] codec = "13" -> type = "response"
    [] codec = "14" -> type \in {"command", "response", "notExecuted"}
    [] codec = "15" -> TRUE

(* strings.TrimLeft(hex, "0"): an IMEI is its leading zeros and the rest.  *)
TrimLeft(imei) == [imei EXCEPT !.zeros = 0]

(* make([]IOElement, ioCount): ids of 0 and nil values.                    *)
NoElement == [id |-> 0, len |-> 0]

(* data.Elements of the record being decoded.                              *)
Elements == items[Len(items)].elements
-----------------------------------------------------------------------------
DecoderInit ==
  /\ transport \in Transports
  /\ st = "frame"
  /\ size = 0 /\ pos = 0
  /\ codec = "none" /\ count = 0
  /\ items = <<>> /\ filled = 0
  /\ group = 1 /\ left = 0
  /\ response = <<>>

End(how) ==
  /\ st' = how
  /\ UNCHANGED <<transport, size, pos, codec, count, items, filled, group, left, response>>

Reject == End("rejected")

(* The frame header.  A frame that is longer than allowed, does not start  *)
(* with four zeros (TCP), or is longer than what can be read or kept, is   *)
(* refused before anything of it is decoded.                               *)
OpenFrame(f) ==
  /\ st = "frame"
  /\ f.length <= MaxLength /\ f.whole
  /\ \/ transport = "tcp" /\ f.zero /\ size' = f.length + 4 /\ st' = "header"
     \/ transport = "udp" /\ f.length >= 3 /\ size' = f.length - 3 /\ st' = "prefix"
  /\ UNCHANGED <<transport, pos, codec, count, items, filled, group, left, response>>

RefuseFrame(f) ==
  /\ st = "frame"
  /\ \/ transport = "tcp" /\ ~f.zero
     \/ f.length > MaxLength
     \/ ~f.whole /\ (transport = "udp" => f.length >= 3)
  /\ Reject

(* A UDP length below 3 makes buffer shorter than its header, and          *)
(* buffer[headerSize:] a slice that ends before it starts.                 *)
FrameEndsInHeader(f) ==
  /\ st = "frame" /\ transport = "udp" /\ f.length < 3
  /\ End("panic")

Fits(f) == pos + Bytes(f) <= size

(* Every Read of the byteReader: io.EOF, or the position moves.            *)
EndOfInput(f) == st \in Reading /\ ~Fits(f) /\ Reject

Take(f) ==
  /\ Fits(f)
  /\ pos' = pos + Bytes(f)
  /\ UNCHANGED <<transport, size>>

ReadPrefix(f) ==
  /\ st = "prefix" /\ Take(f)
  /\ st' = "header"
  /\ UNCHANGED <<codec, count, items, filled, group, left, response>>

(* Mutant: one item less than announced.                                   *)
AfterItemButOne(n) ==
  IF n + 1 < count THEN IF codec \in DataCodecs THEN "record" ELSE "message" ELSE "tail"

AfterItem(n) == IF n < count THEN IF codec \in DataCodecs THEN "record" ELSE "message"
                             ELSE "tail"

ReadHeader(f) ==
  /\ st = "header" /\ Take(f)
  /\ f.codec \in Codecs
  /\ codec' = f.codec /\ count' = f.count
  /\ st' = AfterItem(0)'
  /\ UNCHANGED <<items, filled, group, left, response>>

UnknownCodec(f) ==
  /\ st = "header" /\ Fits(f) /\ f.codec \notin Codecs
  /\ Reject

(* The head of an AVL record: make([]IOElement, ioCount) before any of its *)
(* elements has been seen.                                                 *)
ReadRecord(f) ==
  /\ st = "record" /\ Take(f)
  /\ codec = "16" => f.gen <= 7
  /\ items' = Append(items, [event |-> f.event,
                             gen |-> IF codec = "16" THEN f.gen ELSE Unknown,
                             elements |-> [i \in 1..f.total |-> NoElement]])
  /\ filled' = 0 /\ group' = 1
  /\ st' = "group"
  /\ UNCHANGED <<codec, count, left, response>>

BadGeneration(f) ==
  /\ st = "record" /\ Fits(f) /\ codec = "16" /\ f.gen > 7
  /\ Reject

(* What follows a group: the next one, or the next record.                 *)
GroupDone ==
  IF group < Groups
  THEN group' = group + 1 /\ st' = "group"
  ELSE group' = group /\ st' = AfterItem(Len(items))

ReadGroup(f) ==
  /\ st = "group" /\ Take(f)
  /\ left' = f.n
  /\ IF f.n > 0 THEN st' = "element" /\ group' = group ELSE GroupDone
  /\ UNCHANGED <<codec, count, items, filled, response>>

(* Mutant: the bound is off by one.                                        *)
ReadElementTooMany(f) ==
  /\ st = "element" /\ Take(f)
  /\ filled <= Len(Elements)
  /\ items' = [items EXCEPT ![Len(items)].elements =
                 [i \in 1..(IF filled < Len(@) THEN Len(@) ELSE filled) |->
                    IF i = filled + 1 THEN [id |-> f.id, len |-> f.len] ELSE @[i]]]
  /\ filled' = filled + 1
  /\ left' = left - 1
  /\ IF left > 1 THEN UNCHANGED <<st, group>> ELSE GroupDone
  /\ UNCHANGED <<codec, count, response>>

(* One I/O element goes to the next free place of the record.              *)
ReadElement(f) ==
  /\ st = "element" /\ Take(f)
  /\ filled < Len(Elements)
  /\ items' = [items EXCEPT ![Len(items)].elements[filled + 1] =
                 [id |-> f.id, len |-> f.len]]
  /\ filled' = filled + 1
  /\ left' = left - 1
  /\ IF left > 1 THEN UNCHANGED <<st, group>> ELSE GroupDone
  /\ UNCHANGED <<codec, count, response>>

TooManyElements(f) ==
  /\ st = "element" /\ Fits(f) /\ filled >= Len(Elements)
  /\ Reject

ReadMessage(f) ==
  /\ st = "message" /\ Allowed(f.type) /\ Take(f)
  /\ items' = Append(items,
       [type |-> f.type, declared |-> f.declared, text |-> TextBytes(codec, f.declared),
        imei |-> IF Addressed(codec) THEN {TrimLeft(f.imei)} ELSE {}])
  /\ st' = AfterItem(Len(items) + 1)
  /\ UNCHANGED <<codec, count, filled, group, left, response>>

BadMessageType(f) == st = "message" /\ ~Allowed(f.type) /\ Reject

(* The packet is handed out.  AVL data is answered with the number of      *)
(* records, truncated to a byte; messages are not answered.                *)
Accept ==
  /\ st' = "accepted"
  /\ response' = IF codec \in DataCodecs THEN <<Len(items) % 256>> ELSE <<>>

ReadTail(f) ==
  /\ st = "tail" /\ Take(f)
  /\ f.n = count
  /\ IF transport = "tcp" THEN st' = "crc" /\ UNCHANGED response ELSE Accept
  /\ UNCHANGED <<codec, count, items, filled, group, left>>

CountsDiffer(f) == st = "tail" /\ Fits(f) /\ f.n # count /\ Reject

(* The sum is calculated over what has been decoded, and compared with the *)
(* four bytes that follow it.                                              *)
ReadCrc(f) ==
  /\ st = "crc" /\ Take(f)
  /\ f.matches
  /\ Accept
  /\ UNCHANGED <<codec, count, items, filled, group, left>>

BadCrc(f) == st = "crc" /\ Fits(f) /\ ~f.matches /\ Reject

Decode(f) ==
  /\ f.kind = st
  /\ \/ OpenFrame(f) \/ RefuseFrame(f) \/ FrameEndsInHeader(f)
     \/ EndOfInput(f)
     \/ ReadPrefix(f)
     \/ ReadHeader(f) \/ UnknownCodec(f)
     \/ ReadRecord(f) \/ BadGeneration(f)
     \/ ReadGroup(f)
     \/ ReadElement(f) \/ TooManyElements(f)
     \/ ReadMessage(f) \/ BadMessageType(f)
     \/ ReadTail(f) \/ CountsDiffer(f)
     \/ ReadCrc(f) \/ BadCrc(f)

(* A value in a group of fixed width brings no length of its own.          *)
Coming ==
  {f \in Field : f.kind = st /\ (st = "element" /\ group <= 4 => f.len = ValueBytes(group))}

DecoderNext == \E f \in Coming : Decode(f)

DecoderSpec == DecoderInit /\ [][DecoderNext]_decVars
-----------------------------------------------------------------------------
Element == [id : Ids \cup {0}, len : Sizes \cup {0}]
Record  == [event : Ids, gen : GenerationTypes \cup {Unknown}, elements : Seq(Element)]
Command == [type : MessageTypes, declared : Sizes, text : 0..(Word - 1),
            imei : {{}} \cup {{TrimLeft(i)} : i \in Imeis}]

(* Every variable has its type, and what is collected has the shape of the *)
(* codec's packets: records, or messages.                                  *)
DecoderTypeOK ==
  /\ transport \in Transports
  /\ st \in Reading \cup Ended \cup {"frame"}
  /\ size \in 0..(MaxLength + 4) /\ pos \in Nat
  /\ codec \in Codecs \cup {"none"} /\ count \in Counts \cup {0}
  /\ codec \in DataCodecs => items \in Seq(Record)
  /\ codec \in CommandCodecs => items \in Seq(Command)
  /\ codec = "none" => items = <<>>
  /\ filled \in Nat /\ group \in 1..5 /\ left \in Nat
  /\ response \in Seq(0..255)

(* An element is never stored past the end of the slice that the record's  *)
(* declared total made, although the four or five groups are counted       *)
(* independently of it, and is only expected while its group lasts.        *)
ElementsFit ==
  st \in {"group", "element"} =>
    /\ filled <= Len(Elements)
    /\ st = "element" <=> left > 0

(* An accepted packet has the number of records or messages that its first *)
(* count announced, and the answer to the tracker acknowledges just these. *)
AcceptedIsWhole ==
  st = "accepted" =>
    /\ Len(items) = count
    /\ response = IF codec \in DataCodecs THEN <<count>> ELSE <<>>

(* The declared size of an accepted message is that of its timestamp, IMEI *)
(* and text together: a size too small for the first two is never taken    *)
(* for that of an empty or of a huge text (the wrap of commandSize).       *)
MessageSizesAddUp ==
  codec \in CommandCodecs =>
    \A i \in 1..Len(items) :
      /\ items[i].declared = items[i].text + Extra(codec)
      /\ items[i].text <= MaxLength
-----------------------------------------------------------------------------
(* teltonika.go:246: decoding returns a packet "or an error".              *)
DecodeReturns == st # "panic"
=============================================================================

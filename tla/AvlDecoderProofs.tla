-------------------------- MODULE AvlDecoderProofs --------------------------
(***************************************************************************)
(* Theorems about the packet decoder, for frames of any contents: any      *)
(* lengths, counts, sizes, ids and IMEIs.                                  *)
(***************************************************************************)
EXTENDS AvlDecoder, SequenceTheorems, TLAPS

(* The reader never stands behind the bytes of its frame, however counts   *)
(* and sizes in them contradict each other (ReadBytes's bound).            *)
StaysInFrame == pos <= size

(* Where the decoder stands says which codec it is in and how many items   *)
(* it has.  A record being read is the last of at most count records, and  *)
(* no element is due between two groups.                                   *)
Progress ==
  /\ count \in 0..255
  /\ st = "frame" => pos = 0
  /\ st \in {"frame", "prefix", "header"} => codec = "none"
  /\ st \in {"record", "group", "element"} => codec \in DataCodecs
  /\ st = "message" => codec \in CommandCodecs
  /\ st \in {"tail", "crc", "accepted"} => codec \in Codecs /\ Len(items) = count
  /\ st \in {"record", "message"} => Len(items) < count
  /\ st \notin {"element", "rejected", "panic"} => left = 0
  /\ st \in {"group", "element"} => Len(items) \in 1..count

(* Nothing is answered before the packet is accepted.                      *)
AnsweredWhenAccepted ==
  IF st = "accepted"
  THEN response = IF codec \in DataCodecs THEN <<count>> ELSE <<>>
  ELSE response = <<>>

(* The inductive invariant: the properties of the decoder hold because the *)
(* place in the packet, the codec and the number of items agree.           *)
DecoderInv ==
  /\ DecoderTypeOK /\ StaysInFrame /\ ElementsFit /\ MessageSizesAddUp
  /\ Progress /\ AnsweredWhenAccepted

(* A field takes a number of bytes, whatever it holds.                     *)
LEMMA BytesAreNat ==
  ASSUME DecoderTypeOK, NEW f \in Coming, f.kind \in Reading
  PROVE  Bytes(f) \in Nat
<1> USE DecoderAssumption DEF Coming, Field, Reading
<1>2. Extra(codec) \in {0, 4, 8, 12}
  BY DEF Extra, Timestamped, Addressed
<1>3. CountBytes \in Nat /\ IdBytes \in Nat /\ EventBytes \in Nat /\ LengthBytes \in Nat
  BY DEF CountBytes, IdBytes, EventBytes, LengthBytes
<1>4. CASE f.kind = "prefix"
  BY <1>4 DEF Bytes
<1>5. CASE f.kind = "element"
  BY <1>5, <1>3 DEF Bytes
<1>6. CASE f.kind = "message"
  <2>1. f.declared \in 0..(Word - 1)
    BY <1>6
  <2>2. TextBytes(codec, f.declared) \in Nat
    BY <2>1, <1>2 DEF TextBytes, MaxLength
  <2> QED BY <2>2, <1>2, <1>6 DEF Bytes
<1>7. CASE f.kind \in {"header", "record", "group", "tail", "crc"}
  BY <1>7, <1>3 DEF Bytes
<1> QED BY <1>4, <1>5, <1>6, <1>7

(* A step of the decoder takes one of the fields that may come.            *)
LEMMA DecoderStepCases ==
  ASSUME DecoderNext, NEW ACTION P,
         \A how \in {"rejected", "panic"} : End(how) => P,
         \A f \in Coming : st = f.kind /\ OpenFrame(f) => P,
         \A f \in Coming : st = f.kind /\ ReadPrefix(f) => P,
         \A f \in Coming : st = f.kind /\ ReadHeader(f) => P,
         \A f \in Coming : st = f.kind /\ ReadRecord(f) => P,
         \A f \in Coming : st = f.kind /\ ReadGroup(f) => P,
         \A f \in Coming : st = f.kind /\ ReadElement(f) => P,
         \A f \in Coming : st = f.kind /\ ReadMessage(f) => P,
         \A f \in Coming : st = f.kind /\ ReadTail(f) => P,
         \A f \in Coming : st = f.kind /\ ReadCrc(f) => P
  PROVE  P
BY Zenon DEF DecoderNext, Decode, RefuseFrame, FrameEndsInHeader, EndOfInput,
   UnknownCodec, BadGeneration, TooManyElements, BadMessageType, CountsDiffer,
   BadCrc, Reject

(* The first state satisfies the invariant.                                *)
LEMMA DecoderInitInv == DecoderInit => DecoderInv
BY DecoderAssumption DEF DecoderInit, DecoderInv, DecoderTypeOK, StaysInFrame,
   ElementsFit, MessageSizesAddUp, Progress, AnsweredWhenAccepted, MaxLength, Codecs,
   DataCodecs, CommandCodecs, Reading, Ended

(* To fail leaves everything as it is.                                     *)
LEMMA EndStep ==
  ASSUME DecoderInv, st \notin Ended, NEW how \in {"rejected", "panic"}, End(how)
  PROVE  DecoderInv'
<1> USE DEF End, DecoderInv
<1>1. DecoderTypeOK'
  BY DEF DecoderTypeOK, Ended
<1>2. StaysInFrame'
  BY DEF StaysInFrame
<1>3. ElementsFit'
  BY DEF ElementsFit
<1>4. MessageSizesAddUp'
  BY DEF MessageSizesAddUp, Extra
<1>5. Progress'
  BY DEF Progress
<1>6. AnsweredWhenAccepted'
  BY DEF AnsweredWhenAccepted, Ended
<1> QED BY <1>1, <1>2, <1>3, <1>4, <1>5, <1>6

(* The header fixes how many bytes follow.                                 *)
LEMMA OpenFrameStep ==
  ASSUME DecoderInv, NEW f \in Coming, st = f.kind, OpenFrame(f)
  PROVE  DecoderInv'
<1> USE DEF OpenFrame, DecoderInv
<1>0. f.length \in Nat /\ f.length <= MaxLength
  BY DecoderAssumption DEF Coming, Field
<1>1. DecoderTypeOK'
  <2>1. PICK n \in Nat : n = f.length /\ n <= MaxLength
    BY <1>0
  <2>2. size' = n + 4 \/ (n >= 3 /\ size' = n - 3)
    BY <2>1
  <2>3. size' \in 0..(MaxLength + 4)
    <3> HIDE DEF OpenFrame, DecoderInv
    <3>1. MaxLength \in Nat
      BY DEF MaxLength
    <3>2. CASE size' = n + 4
      BY <2>1, <3>1, <3>2
    <3>3. CASE n >= 3 /\ size' = n - 3
      BY <2>1, <3>1, <3>3
    <3> QED BY <2>2, <3>2, <3>3
  <2>4. st' \in Reading
    BY DEF Reading
  <2> QED BY <2>3, <2>4 DEF DecoderTypeOK
<1>2. StaysInFrame'
  BY <1>0 DEF StaysInFrame, Progress, DecoderTypeOK, MaxLength
<1>3. ElementsFit'
  BY DEF ElementsFit
<1>4. MessageSizesAddUp'
  BY DEF MessageSizesAddUp, Progress, DecoderTypeOK
<1>5. Progress'
  BY DEF Progress
<1>6. AnsweredWhenAccepted'
  BY DEF AnsweredWhenAccepted
<1> QED BY <1>1, <1>2, <1>3, <1>4, <1>5, <1>6

(* The position moves by the bytes of the field, and stays in the frame.   *)
LEMMA TakeStep ==
  ASSUME DecoderInv, NEW f \in Coming, f.kind \in Reading, Take(f)
  PROVE  /\ pos' \in Nat /\ StaysInFrame'
         /\ UNCHANGED <<transport, size>>
         /\ Bytes(f) \in Nat /\ Bytes(f) <= MaxLength + 4
<1>1. Bytes(f) \in Nat
  BY BytesAreNat DEF DecoderInv
<1>2. pos \in Nat /\ size \in 0..(MaxLength + 4)
  BY DEF DecoderInv, DecoderTypeOK
<1> QED
  BY <1>1, <1>2 DEF Take, Fits, StaysInFrame, MaxLength

(* The avl packet id and the IMEI of a UDP frame.                          *)
LEMMA ReadPrefixStep ==
  ASSUME DecoderInv, NEW f \in Coming, st = f.kind, ReadPrefix(f)
  PROVE  DecoderInv'
<1>1. f.kind \in Reading /\ Take(f)
  BY DEF ReadPrefix, Reading
<1> QED
  BY <1>1, TakeStep DEF ReadPrefix, DecoderInv, DecoderTypeOK, StaysInFrame, ElementsFit,
     MessageSizesAddUp, Progress, AnsweredWhenAccepted,
     Codecs, DataCodecs, CommandCodecs, Reading, Ended

(* The codec and the count decide what comes.                              *)
LEMMA ReadHeaderStep ==
  ASSUME DecoderInv, NEW f \in Coming, st = f.kind, ReadHeader(f)
  PROVE  DecoderInv'
<1> USE DEF ReadHeader, DecoderInv
<1>1. f.kind \in Reading /\ Take(f)
  BY DEF Reading
<1>2. codec' \in Codecs /\ count' \in Counts \cap 0..255
  BY DEF Coming, Field
<1>3. items = <<>> /\ items' = <<>>
  BY DEF Progress, DecoderTypeOK
<1>4. st' = IF 0 < count' THEN IF codec' \in DataCodecs THEN "record" ELSE "message"
                         ELSE "tail"
  BY DEF AfterItem
<1>5. DecoderTypeOK'
  <2>1. pos' \in Nat /\ UNCHANGED <<transport, size>>
    BY <1>1, TakeStep
  <2>2. st' \in Reading
    BY <1>4 DEF Reading
  <2>3. items' \in Seq(Record) /\ items' \in Seq(Command)
    BY <1>3
  <2> QED BY <1>2, <1>3, <2>1, <2>2, <2>3 DEF DecoderTypeOK
<1>6. StaysInFrame'
  BY <1>1, TakeStep
<1>7. ElementsFit'
  BY <1>4 DEF ElementsFit
<1>8. MessageSizesAddUp'
  BY <1>3 DEF MessageSizesAddUp
<1>9. Progress'
  <2>0. Len(items') = 0
    BY <1>3, EmptySeq
  <2>1. count' \in 0..255 /\ count' \in Nat
    BY <1>2
  <2>2. CASE count' = 0
    BY <1>2, <1>4, <2>0, <2>1, <2>2 DEF Progress
  <2>3. CASE 0 < count'
    BY <1>2, <1>4, <2>0, <2>1, <2>3 DEF Progress, Codecs
  <2>4. count' = 0 \/ 0 < count'
    BY <2>1
  <2> QED BY <2>2, <2>3, <2>4
<1>10. AnsweredWhenAccepted'
  BY <1>4 DEF AnsweredWhenAccepted
<1> QED BY <1>5, <1>6, <1>7, <1>8, <1>9, <1>10

(* A record starts with as many empty elements as it declares.             *)
LEMMA ReadRecordStep ==
  ASSUME DecoderInv, NEW f \in Coming, st = f.kind, ReadRecord(f)
  PROVE  DecoderInv'
<1> DEFINE r == [event |-> f.event, gen |-> IF codec = "16" THEN f.gen ELSE Unknown,
                 elements |-> [i \in 1..f.total |-> NoElement]]
<1>1. f.kind \in Reading /\ Take(f)
  BY DEF ReadRecord, Reading
<1>2. f.event \in Ids /\ f.gen \in GenerationTypes /\ f.total \in Nat
  BY DecoderAssumption DEF ReadRecord, Coming, Field
<1>3. r \in Record
  <2>1. [i \in 1..f.total |-> NoElement] \in Seq(Element)
    <3>1. NoElement \in Element
      BY DEF NoElement, Element
    <3> QED BY <1>2, <3>1, IsASeq
  <2> QED BY <1>2, <2>1 DEF Record
<1>4. Len(r.elements) = f.total
  BY <1>2
<1> HIDE DEF r
<1>5. codec \in DataCodecs /\ items \in Seq(Record) /\ Len(items) < count
  BY DEF ReadRecord, DecoderInv, Progress, DecoderTypeOK
<1>6. /\ items' = Append(items, r) /\ st' = "group" /\ filled' = 0 /\ group' = 1
      /\ UNCHANGED <<codec, count, left, response>>
  BY DEF ReadRecord, r
<1>7. /\ items' \in Seq(Record) /\ Len(items') = Len(items) + 1
      /\ items'[Len(items')] = r
  BY <1>3, <1>5, <1>6
<1>8. DecoderTypeOK'
  BY <1>1, <1>5, <1>6, <1>7, TakeStep
  DEF DecoderInv, DecoderTypeOK, Reading, DataCodecs, CommandCodecs
<1>9. StaysInFrame'
  BY <1>1, TakeStep
<1>10. ElementsFit'
  <2>1. Len(Elements') = f.total /\ f.total \in Nat
    BY <1>2, <1>4, <1>7 DEF Elements
  <2>2. left' = 0
    BY <1>6 DEF DecoderInv, Progress, ReadRecord
  <2> QED BY <1>6, <2>1, <2>2 DEF ElementsFit
<1>11. MessageSizesAddUp'
  BY <1>5, <1>6 DEF MessageSizesAddUp, DataCodecs, CommandCodecs
<1>12. Progress'
  <2>1. Len(items) \in Nat /\ count \in 0..255
    BY <1>5, LenProperties DEF DecoderInv, Progress
  <2>2. Len(items') \in 1..count
    BY <1>5, <1>7, <2>1
  <2>3. left' = 0
    BY <1>6 DEF DecoderInv, Progress, ReadRecord
  <2> QED BY <1>5, <1>6, <2>1, <2>2, <2>3 DEF Progress
<1>13. AnsweredWhenAccepted'
  BY <1>6 DEF AnsweredWhenAccepted, DecoderInv, ReadRecord
<1> QED BY <1>8, <1>9, <1>10, <1>11, <1>12, <1>13 DEF DecoderInv

(* Between the groups of a record: the next group, the next record, or the *)
(* second count.                                                           *)
LEMMA GroupDoneStep ==
  ASSUME DecoderInv, st \in {"group", "element"}, GroupDone,
         UNCHANGED <<codec, count>>
  PROVE  /\ group' \in 1..5
         /\ st' \in {"group", "record", "tail"}
         /\ st' = "record" => Len(items) < count
         /\ st' = "tail" => Len(items) = count
<1>1. codec \in DataCodecs /\ Len(items) \in 1..count /\ count \in 0..255 /\ group \in 1..5
  BY DEF DecoderInv, Progress, DecoderTypeOK
<1>2. Groups \in {4, 5}
  BY DEF Groups
<1>3. CASE group < Groups
  BY <1>1, <1>2, <1>3 DEF GroupDone
<1>4. CASE ~(group < Groups)
  BY <1>1, <1>4 DEF GroupDone, AfterItem
<1> QED BY <1>3, <1>4

(* A group announces how many elements it has.                             *)
LEMMA ReadGroupStep ==
  ASSUME DecoderInv, NEW f \in Coming, st = f.kind, ReadGroup(f)
  PROVE  DecoderInv'
<1>1. f.kind \in Reading /\ Take(f) /\ st = "group"
  BY DEF ReadGroup, Reading
<1>2. f.n \in Nat
  BY <1>1, DecoderAssumption DEF Coming, Field
<1>3. /\ left' = f.n
      /\ UNCHANGED <<codec, count, items, filled, response>>
  BY DEF ReadGroup
<1>4. /\ f.n > 0 => st' = "element" /\ group' = group
      /\ f.n = 0 => /\ group' \in 1..5
                    /\ st' \in {"group", "record", "tail"}
                    /\ st' = "record" => Len(items) < count
                    /\ st' = "tail" => Len(items) = count
  BY <1>1, <1>2, <1>3, GroupDoneStep DEF ReadGroup
<1>5. codec \in DataCodecs /\ Len(items) \in 1..count /\ count \in 0..255
  BY <1>1 DEF DecoderInv, Progress
<1>6. \/ f.n > 0 /\ st' = "element" /\ group' = group
      \/ f.n = 0 /\ st' \in {"group", "record", "tail"} /\ group' \in 1..5
  BY <1>2, <1>4
<1>7. DecoderTypeOK'
  <2>1. st' \in Reading
    BY <1>6 DEF Reading
  <2>2. group' \in 1..5
    BY <1>6 DEF DecoderInv, DecoderTypeOK
  <2> QED
    BY <1>1, <1>2, <1>3, <2>1, <2>2, TakeStep DEF DecoderInv, DecoderTypeOK
<1>8. StaysInFrame'
  BY <1>1, TakeStep
<1>9. ElementsFit'
  BY <1>1, <1>2, <1>3, <1>6 DEF DecoderInv, ElementsFit, Elements
<1>10. MessageSizesAddUp'
  BY <1>3, <1>5 DEF MessageSizesAddUp, DataCodecs, CommandCodecs
<1>11. Progress'
  BY <1>3, <1>4, <1>5, <1>6 DEF Progress, Codecs
<1>12. AnsweredWhenAccepted'
  BY <1>1, <1>3, <1>6 DEF AnsweredWhenAccepted, DecoderInv
<1> QED BY <1>7, <1>8, <1>9, <1>10, <1>11, <1>12 DEF DecoderInv

(* An element goes to the first free place of the last record and changes  *)
(* nothing else of it: the step that must not run past the slice.          *)
LEMMA ReadElementStep ==
  ASSUME DecoderInv, NEW f \in Coming, st = f.kind, ReadElement(f)
  PROVE  DecoderInv'
<1> DEFINE n == Len(items)
           e == [id |-> f.id, len |-> f.len]
           r == [items[n] EXCEPT !.elements = [items[n].elements EXCEPT ![filled + 1] = e]]
<1>1. f.kind \in Reading /\ Take(f) /\ st = "element"
  BY DEF ReadElement, Reading
<1>2. e \in Element
  BY <1>1 DEF Coming, Field, Element
<1>3. codec \in DataCodecs /\ items \in Seq(Record) /\ n \in 1..count /\ count \in 0..255
  BY <1>1 DEF DecoderInv, Progress, DecoderTypeOK
<1>4. items[n] \in Record
  BY <1>3, ElementOfSeq
<1>5. items[n].elements \in Seq(Element) /\ filled \in Nat /\ filled < Len(items[n].elements)
  BY <1>4 DEF Record, ReadElement, Elements, DecoderInv, DecoderTypeOK
<1>6. /\ r.elements \in Seq(Element)
      /\ Len(r.elements) = Len(items[n].elements)
  <2>1. filled + 1 \in 1..Len(items[n].elements)
    BY <1>5, LenProperties
  <2>2. r.elements = [items[n].elements EXCEPT ![filled + 1] = e]
    BY <1>4 DEF Record
  <2> QED BY <1>2, <1>5, <2>1, <2>2, ExceptSeq
<1>7. r \in Record
  BY <1>4, <1>6 DEF Record
<1>8. /\ items' = [items EXCEPT ![n] = r] /\ filled' = filled + 1 /\ left' = left - 1
      /\ UNCHANGED <<codec, count, response>>
  BY DEF ReadElement
<1> HIDE DEF r, e
<1>9. /\ items' \in Seq(Record) /\ Len(items') = n /\ items'[n] = r
  BY <1>3, <1>7, <1>8, ExceptSeq
<1>10. left \in Nat /\ left > 0
  BY <1>1 DEF DecoderInv, DecoderTypeOK, ElementsFit
<1>11. \/ left > 1 /\ st' = "element" /\ group' = group
       \/ /\ left = 1
          /\ group' \in 1..5
          /\ st' \in {"group", "record", "tail"}
          /\ st' = "record" => n < count
          /\ st' = "tail" => n = count
  BY <1>1, <1>8, <1>10, GroupDoneStep DEF ReadElement
<1>12. DecoderTypeOK'
  <2>1. st' \in Reading /\ group' \in 1..5
    BY <1>11 DEF Reading, DecoderInv, DecoderTypeOK
  <2>2. filled' \in Nat /\ left' \in Nat
    BY <1>5, <1>8, <1>10
  <2>3. codec' \in DataCodecs /\ codec' \notin CommandCodecs /\ codec' # "none"
    BY <1>3, <1>8 DEF DataCodecs, CommandCodecs
  <2> QED
    BY <1>1, <1>8, <1>9, <2>1, <2>2, <2>3, TakeStep DEF DecoderInv, DecoderTypeOK
<1>13. StaysInFrame'
  BY <1>1, TakeStep
<1>14. ElementsFit'
  <2>1. Len(Elements') = Len(items[n].elements)
    BY <1>6, <1>9 DEF Elements
  <2>2. Len(items[n].elements) \in Nat
    BY <1>5, LenProperties
  <2> QED BY <1>5, <1>8, <1>10, <1>11, <2>1, <2>2 DEF ElementsFit
<1>15. MessageSizesAddUp'
  BY <1>3, <1>8 DEF MessageSizesAddUp, DataCodecs, CommandCodecs
<1>16. Progress'
  <2>1. count' = count /\ codec' = codec /\ left' = left - 1 /\ Len(items') = n
    BY <1>8, <1>9
  <2> HIDE DEF n
  <2>2. CASE left > 1 /\ st' = "element"
    BY <1>3, <2>1, <2>2 DEF Progress
  <2>3. CASE left = 1 /\ st' \in {"group", "record", "tail"}
    <3>1. left' = 0
      BY <2>1, <2>3
    <3> QED BY <1>3, <1>11, <2>1, <2>3, <3>1 DEF Progress, Codecs
  <2> QED BY <1>11, <2>2, <2>3
<1>17. AnsweredWhenAccepted'
  BY <1>1, <1>8, <1>11 DEF AnsweredWhenAccepted, DecoderInv
<1> QED BY <1>12, <1>13, <1>14, <1>15, <1>16, <1>17 DEF DecoderInv

(* The text of a message that fits has just the size its declaration       *)
(* leaves: had the subtraction wrapped, it would not fit.                  *)
LEMMA ReadMessageStep ==
  ASSUME DecoderInv, NEW f \in Coming, st = f.kind, ReadMessage(f)
  PROVE  DecoderInv'
<1> DEFINE text == TextBytes(codec, f.declared)
           m == [type |-> f.type, declared |-> f.declared, text |-> text,
                 imei |-> IF Addressed(codec) THEN {TrimLeft(f.imei)} ELSE {}]
<1>1. f.kind \in Reading /\ Take(f) /\ st = "message"
  BY DEF ReadMessage, Reading
<1>2. f.type \in MessageTypes /\ f.declared \in Sizes /\ f.imei \in Imeis
  BY <1>1 DEF Coming, Field
<1>3. codec \in CommandCodecs /\ items \in Seq(Command) /\ Len(items) < count
      /\ count \in 0..255 /\ Len(items) \in Nat
  BY <1>1, LenProperties DEF DecoderInv, Progress, DecoderTypeOK
<1>4. Extra(codec) \in {0, 4, 8, 12}
  BY DEF Extra, Timestamped, Addressed
<1>5. f.declared \in Nat /\ f.declared < Word /\ Word \in Nat /\ Word > 2560
  <2>1. Word \in Nat /\ Word > 2560
    BY DecoderAssumption DEF MaxLength
  <2>2. f.declared \in 0..(Word - 1)
    BY <1>2, DecoderAssumption
  <2> QED BY <2>1, <2>2
<1>6. text \in Nat /\ 5 + Extra(codec) + text <= 1284
  <2>1. text \in Nat
    BY <1>4, <1>5 DEF TextBytes
  <2>2. Bytes(f) = 5 + Extra(codec) + text
    BY <1>1 DEF Bytes
  <2>3. Bytes(f) <= MaxLength + 4
    BY <1>1, TakeStep
  <2> QED BY <2>1, <2>2, <2>3 DEF MaxLength
<1>7. f.declared = text + Extra(codec) /\ text <= MaxLength
  <2>1. PICK x \in {0, 4, 8, 12} : x = Extra(codec)
    BY <1>4
  <2>2. text = IF f.declared >= x THEN f.declared - x ELSE f.declared + Word - x
    BY <2>1 DEF TextBytes
  <2>3. 5 + x + text <= 1284
    BY <1>6, <2>1
  <2> HIDE DEF text
  <2>4. f.declared >= x
    BY <1>5, <2>1, <2>2, <2>3
  <2> QED BY <1>5, <1>6, <2>1, <2>2, <2>3, <2>4 DEF MaxLength
<1>8. m \in Command
  <2>1. text \in 0..(Word - 1)
    <3> HIDE DEF text
    <3>1. text <= 1284 /\ text \in Nat
      BY <1>4, <1>6
    <3> QED BY <1>5, <3>1
  <2> QED BY <1>2, <2>1 DEF Command
<1>9. /\ items' = Append(items, m) /\ st' = AfterItem(Len(items) + 1)
      /\ UNCHANGED <<codec, count, filled, group, left, response>>
  BY DEF ReadMessage
<1>10. m.declared = f.declared /\ m.text = text
  OBVIOUS
<1> HIDE DEF m, text
<1>11. /\ items' \in Seq(Command) /\ Len(items') = Len(items) + 1
       /\ \A i \in 1..Len(items) : items'[i] = items[i]
       /\ items'[Len(items) + 1] = m
  BY <1>3, <1>8, <1>9, AppendProperties
<1>12. \/ st' = "message" /\ Len(items') < count
       \/ st' = "tail" /\ Len(items') = count
  BY <1>3, <1>9, <1>11 DEF AfterItem, DataCodecs, CommandCodecs
<1>13. DecoderTypeOK'
  <2>1. st' \in Reading
    BY <1>12 DEF Reading
  <2>2. codec' \in CommandCodecs /\ codec' \notin DataCodecs /\ codec' # "none"
    BY <1>3, <1>9 DEF DataCodecs, CommandCodecs
  <2> QED
    BY <1>1, <1>9, <1>11, <2>1, <2>2, TakeStep DEF DecoderInv, DecoderTypeOK
<1>14. StaysInFrame'
  BY <1>1, TakeStep
<1>15. ElementsFit'
  BY <1>12 DEF ElementsFit
<1>16. MessageSizesAddUp'
  <2>1. Extra(codec)' = Extra(codec)
    BY <1>9 DEF Extra, Timestamped, Addressed
  <2>2. ASSUME NEW i \in 1..Len(items')
        PROVE  items'[i].declared = items'[i].text + Extra(codec) /\ items'[i].text <= MaxLength
    <3>1. CASE i \in 1..Len(items)
      BY <1>3, <1>11, <3>1 DEF DecoderInv, MessageSizesAddUp
    <3>2. CASE i = Len(items) + 1
      BY <1>7, <1>10, <1>11, <3>2
    <3> QED BY <1>3, <1>11, <2>2, <3>1, <3>2
  <2> QED BY <2>1, <2>2 DEF MessageSizesAddUp
<1>17. Progress'
  <2>1. left' = 0
    BY <1>1, <1>9 DEF DecoderInv, Progress
  <2> QED BY <1>3, <1>9, <1>12, <2>1 DEF Progress, Codecs
<1>18. AnsweredWhenAccepted'
  BY <1>1, <1>9, <1>12 DEF AnsweredWhenAccepted, DecoderInv
<1> QED BY <1>13, <1>14, <1>15, <1>16, <1>17, <1>18 DEF DecoderInv

(* The packet is handed out with as many items as it announced, and these  *)
(* are what is acknowledged.                                               *)
LEMMA AcceptStep ==
  ASSUME DecoderInv, NEW f \in Coming, st = f.kind, f.kind \in Reading, Take(f),
         st \in {"tail", "crc"}, Accept,
         UNCHANGED <<codec, count, items, filled, group, left>>
  PROVE  DecoderInv'
<1>1. /\ codec \in Codecs /\ Len(items) = count /\ count \in 0..255 /\ left = 0
      /\ response = <<>>
  BY DEF DecoderInv, Progress, AnsweredWhenAccepted
<1>2. Len(items) % 256 = count
  BY <1>1
<1>3. st' = "accepted" /\ response' = IF codec \in DataCodecs THEN <<count>> ELSE <<>>
  BY <1>2 DEF Accept
<1>4. response' \in Seq(0..255)
  <2>1. <<count>> \in Seq(0..255) /\ <<>> \in Seq(0..255)
    BY <1>1
  <2> QED BY <1>3, <2>1
<1>5. DecoderTypeOK'
  <2>1. st' \in Ended
    BY <1>3 DEF Ended
  <2> QED BY <1>4, <2>1, TakeStep DEF DecoderInv, DecoderTypeOK
<1>6. StaysInFrame'
  BY TakeStep
<1>7. ElementsFit'
  BY <1>3 DEF ElementsFit
<1>8. MessageSizesAddUp'
  BY DEF DecoderInv, MessageSizesAddUp, Extra, Timestamped, Addressed
<1>9. Progress'
  BY <1>1, <1>3 DEF Progress
<1>10. AnsweredWhenAccepted'
  BY <1>3 DEF AnsweredWhenAccepted
<1> QED BY <1>5, <1>6, <1>7, <1>8, <1>9, <1>10 DEF DecoderInv

(* The second count: the end of a UDP packet, and of a TCP packet but for  *)
(* the sum.                                                                *)
LEMMA ReadTailStep ==
  ASSUME DecoderInv, NEW f \in Coming, st = f.kind, ReadTail(f)
  PROVE  DecoderInv'
<1>1. /\ f.kind \in Reading /\ Take(f) /\ st = "tail"
      /\ UNCHANGED <<codec, count, items, filled, group, left>>
  BY DEF ReadTail, Reading
<1>2. CASE Accept
  BY <1>1, <1>2, AcceptStep
<1>3. CASE st' = "crc" /\ UNCHANGED response
  <2>1. DecoderTypeOK'
    <3>1. st' \in Reading
      BY <1>3 DEF Reading
    <3> QED BY <1>1, <1>3, <3>1, TakeStep DEF DecoderInv, DecoderTypeOK
  <2>2. StaysInFrame'
    BY <1>1, TakeStep
  <2>3. ElementsFit'
    BY <1>3 DEF ElementsFit
  <2>4. MessageSizesAddUp'
    BY <1>1 DEF DecoderInv, MessageSizesAddUp, Extra, Timestamped, Addressed
  <2>5. Progress'
    BY <1>1, <1>3 DEF DecoderInv, Progress
  <2>6. AnsweredWhenAccepted'
    BY <1>1, <1>3 DEF DecoderInv, AnsweredWhenAccepted
  <2> QED BY <2>1, <2>2, <2>3, <2>4, <2>5, <2>6 DEF DecoderInv
<1> QED BY <1>2, <1>3 DEF ReadTail

(* The sum after a TCP packet.                                             *)
LEMMA ReadCrcStep ==
  ASSUME DecoderInv, NEW f \in Coming, st = f.kind, ReadCrc(f)
  PROVE  DecoderInv'
<1>1. /\ f.kind \in Reading /\ Take(f) /\ st = "crc" /\ Accept
      /\ UNCHANGED <<codec, count, items, filled, group, left>>
  BY DEF ReadCrc, Reading
<1> QED BY <1>1, AcceptStep

(* Nothing comes after the end of a decode.                                *)
LEMMA NotEnded == ASSUME NEW f \in Coming PROVE st \notin Ended
BY DEF Coming, Field, Ended

(* Every step of the decoder keeps the invariant.                          *)
LEMMA DecoderStep == DecoderInv /\ [DecoderNext]_decVars => DecoderInv'
<1> SUFFICES ASSUME DecoderInv, [DecoderNext]_decVars PROVE DecoderInv'
  OBVIOUS
<1>1. CASE UNCHANGED decVars
  BY <1>1 DEF decVars, DecoderInv, DecoderTypeOK, StaysInFrame, ElementsFit, Elements,
     MessageSizesAddUp, Extra, Timestamped, Addressed, Progress, AnsweredWhenAccepted
<1>2. CASE DecoderNext
  <2>1. st \notin Ended
    BY <1>2, NotEnded DEF DecoderNext
  <2>2. \A how \in {"rejected", "panic"} : End(how) => DecoderInv'
    BY <2>1, EndStep
  <2> QED
    BY <1>2, <2>2, DecoderStepCases, OpenFrameStep, ReadPrefixStep, ReadHeaderStep,
       ReadRecordStep, ReadGroupStep, ReadElementStep, ReadMessageStep, ReadTailStep,
       ReadCrcStep
<1> QED BY <1>1, <1>2

(* The inductive invariant holds of every decode.                          *)
THEOREM DecoderInvariance == DecoderSpec => []DecoderInv
BY DecoderInitInv, DecoderStep, PTL DEF DecoderSpec

(* What is collected always has the shape of the codec's packets.          *)
THEOREM DecoderTypeCorrect == DecoderSpec => []DecoderTypeOK
<1>1. DecoderInv => DecoderTypeOK
  BY DEF DecoderInv
<1> QED BY <1>1, DecoderInvariance, PTL

(* The decoder never reads behind the frame that its header opened.        *)
THEOREM DecoderStaysInFrame == DecoderSpec => []StaysInFrame
<1>1. DecoderInv => StaysInFrame
  BY DEF DecoderInv
<1> QED BY <1>1, DecoderInvariance, PTL

(* The decoder never stores an element past a record's slice, whatever     *)
(* totals and group counts a frame combines.                               *)
THEOREM ElementsAlwaysFit == DecoderSpec => []ElementsFit
<1>1. DecoderInv => ElementsFit
  BY DEF DecoderInv
<1> QED BY <1>1, DecoderInvariance, PTL

(* An accepted packet has, and its answer acknowledges, what it announced. *)
THEOREM AcceptedPacketIsWhole == DecoderSpec => []AcceptedIsWhole
<1>1. DecoderInv => AcceptedIsWhole
  BY DEF DecoderInv, Progress, AnsweredWhenAccepted, AcceptedIsWhole
<1> QED BY <1>1, DecoderInvariance, PTL

(* No command size that wrapped gets through, for any 32-bit size.         *)
THEOREM WrappedSizesAreRefused == DecoderSpec => []MessageSizesAddUp
<1>1. DecoderInv => MessageSizesAddUp
  BY DEF DecoderInv
<1> QED BY <1>1, DecoderInvariance, PTL
=============================================================================

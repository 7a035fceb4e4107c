------------------------- MODULE AvlRoundTripProofs -------------------------
(***************************************************************************)
(* What is encoded is decoded: the invariant of the decoder on a frame of  *)
(* the encoder's, and the theorems that rest on it, for packets of any     *)
(* size, and for foreign frames of any contents beside them.               *)
(***************************************************************************)
EXTENDS AvlEncoderProofs, AvlDecoderProofs
-----------------------------------------------------------------------------
(***************************************************************************)
(* The decoder on the encoder's frame.                                     *)
(***************************************************************************)
(* The elements of the record that is being decoded, as they were given.   *)
GivenElements == given.items[Len(items)].elements

(* What comes after the items decoded so far.                              *)
Later == LeftAfter(given.codec, given.items, transport, Len(items))

(* The elements of a group after the first m.                              *)
FieldsAfter(c, u, m) == [i \in 1..(Len(u) - m) |-> PutElement(c, u[m + i])]

(* How many elements of the group have been decoded.                       *)
InThisGroup == filled - Before(GivenElements, group)

(* What is on its way is what the decoder has still to decode.             *)
TapeIs ==
  /\ tape \in Seq(Put)
  /\ st = "frame" =>
       \/ /\ transport = "tcp"
          /\ tape = <<FrameField(DataSize(given.codec, given.items, 3), 8)>>
                      \o PacketFields(given.codec, given.items, "tcp")
       \/ /\ transport = "udp"
          /\ UDPSize(given.codec, given.items, ImeiLength) <= MaxLength
          /\ tape = <<FrameField(UDPSize(given.codec, given.items, ImeiLength) - 2, 5)>>
                      \o (<<PrefixField(ImeiLength)>>
                            \o PacketFields(given.codec, given.items, "udp"))
  /\ st = "prefix" =>
       tape = <<PrefixField(ImeiLength)>> \o PacketFields(given.codec, given.items, transport)
  /\ st = "header" => tape = PacketFields(given.codec, given.items, transport)
  /\ st \in {"record", "message", "tail"} => tape = Later
  /\ st = "group" => tape = GroupsFrom(given.codec, GivenElements, group) \o Later
  /\ st = "element" =>
       tape = FieldsAfter(given.codec, InGroup(GivenElements, group), InThisGroup)
                \o (GroupsFrom(given.codec, GivenElements, group + 1) \o Later)
  /\ st = "crc" => tape = <<CrcField>>
  /\ st = "accepted" => tape = <<>>

(* Where the decoder stands.                                               *)
PlaceIs ==
  /\ transport \in {"tcp", "udp"}
  /\ st \in Reading \cup {"frame", "accepted", "rejected"}
  /\ st \in {"frame", "prefix", "header", "rejected"} => codec = "none" /\ items = <<>>
  /\ st \notin {"frame", "prefix", "header", "rejected"} =>
       codec = given.codec /\ count = Len(given.items)
  /\ st \in {"record", "group", "element"} => given.codec \in DataCodecs
  /\ st = "message" => given.codec \in CommandCodecs
  /\ st \in {"record", "message"} => Len(items) < Len(given.items)
  /\ st \in {"group", "element"} => Len(items) \in 1..Len(given.items)
  /\ st \in {"tail", "crc", "accepted"} => Len(items) = Len(given.items)
  /\ st = "prefix" => transport = "udp"
  /\ st = "crc" => transport = "tcp"
  /\ st = "rejected" =>
       transport = "tcp" /\ DataSize(given.codec, given.items, 3) > MaxLength
  /\ st = "accepted" =>
       response = IF given.codec \in DataCodecs THEN <<Len(given.items)>> ELSE <<>>
  /\ st # "element" => left = 0

(* Where it stands in a record.                                            *)
GroupIs ==
  /\ st \in {"group", "element"} => group \in 1..GroupsOf(given.codec) /\ filled \in Nat
  /\ st = "group" => filled = Before(GivenElements, group)
  /\ st = "element" =>
       /\ InThisGroup \in 0..(Size(GivenElements, group) - 1)
       /\ left = Size(GivenElements, group) - InThisGroup

(* The bytes left in the frame are those on their way.                     *)
SizeIs ==
  /\ pos \in Nat /\ size \in Nat /\ size <= MaxLength + 4
  /\ st = "frame" => size = 0 /\ pos = 0
  /\ st \in Reading \cup {"accepted"} => size = pos + BytesOf(tape)

DecodedMessage == [type : MessageTypes, declared : Nat, text : Nat, imei : SUBSET Imei]

(* A record whose first n elements are decoded, and one that is complete.  *)
RecordSoFar(c, r, d, n) ==
  /\ d.event = r.event
  /\ d.gen = IF c = "16" THEN r.gen ELSE Unknown
  /\ Len(d.elements) = Len(r.elements)
  /\ \A i \in 1..n : d.elements[i] = Grouped(r.elements)[i]

RecordDone(c, r, d) ==
  /\ d.event = r.event
  /\ d.gen = IF c = "16" THEN r.gen ELSE Unknown
  /\ Rearranged(r.elements, d.elements)

MessageDone(c, m, d) ==
  /\ d.type = m.type /\ d.text = m.text
  /\ d.imei = IF Addressed(c) THEN {TrimLeft(m.imei)} ELSE {}
  /\ d.declared = d.text + Extra(c)
  /\ d.text <= MaxLength

(* What is decoded so far is what was given: all items but a last record   *)
(* that is not complete, and of this one the first elements.               *)
Complete == IF st \in {"group", "element"} THEN Len(items) - 1 ELSE Len(items)

RecordsAre ==
  given.codec \in DataCodecs =>
    /\ items \in Seq(DataRecord)
    /\ \A i \in 1..Complete : RecordDone(given.codec, given.items[i], items[i])

LastRecordIs ==
  st \in {"group", "element"} =>
    RecordSoFar(given.codec, given.items[Len(items)], items[Len(items)], filled)

MessagesAre ==
  given.codec \in CommandCodecs =>
    /\ items \in Seq(DecodedMessage)
    /\ \A i \in 1..Len(items) : MessageDone(given.codec, given.items[i], items[i])

(* The inductive invariant for a packet that was encoded.                  *)
GivenInv ==
  /\ IsPacket(given.codec, given.items)
  /\ TapeIs /\ PlaceIs /\ GroupIs /\ SizeIs
  /\ RecordsAre /\ LastRecordIs /\ MessagesAre

(* The inductive invariant of the whole: a foreign frame is decoded as any *)
(* frame is, a given packet as above.                                      *)
RoundTripInv ==
  /\ given = Foreign => tape = <<>> /\ DecoderInv
  /\ given # Foreign => GivenInv

(* The first field and the others.                                         *)
LEMMA FirstField ==
  ASSUME NEW S, NEW f \in S, NEW s \in Seq(S)
  PROVE  <<f>> \o s # <<>> /\ Head(<<f>> \o s) = f /\ Tail(<<f>> \o s) = s
<1>1. <<f>> \in Seq(S) /\ Len(<<f>>) = 1 /\ Len(s) \in Nat
  OBVIOUS
<1> DEFINE t == <<f>> \o s
<1>2. /\ t \in Seq(S) /\ Len(t) = 1 + Len(s)
      /\ \A i \in 1..(1 + Len(s)) : t[i] = IF i <= 1 THEN <<f>>[i] ELSE s[i - 1]
  BY <1>1, ConcatProperties
<1> HIDE DEF t
<1>3. t # <<>> /\ Head(t) = f
  BY <1>1, <1>2
<1>4. Tail(t) \in Seq(S) /\ Len(Tail(t)) = Len(s)
  BY <1>1, <1>2, <1>3
<1>5. \A i \in 1..Len(s) : Tail(t)[i] = s[i]
  <2> TAKE i \in 1..Len(s)
  <2>1. Tail(t)[i] = t[i + 1] /\ i + 1 \in 1..(1 + Len(s)) /\ ~(i + 1 <= 1) /\ (i + 1) - 1 = i
    BY <1>1, <1>2, <1>3
  <2> QED BY <1>2, <2>1
<1>6. Tail(t) = s
  BY <1>4, <1>5, SeqEqual
<1> QED BY <1>3, <1>6 DEF t

(* The next field of a group and the others.                               *)
LEMMA NextElement ==
  ASSUME NEW c, NEW u \in Seq(Elem)
  PROVE  /\ FieldsAfter(c, u, Len(u)) = <<>>
         /\ FieldsAfter(c, u, 0) = ElementFields(c, u)
         /\ \A m \in 0..(Len(u) - 1) :
              /\ FieldsAfter(c, u, m) \in Seq(Put) /\ FieldsAfter(c, u, m + 1) \in Seq(Put)
              /\ PutElement(c, u[m + 1]) \in Put
              /\ FieldsAfter(c, u, m) = <<PutElement(c, u[m + 1])>> \o FieldsAfter(c, u, m + 1)
<1>1. Len(u) \in Nat /\ \A i \in 1..Len(u) : PutElement(c, u[i]) \in Put
  BY ElementField
<1>2. FieldsAfter(c, u, Len(u)) = <<>>
  <2>1. Len(u) - Len(u) = 0
    BY <1>1
  <2> QED BY <2>1 DEF FieldsAfter
<1>3. FieldsAfter(c, u, 0) = ElementFields(c, u)
  BY <1>1 DEF FieldsAfter, ElementFields
<1>4. ASSUME NEW m \in 0..Len(u)
      PROVE  FieldsAfter(c, u, m) \in Seq(Put) /\ Len(FieldsAfter(c, u, m)) = Len(u) - m
  <2> DEFINE n == Len(u)
  <2>1. n - m \in Nat /\ \A i \in 1..(n - m) : m + i \in 1..n
    <3>1. n \in Nat /\ m \in Nat /\ m <= n
      BY <1>1
    <3> HIDE DEF n
    <3> QED BY <3>1
  <2>2. \A i \in 1..(Len(u) - m) : PutElement(c, u[m + i]) \in Put
    BY <1>1, <2>1
  <2> QED BY <2>1, <2>2 DEF FieldsAfter
<1>5. ASSUME NEW m \in 0..(Len(u) - 1)
      PROVE  /\ FieldsAfter(c, u, m) \in Seq(Put) /\ FieldsAfter(c, u, m + 1) \in Seq(Put)
             /\ PutElement(c, u[m + 1]) \in Put
             /\ FieldsAfter(c, u, m) = <<PutElement(c, u[m + 1])>> \o FieldsAfter(c, u, m + 1)
  <2> DEFINE f == PutElement(c, u[m + 1])
             a == FieldsAfter(c, u, m)
             b == FieldsAfter(c, u, m + 1)
             n == Len(u) - m
  <2>1. m \in 0..Len(u) /\ m + 1 \in 0..Len(u) /\ m + 1 \in 1..Len(u) /\ n \in Nat /\ n > 0
    <3> DEFINE l == Len(u)
    <3>1. l \in Nat /\ m \in 0..(l - 1)
      BY <1>1
    <3> HIDE DEF l
    <3>2. m \in 0..l /\ m + 1 \in 0..l /\ m + 1 \in 1..l /\ l - m \in Nat /\ l - m > 0
      BY <3>1
    <3> QED BY <3>2 DEF l
  <2>2. a \in Seq(Put) /\ Len(a) = n /\ b \in Seq(Put) /\ Len(b) = n - 1 /\ f \in Put
    <3>1. Len(u) - (m + 1) = n - 1
      BY <1>1
    <3> QED BY <1>1, <1>4, <2>1, <3>1, Zenon
  <2>3. \A i \in 1..n : a[i] = PutElement(c, u[m + i])
    BY DEF FieldsAfter
  <2>4. \A i \in 1..(n - 1) : b[i] = PutElement(c, u[m + (i + 1)])
    <3> TAKE i \in 1..(n - 1)
    <3>1. (m + 1) + i = m + (i + 1) /\ i \in 1..(Len(u) - (m + 1))
      BY <1>1
    <3> QED BY <3>1 DEF FieldsAfter
  <2>5. a[1] = f
    BY <2>1, <2>3
  <2> HIDE DEF a, b, f, n
  <2> DEFINE t == <<f>> \o b
  <2>6. <<f>> \in Seq(Put) /\ Len(<<f>>) = 1
    BY <2>2
  <2>7. /\ t \in Seq(Put) /\ Len(t) = 1 + (n - 1)
        /\ \A i \in 1..(1 + (n - 1)) : t[i] = IF i <= 1 THEN <<f>>[i] ELSE b[i - 1]
    BY <2>2, <2>6, ConcatProperties
  <2>8. ASSUME NEW i \in 1..n PROVE a[i] = t[i]
    <3>1. i \in 1..(1 + (n - 1))
      BY <2>1
    <3>2. CASE i = 1
      BY <2>5, <2>7, <3>1, <3>2
    <3>3. CASE i # 1
      <4>1. i - 1 \in 1..(n - 1) /\ (i - 1) + 1 = i /\ ~(i <= 1)
        BY <2>1, <3>3
      <4>2. b[i - 1] = PutElement(c, u[m + i])
        BY <2>4, <4>1
      <4> HIDE DEF t
      <4> QED BY <2>3, <2>7, <3>1, <4>1, <4>2
    <3> QED BY <3>2, <3>3
  <2>9. Len(t) = n
    <3> HIDE DEF t
    <3> QED BY <2>1, <2>7
  <2> HIDE DEF t
  <2>10. a = t
    BY <2>2, <2>7, <2>8, <2>9, SeqEqual
  <2> QED BY <2>2, <2>10 DEF a, b, f, t
<1> QED BY <1>1, <1>2, <1>3, <1>5

(* What is behind a field and others is behind the others.                 *)
LEMMA FrontConcat ==
  ASSUME NEW S, NEW f \in S, NEW a \in Seq(S), NEW b \in Seq(S)
  PROVE  a \o b \in Seq(S) /\ (<<f>> \o a) \o b = <<f>> \o (a \o b)
<1> DEFINE s == <<f>>
<1>1. s \in Seq(S)
  OBVIOUS
<1> HIDE DEF s
<1>2. Cat(Cat(s, a), b) = Cat(s, Cat(a, b)) /\ Cat(a, b) \in Seq(S)
  BY <1>1, CatAssociative
<1> QED BY <1>2 DEF Cat, s

(* What is left after k items is a sequence of fields.                     *)
LEMMA LeftIsSeq ==
  ASSUME NEW c, NEW its, IsPacket(c, its), NEW tr, NEW k \in 0..Len(its)
  PROVE  LeftAfter(c, its, tr, k) \in Seq(Put)
<1> DEFINE a == ItemsAfter(c, its, k)
           b == Closing(its, tr)
<1>1. Len(its) \in Nat
  BY DEF IsPacket
<1>2. a \in Seq(Put) /\ b \in Seq(Put)
  BY <1>1, ItemsInOrder, ClosingBytes
<1> HIDE DEF a, b
<1>3. a \o b \in Seq(Put)
  BY <1>2, ConcatProperties, Zenon
<1> QED BY <1>3 DEF LeftAfter, a, b

RecordField(c, r) ==
  [kind |-> "record", event |-> r.event, gen |-> r.gen, total |-> Len(r.elements),
   w |-> 24 + IF c = "8" THEN 2 ELSE 4]

MessageField(c, m) ==
  [kind |-> "message", type |-> m.type, declared |-> m.text + ExtraBytes(c),
   imei |-> Pad(m.imei), w |-> 5 + ExtraBytes(c) + m.text]

GroupField(c, u) == [kind |-> "group", n |-> Len(u), w |-> CountWidth(c)]

(* Before a record: its head, its groups, the later items.                 *)
LEMMA NextRecord ==
  ASSUME NEW c \in DataCodecs, NEW its, IsPacket(c, its), NEW tr,
         NEW k \in Nat, k < Len(its)
  PROVE  /\ its[k + 1] \in DataRecord /\ RecordOK(c, its[k + 1])
         /\ RecordField(c, its[k + 1]) \in Put
         /\ GroupsFrom(c, its[k + 1].elements, 1) \o LeftAfter(c, its, tr, k + 1) \in Seq(Put)
         /\ LeftAfter(c, its, tr, k)
              = <<RecordField(c, its[k + 1])>>
                  \o (GroupsFrom(c, its[k + 1].elements, 1) \o LeftAfter(c, its, tr, k + 1))
<1> DEFINE r == its[k + 1]
           f == RecordField(c, r)
           g == GroupsFrom(c, r.elements, 1)
           i == ItemsAfter(c, its, k + 1)
           z == Closing(its, tr)
<1>1. /\ Len(its) \in Nat /\ k + 1 \in 1..Len(its) /\ k \in 0..(Len(its) - 1)
      /\ k + 1 \in 0..Len(its)
  BY DEF IsPacket
<1>2. its \in Seq(DataRecord) /\ ~IsCommandCodec(c)
  BY DEF IsPacket, DataCodecs, CommandCodecs, IsCommandCodec
<1>3. r \in DataRecord /\ RecordOK(c, r)
  BY <1>1, <1>2 DEF IsPacket, Encodable
<1> HIDE DEF r
<1>4. r.elements \in Seq(Elem) /\ r.event \in Nat /\ r.gen \in Nat
  BY <1>3 DEF DataRecord
<1>5. f \in Put
  <2> DEFINE n == Len(r.elements)
             w == 24 + IF c = "8" THEN 2 ELSE 4
  <2>1. n \in Nat /\ w \in Nat
    BY <1>4
  <2> HIDE DEF n, w
  <2>2. [kind |-> "record", event |-> r.event, gen |-> r.gen, total |-> n, w |-> w] \in Put
    BY <1>4, <2>1 DEF Put
  <2> QED BY <2>2 DEF RecordField, n, w
<1>6. g \in Seq(Put) /\ PutGroups(c, r.elements) = g
  BY <1>4, GroupsInOrder, SMTT(30)
<1>7. i \in Seq(Put) /\ z \in Seq(Put)
  BY <1>1, ItemsInOrder, ClosingBytes
<1>8. PutItem(c, r) = <<f>> \o g
  BY <1>2, <1>6 DEF PutItem, PutRecord, RecordField
<1>9. LeftAfter(c, its, tr, k) = (PutItem(c, r) \o i) \o z
  BY <1>1, ItemsInOrder DEF LeftAfter, r
<1>10. LeftAfter(c, its, tr, k + 1) = i \o z
  BY DEF LeftAfter
<1> HIDE DEF f, g, i, z
<1>11. g \o i \in Seq(Put) /\ (<<f>> \o g) \o i = <<f>> \o (g \o i)
  BY <1>5, <1>6, <1>7, FrontConcat, SMTT(30)
<1>12. (<<f>> \o (g \o i)) \o z = <<f>> \o ((g \o i) \o z)
  <2> DEFINE a == g \o i
  <2>1. a \in Seq(Put)
    BY <1>11
  <2> HIDE DEF a
  <2>2. (<<f>> \o a) \o z = <<f>> \o (a \o z)
    BY <1>5, <1>7, <2>1, FrontConcat
  <2> QED BY <2>2 DEF a
<1>13. (g \o i) \o z = g \o (i \o z) /\ g \o (i \o z) \in Seq(Put)
  <2>1. Cat(Cat(g, i), z) = Cat(g, Cat(i, z)) /\ Cat(i, z) \in Seq(Put)
    BY <1>6, <1>7, CatAssociative
  <2>2. Cat(g, Cat(i, z)) \in Seq(Put)
    BY <1>6, <2>1, CatAssociative
  <2> QED BY <2>1, <2>2 DEF Cat
<1> QED BY <1>3, <1>5, <1>8, <1>9, <1>10, <1>11, <1>12, <1>13 DEF f, g, r

(* Before a message: itself, the later ones.                               *)
LEMMA NextMessage ==
  ASSUME NEW c \in CommandCodecs, NEW its, IsPacket(c, its), NEW tr,
         NEW k \in Nat, k < Len(its)
  PROVE  /\ its[k + 1] \in DataMessage /\ MessageOK(c, its[k + 1])
         /\ MessageField(c, its[k + 1]) \in Put
         /\ LeftAfter(c, its, tr, k + 1) \in Seq(Put)
         /\ LeftAfter(c, its, tr, k)
              = <<MessageField(c, its[k + 1])>> \o LeftAfter(c, its, tr, k + 1)
<1> DEFINE m == its[k + 1]
           f == MessageField(c, m)
           i == ItemsAfter(c, its, k + 1)
           z == Closing(its, tr)
<1>1. /\ Len(its) \in Nat /\ k + 1 \in 1..Len(its) /\ k \in 0..(Len(its) - 1)
      /\ k + 1 \in 0..Len(its)
  BY DEF IsPacket
<1>2. its \in Seq(DataMessage) /\ IsCommandCodec(c)
  BY DEF IsPacket, DataCodecs, CommandCodecs, IsCommandCodec
<1>3. m \in DataMessage /\ MessageOK(c, m)
  BY <1>1, <1>2 DEF IsPacket, Encodable
<1> HIDE DEF m
<1>4. f \in Put /\ PutMessage(c, m) = <<f>>
  BY <1>3, MessageBytes DEF MessageField
<1>5. i \in Seq(Put) /\ z \in Seq(Put)
  BY <1>1, ItemsInOrder, ClosingBytes
<1>6. LeftAfter(c, its, tr, k) = (PutMessage(c, m) \o i) \o z
  BY <1>1, <1>2, ItemsInOrder DEF LeftAfter, PutItem, m
<1>7. LeftAfter(c, its, tr, k + 1) = i \o z
  BY DEF LeftAfter
<1> HIDE DEF f, i, z
<1>8. i \o z \in Seq(Put) /\ (<<f>> \o i) \o z = <<f>> \o (i \o z)
  BY <1>4, <1>5, FrontConcat
<1> QED BY <1>3, <1>4, <1>6, <1>7, <1>8 DEF f, m

(* After all items: the second count, and for TCP the sum.                 *)
LEMMA NextTail ==
  ASSUME NEW c, NEW its, IsPacket(c, its), NEW tr
  PROVE  /\ TailField(its) \in Put
         /\ LeftAfter(c, its, tr, Len(its))
              = <<TailField(its)>> \o IF tr = "tcp" THEN <<CrcField>> ELSE <<>>
         /\ <<CrcField>> \in Seq(Put)
<1>1. Len(its) \in Nat /\ c \in Codecs
  BY DEF IsPacket, Codecs
<1>2. TailField(its) \in Put /\ CrcField \in Put
  <2>1. 0 \in Nat
    OBVIOUS
  <2> QED BY <1>1, <2>1, SingleFields
<1> DEFINE z == Closing(its, tr)
<1>3. z \in Seq(Put)
  BY <1>1, ClosingBytes
<1>4. LeftAfter(c, its, tr, Len(its)) = <<>> \o z
  BY ItemsInOrder DEF LeftAfter
<1> HIDE DEF z
<1>5. <<>> \o z = z
  BY <1>3, ConcatEmptySeq
<1> QED BY <1>2, <1>4, <1>5 DEF z, Closing

(* Before a group: its count, its elements, the other groups.              *)
LEMMA NextGroup ==
  ASSUME NEW c \in DataCodecs, NEW s \in Seq(Elem), NEW g \in 1..GroupsOf(c),
         NEW rest \in Seq(Put)
  PROVE  /\ GroupField(c, InGroup(s, g)) \in Put
         /\ ElementFields(c, InGroup(s, g)) \in Seq(Put)
         /\ GroupsFrom(c, s, g + 1) \o rest \in Seq(Put)
         /\ ElementFields(c, InGroup(s, g)) \o (GroupsFrom(c, s, g + 1) \o rest) \in Seq(Put)
         /\ GroupsFrom(c, s, g) \o rest
              = <<GroupField(c, InGroup(s, g))>>
                  \o (ElementFields(c, InGroup(s, g)) \o (GroupsFrom(c, s, g + 1) \o rest))
<1> DEFINE u == InGroup(s, g)
           f == GroupField(c, u)
           a == ElementFields(c, u)
           b == GroupsFrom(c, s, g + 1)
           x == <<f>>
<1>1. g \in 1..5 /\ g + 1 \in 1..6
  BY DEF GroupsOf
<1>2. u \in Seq(Elem) /\ Len(u) \in Nat
  BY <1>1, GroupIsSeq DEF Size
<1>3. f \in Put
  <2> DEFINE n == Len(u)
  <2>1. n \in Nat /\ CountWidth(c) \in Nat
    BY <1>2 DEF CountWidth
  <2> HIDE DEF n
  <2> QED BY <2>1 DEF GroupField, Put, n
<1>4. a \in Seq(Put) /\ b \in Seq(Put)
  BY <1>1, <1>2, ElementFieldsAppend, GroupsInOrder
<1>5. GroupsFrom(c, s, g) = (<<f>> \o a) \o b
  BY <1>1, GroupsInOrder, GroupBytes DEF GroupField
<1> HIDE DEF f, a, b, u
<1>6. x \in Seq(Put)
  BY <1>3
<1>7. GroupsFrom(c, s, g) = Cat(Cat(x, a), b)
  BY <1>5 DEF Cat
<1> HIDE DEF x
<1>8. /\ Cat(x, a) \in Seq(Put) /\ Cat(b, rest) \in Seq(Put)
      /\ Cat(Cat(Cat(x, a), b), rest) = Cat(Cat(x, a), Cat(b, rest))
  BY <1>4, <1>6, CatAssociative
<1>9. /\ Cat(a, Cat(b, rest)) \in Seq(Put)
      /\ Cat(Cat(x, a), Cat(b, rest)) = Cat(x, Cat(a, Cat(b, rest)))
  BY <1>4, <1>6, <1>8, CatAssociative
<1>10. Cat(GroupsFrom(c, s, g), rest) = Cat(x, Cat(a, Cat(b, rest)))
  BY <1>7, <1>8, <1>9
<1>11. GroupsFrom(c, s, g) \o rest = x \o (a \o (b \o rest))
  BY <1>10 DEF Cat
<1>12. b \o rest \in Seq(Put) /\ a \o (b \o rest) \in Seq(Put)
  BY <1>8, <1>9 DEF Cat
<1> QED BY <1>3, <1>4, <1>11, <1>12 DEF f, a, b, u, x

(* A packet the encoder takes.                                             *)
LEMMA GivenIsPacket ==
  ASSUME NEW p \in Packets, Encodable(p.codec, p.items)
  PROVE  IsPacket(p.codec, p.items) /\ p # Foreign /\ ImeiLength \in Nat
<1>1. Elem = [id : Nat, len : Nat]
  BY DEF Elem
<1>2. CASE p \in DataPacket
  <2>1. p.codec \in DataCodecs /\ p.items \in Seq(DataRecord)
    BY <1>2, <1>1 DEF DataPacket, DataRecord
  <2>2. p.codec # "foreign"
    BY <2>1 DEF DataCodecs
  <2> QED BY <2>1, <2>2, RoundTripAssumption DEF IsPacket, Foreign
<1>3. CASE p \in CommandPacket
  <2>1. p.codec \in CommandCodecs /\ p.items \in Seq(DataMessage)
    BY <1>3 DEF CommandPacket, DataMessage
  <2>2. p.codec # "foreign"
    BY <2>1 DEF CommandCodecs
  <2> QED BY <2>1, <2>2, RoundTripAssumption DEF IsPacket, Foreign
<1> QED BY <1>2, <1>3, RoundTripAssumption

(* The first state satisfies the invariant.                                *)
LEMMA RoundTripInitInv == RoundTripInit => RoundTripInv
<1> SUFFICES ASSUME RoundTripInit PROVE RoundTripInv
  OBVIOUS
<1>1. DecoderInv /\ DecoderInit
  BY DecoderInitInv DEF RoundTripInit
<1>2. CASE given = Foreign /\ tape = <<>>
  BY <1>1, <1>2 DEF RoundTripInv
<1>3. CASE ~(given = Foreign /\ tape = <<>>)
  <2> DEFINE c == given.codec
             its == given.items
  <2>1. /\ given \in Packets /\ Encodable(c, its)
        /\ \/ transport = "tcp" /\ tape = EncodeTCP(c, its)
           \/ /\ transport = "udp" /\ UDPSize(c, its, ImeiLength) <= MaxLength
              /\ tape = EncodeUDP(c, its, ImeiLength)
    BY <1>3 DEF RoundTripInit
  <2>2. IsPacket(c, its) /\ given # Foreign /\ ImeiLength \in Nat
    BY <2>1, GivenIsPacket
  <2>3. /\ st = "frame" /\ size = 0 /\ pos = 0 /\ codec = "none" /\ items = <<>>
        /\ left = 0 /\ response = <<>>
    BY <1>1 DEF DecoderInit
  <2>4. TapeIs
    BY <2>1, <2>2, <2>3, FramesAre DEF TapeIs
  <2>5. PlaceIs
    BY <2>1, <2>3 DEF PlaceIs, Reading
  <2>6. GroupIs
    BY <2>3 DEF GroupIs
  <2>7. SizeIs
    BY <2>3 DEF SizeIs, MaxLength, Reading
  <2>8. RecordsAre /\ LastRecordIs /\ MessagesAre
    <3>1. Len(items) = 0 /\ items \in Seq(DataRecord) /\ items \in Seq(DecodedMessage)
      BY <2>3
    <3> QED BY <2>3, <3>1 DEF RecordsAre, LastRecordIs, MessagesAre, Complete
  <2> QED BY <2>2, <2>4, <2>5, <2>6, <2>7, <2>8 DEF RoundTripInv, GivenInv
<1> QED BY <1>2, <1>3

(* Each field of the tape fits, and takes its bytes.                       *)
LEMMA TakeFirst ==
  ASSUME GivenInv, st \in Reading, tape # <<>>, Bytes(Head(tape)) = Head(tape).w
  PROVE  /\ Head(tape) \in Put /\ Tail(tape) \in Seq(Put)
         /\ Fits(Head(tape)) /\ Bytes(Head(tape)) <= MaxLength + 4
         /\ Take(Head(tape)) /\ tape' = Tail(tape) =>
              /\ pos' \in Nat /\ UNCHANGED <<transport, size>>
              /\ tape' \in Seq(Put)
              /\ size' = pos' + BytesOf(tape')
<1>1. tape \in Seq(Put)
  BY DEF GivenInv, TapeIs
<1>2. /\ Head(tape) \in Put /\ Tail(tape) \in Seq(Put)
      /\ BytesOf(tape) = Head(tape).w + BytesOf(Tail(tape))
  BY <1>1, BytesRest
<1> DEFINE w == Head(tape).w
           n == BytesOf(Tail(tape))
<1>3. w \in Nat /\ n \in Nat
  BY <1>2, PutHasBytes, BytesAppend
<1>4. pos \in Nat /\ size \in Nat /\ size <= MaxLength + 4 /\ size = pos + BytesOf(tape)
  BY DEF GivenInv, SizeIs
<1>5. Fits(Head(tape)) /\ Bytes(Head(tape)) <= MaxLength + 4
  <2> HIDE DEF w, n
  <2>1. Bytes(Head(tape)) = w /\ BytesOf(tape) = w + n
    BY <1>2 DEF w, n
  <2> QED BY <1>3, <1>4, <2>1 DEF Fits, MaxLength
<1>6. ASSUME Take(Head(tape)), tape' = Tail(tape)
      PROVE  /\ pos' \in Nat /\ UNCHANGED <<transport, size>>
             /\ tape' \in Seq(Put)
             /\ size' = pos' + BytesOf(tape')
  <2>1. pos' = pos + w /\ UNCHANGED <<transport, size>>
    BY <1>6 DEF Take
  <2>2. BytesOf(tape') = n
    BY <1>6
  <2>3. BytesOf(tape) = w + n
    BY <1>2
  <2> HIDE DEF w, n
  <2> QED BY <1>2, <1>3, <1>4, <1>6, <2>1, <2>2, <2>3
<1> QED BY <1>2, <1>5, <1>6

(* What is the next field, and what are those behind it.                   *)
NextIs(f, rest) == f \in Put /\ rest \in Seq(Put) /\ tape = <<f>> \o rest

(* The next field is the one that is decoded.                              *)
LEMMA NextIsFirst ==
  ASSUME NEW f, NEW rest, NextIs(f, rest)
  PROVE  tape # <<>> /\ Head(tape) = f /\ Tail(tape) = rest
<1>1. <<f>> \o rest # <<>> /\ Head(<<f>> \o rest) = f /\ Tail(<<f>> \o rest) = rest
  BY FirstField DEF NextIs
<1> QED BY <1>1 DEF NextIs

(* The packet id and the IMEI of a UDP frame are of the size the encoder   *)
(* gives them.                                                             *)
LEMMA AtPrefix ==
  ASSUME GivenInv, ImeiLength \in Nat, st = "prefix"
  PROVE  /\ NextIs(PrefixField(ImeiLength),
                   PacketFields(given.codec, given.items, transport))
         /\ Bytes(PrefixField(ImeiLength)) = PrefixField(ImeiLength).w
<1> DEFINE c == given.codec
           its == given.items
<1>1. IsPacket(c, its) /\ Len(its) \in Nat /\ c \in Codecs
  BY DEF GivenInv, IsPacket, Codecs
<1>2. PrefixField(ImeiLength) \in Put
  <2>1. 0 \in Nat
    OBVIOUS
  <2> QED BY <1>1, <2>1, SingleFields
<1>3. PacketFields(c, its, transport) \in Seq(Put)
  BY <1>1, PacketBytes
<1>4. tape = <<PrefixField(ImeiLength)>> \o PacketFields(c, its, transport)
  BY DEF GivenInv, TapeIs
<1>5. Bytes(PrefixField(ImeiLength)) = PrefixField(ImeiLength).w
  BY DEF Bytes, PrefixField
<1> QED BY <1>2, <1>3, <1>4, <1>5 DEF NextIs

(* The field the decoder stands at is the encoder's, state by state: the   *)
(* codec and the first count,                                              *)
LEMMA AtHeader ==
  ASSUME GivenInv, st = "header"
  PROVE  /\ NextIs(HeaderField(given.codec, given.items),
                   LeftAfter(given.codec, given.items, transport, 0))
         /\ Bytes(HeaderField(given.codec, given.items)) = 2
<1> DEFINE c == given.codec
           its == given.items
<1>1. IsPacket(c, its) /\ Len(its) \in Nat /\ c \in Codecs
  BY DEF GivenInv, IsPacket, Codecs
<1>2. HeaderField(c, its) \in Put
  <2>1. 0 \in Nat
    OBVIOUS
  <2> QED BY <1>1, <2>1, SingleFields
<1>3. LeftAfter(c, its, transport, 0) \in Seq(Put)
  BY <1>1, PacketBytes
<1>4. tape = <<HeaderField(c, its)>> \o LeftAfter(c, its, transport, 0)
  BY DEF GivenInv, TapeIs, PacketFields
<1>5. Bytes(HeaderField(c, its)) = 2
  BY SMTT(30) DEF Bytes, HeaderField
<1> QED BY <1>2, <1>3, <1>4, <1>5 DEF NextIs

(* The record, or message, that comes next.                                *)
Upcoming == given.items[Len(items) + 1]

(* the head of the next record,                                            *)
LEMMA AtRecord ==
  ASSUME GivenInv, st = "record"
  PROVE  /\ Upcoming \in DataRecord /\ RecordOK(given.codec, Upcoming)
         /\ NextIs(RecordField(given.codec, Upcoming),
                   GroupsFrom(given.codec, Upcoming.elements, 1)
                     \o LeftAfter(given.codec, given.items, transport, Len(items) + 1))
         /\ Bytes(RecordField(given.codec, Upcoming)) = RecordField(given.codec, Upcoming).w
<1> DEFINE c == given.codec
           its == given.items
           k == Len(items)
<1>1. IsPacket(c, its) /\ c \in DataCodecs /\ k < Len(its) /\ items \in Seq(DataRecord)
      /\ codec = c
  BY DEF GivenInv, PlaceIs, RecordsAre
<1>2. k \in Nat
  BY <1>1
<1>3. tape = LeftAfter(c, its, transport, k)
  BY DEF GivenInv, TapeIs, Later
<1>4. Bytes(RecordField(c, Upcoming)) = RecordField(c, Upcoming).w
  BY <1>1 DEF Bytes, RecordField, EventBytes
<1> HIDE DEF c, its, k
<1>5. /\ its[k + 1] \in DataRecord /\ RecordOK(c, its[k + 1])
      /\ RecordField(c, its[k + 1]) \in Put
      /\ GroupsFrom(c, its[k + 1].elements, 1) \o LeftAfter(c, its, transport, k + 1) \in Seq(Put)
      /\ LeftAfter(c, its, transport, k)
           = <<RecordField(c, its[k + 1])>>
               \o (GroupsFrom(c, its[k + 1].elements, 1) \o LeftAfter(c, its, transport, k + 1))
  BY <1>1, <1>2, NextRecord
<1> QED BY <1>3, <1>4, <1>5 DEF NextIs, Upcoming, c, its, k

(* the next message, whose text takes what its declared size leaves,       *)
LEMMA AtMessage ==
  ASSUME GivenInv, st = "message"
  PROVE  /\ Upcoming \in DataMessage /\ MessageOK(given.codec, Upcoming)
         /\ NextIs(MessageField(given.codec, Upcoming),
                   LeftAfter(given.codec, given.items, transport, Len(items) + 1))
         /\ Bytes(MessageField(given.codec, Upcoming)) = MessageField(given.codec, Upcoming).w
         /\ TextBytes(codec, MessageField(given.codec, Upcoming).declared) = Upcoming.text
         /\ Extra(codec) = ExtraBytes(given.codec) /\ ExtraBytes(given.codec) \in Nat
<1> DEFINE c == given.codec
           its == given.items
           k == Len(items)
           m == Upcoming
<1>1. IsPacket(c, its) /\ c \in CommandCodecs /\ k < Len(its) /\ items \in Seq(DecodedMessage)
      /\ codec = c
  BY DEF GivenInv, PlaceIs, MessagesAre
<1>2. k \in Nat
  BY <1>1
<1>3. tape = LeftAfter(c, its, transport, k)
  BY DEF GivenInv, TapeIs, Later
<1>4. /\ its[k + 1] \in DataMessage /\ MessageOK(c, its[k + 1])
      /\ MessageField(c, its[k + 1]) \in Put
      /\ LeftAfter(c, its, transport, k + 1) \in Seq(Put)
      /\ LeftAfter(c, its, transport, k)
           = <<MessageField(c, its[k + 1])>> \o LeftAfter(c, its, transport, k + 1)
  <2> HIDE DEF c, its, k
  <2> QED BY <1>1, <1>2, NextMessage
<1>5. Extra(codec) = ExtraBytes(c) /\ ExtraBytes(c) \in Nat
  BY <1>1 DEF Extra, ExtraBytes, Timestamped, Addressed, CommandCodecs
<1>6. m.text \in Nat
  BY <1>4 DEF Upcoming, DataMessage
<1>7. TextBytes(codec, MessageField(c, m).declared) = m.text
  <2>1. MessageField(c, m).declared = m.text + ExtraBytes(c)
    BY DEF MessageField
  <2> QED BY <1>5, <1>6, <2>1 DEF TextBytes
<1>8. Bytes(MessageField(c, m)) = MessageField(c, m).w
  <2>1. /\ MessageField(c, m).kind = "message"
        /\ MessageField(c, m).w = 5 + ExtraBytes(c) + m.text
    BY DEF MessageField
  <2> DEFINE f == MessageField(c, m)
  <2> HIDE DEF f
  <2>2. f.kind = "message" => Bytes(f) = 5 + Extra(codec) + TextBytes(codec, f.declared)
    BY DEF Bytes
  <2> QED BY <1>5, <1>7, <2>1, <2>2 DEF f
<1> QED BY <1>3, <1>4, <1>5, <1>7, <1>8 DEF NextIs, Upcoming

(* the second count,                                                       *)
LEMMA AtTail ==
  ASSUME GivenInv, st = "tail"
  PROVE  /\ NextIs(TailField(given.items), IF transport = "tcp" THEN <<CrcField>> ELSE <<>>)
         /\ Bytes(TailField(given.items)) = TailField(given.items).w
<1> DEFINE c == given.codec
           its == given.items
<1>1. IsPacket(c, its) /\ Len(items) = Len(its)
  BY DEF GivenInv, PlaceIs
<1>2. tape = LeftAfter(c, its, transport, Len(items))
  BY DEF GivenInv, TapeIs, Later
<1>3. /\ TailField(its) \in Put
      /\ LeftAfter(c, its, transport, Len(its))
           = <<TailField(its)>> \o IF transport = "tcp" THEN <<CrcField>> ELSE <<>>
      /\ <<CrcField>> \in Seq(Put)
  BY <1>1, NextTail
<1>4. Bytes(TailField(its)) = TailField(its).w
  BY DEF Bytes, TailField
<1>5. <<>> \in Seq(Put)
  OBVIOUS
<1> QED BY <1>1, <1>2, <1>3, <1>4, <1>5 DEF NextIs

(* and the sum of a TCP frame.                                             *)
LEMMA AtCrc ==
  ASSUME GivenInv, st = "crc"
  PROVE  NextIs(CrcField, <<>>) /\ Bytes(CrcField) = CrcField.w
<1>1. IsPacket(given.codec, given.items) /\ tape = <<CrcField>>
  BY DEF GivenInv, TapeIs
<1>2. <<CrcField>> \in Seq(Put)
  BY <1>1, NextTail
<1>3. CrcField \in Put
  <2> DEFINE t == <<CrcField>>
  <2>1. t \in Seq(Put) /\ Len(t) = 1 /\ t[1] = CrcField
    BY <1>2
  <2> HIDE DEF t
  <2> QED BY <2>1
<1>4. <<CrcField>> \o <<>> = <<CrcField>> /\ <<>> \in Seq(Put)
  BY <1>2, ConcatEmptySeq
<1>5. Bytes(CrcField) = CrcField.w
  BY DEF Bytes, CrcField
<1> QED BY <1>1, <1>3, <1>4, <1>5 DEF NextIs

(* The record that is being decoded.                                       *)
LEMMA InRecord ==
  ASSUME GivenInv, st \in {"group", "element"}
  PROVE  /\ given.codec \in DataCodecs /\ codec = given.codec
         /\ items \in Seq(DataRecord) /\ given.items \in Seq(DataRecord)
         /\ Len(items) \in 1..Len(given.items) /\ Len(given.items) \in Nat
         /\ GivenElements \in Seq(Elem) /\ ElementsOK(given.codec, GivenElements)
         /\ group \in 1..GroupsOf(given.codec) /\ group \in 1..5 /\ group + 1 \in 1..6
         /\ Later \in Seq(Put)
<1> DEFINE c == given.codec
           its == given.items
           k == Len(items)
<1>1. /\ IsPacket(c, its) /\ c \in DataCodecs /\ codec = c /\ items \in Seq(DataRecord)
      /\ k \in 1..Len(its) /\ group \in 1..GroupsOf(c)
  BY DEF GivenInv, PlaceIs, GroupIs, RecordsAre
<1>2. its \in Seq(DataRecord) /\ ~IsCommandCodec(c) /\ Len(its) \in Nat
  BY <1>1 DEF IsPacket, DataCodecs, CommandCodecs, IsCommandCodec
<1>3. its[k] \in DataRecord /\ RecordOK(c, its[k])
  BY <1>1, <1>2 DEF IsPacket, Encodable
<1>4. its[k].elements \in Seq(Elem) /\ ElementsOK(c, its[k].elements)
  BY <1>3 DEF DataRecord, RecordOK, ElementsOK
<1>5. group \in 1..5 /\ group + 1 \in 1..6
  BY <1>1 DEF GroupsOf
<1>6. LeftAfter(c, its, transport, k) \in Seq(Put)
  <2>1. k \in 0..Len(its)
    BY <1>1, <1>2
  <2> HIDE DEF c, its, k
  <2> QED BY <1>1, <2>1, LeftIsSeq
<1> QED BY <1>1, <1>2, <1>4, <1>5, <1>6 DEF GivenElements, Later

(* The elements of the group that is being decoded.                        *)
TheGroup == InGroup(GivenElements, group)

(* In a record, the count of a group,                                      *)
LEMMA AtGroup ==
  ASSUME GivenInv, st = "group"
  PROVE  /\ TheGroup \in Seq(Elem)
         /\ NextIs(GroupField(given.codec, TheGroup),
                   ElementFields(given.codec, TheGroup)
                     \o (GroupsFrom(given.codec, GivenElements, group + 1) \o Later))
         /\ Bytes(GroupField(given.codec, TheGroup)) = GroupField(given.codec, TheGroup).w
<1> DEFINE c == given.codec
           s == GivenElements
           u == TheGroup
<1>1. /\ c \in DataCodecs /\ codec = c /\ s \in Seq(Elem) /\ group \in 1..GroupsOf(c)
      /\ Later \in Seq(Put)
  BY InRecord
<1>2. tape = GroupsFrom(c, s, group) \o Later
  BY DEF GivenInv, TapeIs
<1>3. Bytes(GroupField(c, u)) = GroupField(c, u).w
  BY <1>1 DEF Bytes, GroupField, CountBytes, CountWidth
<1>4. u \in Seq(Elem)
  BY <1>1, GroupIsSeq DEF TheGroup
<1> HIDE DEF c, s
<1>5. /\ GroupField(c, InGroup(s, group)) \in Put
      /\ ElementFields(c, InGroup(s, group)) \o (GroupsFrom(c, s, group + 1) \o Later) \in Seq(Put)
      /\ GroupsFrom(c, s, group) \o Later
           = <<GroupField(c, InGroup(s, group))>>
               \o (ElementFields(c, InGroup(s, group)) \o (GroupsFrom(c, s, group + 1) \o Later))
  BY <1>1, NextGroup
<1> QED BY <1>2, <1>3, <1>4, <1>5 DEF NextIs, TheGroup, c, s

(* and an element, with a value of the width of its group.                 *)
LEMMA AtElement ==
  ASSUME GivenInv, st = "element"
  PROVE  /\ TheGroup \in Seq(Elem) /\ TheGroup[InThisGroup + 1] \in Elem
         /\ InThisGroup \in 0..(Len(TheGroup) - 1) /\ Len(TheGroup) \in Nat
         /\ NextIs(PutElement(given.codec, TheGroup[InThisGroup + 1]),
                   FieldsAfter(given.codec, TheGroup, InThisGroup + 1)
                     \o (GroupsFrom(given.codec, GivenElements, group + 1) \o Later))
         /\ Bytes(PutElement(given.codec, TheGroup[InThisGroup + 1]))
              = PutElement(given.codec, TheGroup[InThisGroup + 1]).w
         /\ group <= 4 => TheGroup[InThisGroup + 1].len = ValueBytes(group)
<1> DEFINE c == given.codec
           s == GivenElements
           u == TheGroup
           m == InThisGroup
           e == u[m + 1]
           a == FieldsAfter(c, u, m + 1)
           b == GroupsFrom(c, s, group + 1)
           rest == b \o Later
<1>1. /\ c \in DataCodecs /\ codec = c /\ s \in Seq(Elem) /\ group \in 1..GroupsOf(c)
      /\ Later \in Seq(Put) /\ group \in 1..5 /\ group + 1 \in 1..6
  BY InRecord
<1>2. tape = FieldsAfter(c, u, m) \o rest
  BY DEF GivenInv, TapeIs, TheGroup
<1>3. u \in Seq(Elem) /\ Size(s, group) = Len(u) /\ Len(u) \in Nat
  BY <1>1, GroupIsSeq DEF TheGroup, Size
<1>4. m \in 0..(Len(u) - 1)
  BY <1>3 DEF GivenInv, GroupIs
<1>5. m + 1 \in 1..Len(u)
  <2> HIDE DEF u, m
  <2> QED BY <1>3, <1>4
<1>6. e \in Elem /\ e.len \in Lens(group) /\ e.len \in Nat
  <2>1. \A i \in 1..Len(u) : u[i].len \in Lens(group)
    BY <1>1, ChosenHave DEF InGroup, TheGroup
  <2> HIDE DEF u, m
  <2>2. e \in Elem
    BY <1>3, <1>5
  <2> QED BY <1>5, <2>1, <2>2 DEF Elem
<1>7. b \in Seq(Put) /\ rest \in Seq(Put)
  <2>1. b \in Seq(Put)
    BY <1>1, GroupsInOrder
  <2> HIDE DEF b
  <2> QED BY <1>1, <2>1, ConcatProperties
<1> HIDE DEF e, u, m, a, rest, b
<1>8. /\ a \in Seq(Put) /\ PutElement(c, e) \in Put
      /\ FieldsAfter(c, u, m) = <<PutElement(c, e)>> \o a
  BY <1>3, <1>4, NextElement DEF e, a
<1>9. a \o rest \in Seq(Put) /\ (<<PutElement(c, e)>> \o a) \o rest
                                  = <<PutElement(c, e)>> \o (a \o rest)
  <2> DEFINE f == PutElement(c, e)
  <2>1. f \in Put
    BY <1>8
  <2> HIDE DEF f
  <2>2. a \o rest \in Seq(Put) /\ (<<f>> \o a) \o rest = <<f>> \o (a \o rest)
    BY <1>7, <1>8, <2>1, FrontConcat
  <2> QED BY <2>2 DEF f
<1>10. NextIs(PutElement(c, e), a \o rest)
  BY <1>2, <1>8, <1>9 DEF NextIs
<1>11. group = 5 <=> e.len \notin FixedWidths
  <2>1. group = 1 \/ group = 2 \/ group = 3 \/ group = 4 \/ group = 5
    BY <1>1
  <2> QED BY <1>6, <2>1 DEF Lens, FixedWidths
<1>12. Bytes(PutElement(c, e)) = PutElement(c, e).w
  <2>1. Bytes(PutElement(c, e)) = IdBytes + LengthBytes + e.len
    BY DEF Bytes, PutElement
  <2>2. PutElement(c, e).w
          = (IF c = "8" THEN 1 ELSE 2) + (IF e.len \in FixedWidths THEN 0 ELSE 2) + e.len
    BY DEF PutElement
  <2> QED BY <1>1, <1>6, <1>11, <2>1, <2>2 DEF IdBytes, LengthBytes
<1>13. group <= 4 => e.len = ValueBytes(group)
  <2>1. group = 1 \/ group = 2 \/ group = 3 \/ group = 4 \/ group = 5
    BY <1>1
  <2> QED BY <1>6, <2>1 DEF Lens, ValueBytes
<1> QED BY <1>3, <1>4, <1>6, <1>10, <1>12, <1>13 DEF e, u, m, a, rest, b

(* Which actions can take the field that the decoder stands at.            *)
LEMMA StepAt ==
  ASSUME NEW f, Decode(f)
  PROVE  /\ f.kind = st /\ st \in Reading \cup {"frame"}
         /\ st = "frame" => OpenFrame(f) \/ RefuseFrame(f) \/ FrameEndsInHeader(f)
         /\ st \in Reading /\ Fits(f) =>
              /\ st = "prefix" => ReadPrefix(f)
              /\ st = "header" => ReadHeader(f) \/ UnknownCodec(f)
              /\ st = "record" => ReadRecord(f) \/ BadGeneration(f)
              /\ st = "group" => ReadGroup(f)
              /\ st = "element" => ReadElement(f) \/ TooManyElements(f)
              /\ st = "message" => ReadMessage(f) \/ BadMessageType(f)
              /\ st = "tail" => ReadTail(f) \/ CountsDiffer(f)
              /\ st = "crc" => ReadCrc(f) \/ BadCrc(f)
<1>1. /\ OpenFrame(f) \/ RefuseFrame(f) \/ FrameEndsInHeader(f) => st = "frame"
      /\ ReadPrefix(f) => st = "prefix"
      /\ ReadHeader(f) \/ UnknownCodec(f) => st = "header"
      /\ ReadRecord(f) \/ BadGeneration(f) => st = "record"
      /\ ReadGroup(f) => st = "group"
      /\ ReadElement(f) \/ TooManyElements(f) => st = "element"
      /\ ReadMessage(f) \/ BadMessageType(f) => st = "message"
      /\ ReadTail(f) \/ CountsDiffer(f) => st = "tail"
      /\ ReadCrc(f) \/ BadCrc(f) => st = "crc"
  BY DEF OpenFrame, RefuseFrame, FrameEndsInHeader, ReadPrefix, ReadHeader, UnknownCodec,
     ReadRecord, BadGeneration, ReadGroup, ReadElement, TooManyElements, ReadMessage,
     BadMessageType, ReadTail, CountsDiffer, ReadCrc, BadCrc
<1>2. f.kind = st
  BY DEF Decode
<1>3. EndOfInput(f) => st \in Reading /\ ~Fits(f)
  BY DEF EndOfInput
<1>4. \/ OpenFrame(f) \/ RefuseFrame(f) \/ FrameEndsInHeader(f)
      \/ EndOfInput(f)
      \/ ReadPrefix(f) \/ ReadHeader(f) \/ UnknownCodec(f)
      \/ ReadRecord(f) \/ BadGeneration(f) \/ ReadGroup(f)
      \/ ReadElement(f) \/ TooManyElements(f)
      \/ ReadMessage(f) \/ BadMessageType(f)
      \/ ReadTail(f) \/ CountsDiffer(f) \/ ReadCrc(f) \/ BadCrc(f)
  BY DEF Decode
<1>5. "frame" \notin Reading
  BY DEF Reading
<1>6. st \in Reading \cup {"frame"}
  BY <1>1, <1>3, <1>4 DEF Reading
<1> QED BY <1>1, <1>2, <1>3, <1>4, <1>5, <1>6

(* The next field is decoded, and its bytes are those that are left out.   *)
LEMMA FieldTaken ==
  ASSUME GivenInv, st \in Reading, NEW f, NEW rest, NextIs(f, rest), Bytes(f) = f.w
  PROVE  /\ Fits(f) /\ Bytes(f) <= MaxLength + 4
         /\ DecodeGiven => Decode(f) /\ tape' = rest /\ rest \in Seq(Put) /\ UNCHANGED given
         /\ Take(f) /\ tape' = rest /\ st' # "frame" =>
              SizeIs' /\ UNCHANGED <<transport, size>>
<1>1. tape # <<>> /\ Head(tape) = f /\ Tail(tape) = rest /\ rest \in Seq(Put)
  BY NextIsFirst DEF NextIs
<1>2. /\ Fits(f) /\ Bytes(f) <= MaxLength + 4
      /\ Take(f) /\ tape' = rest =>
           /\ pos' \in Nat /\ UNCHANGED <<transport, size>>
           /\ size' = pos' + BytesOf(tape')
  BY <1>1, TakeFirst
<1>3. DecodeGiven => Decode(f) /\ tape' = rest /\ UNCHANGED given
  BY <1>1 DEF DecodeGiven
<1>4. size \in Nat /\ size <= MaxLength + 4
  BY DEF GivenInv, SizeIs
<1>5. ASSUME Take(f), tape' = rest, st' # "frame"
      PROVE  SizeIs' /\ UNCHANGED <<transport, size>>
  <2>1. /\ pos' \in Nat /\ UNCHANGED <<transport, size>>
        /\ size' = pos' + BytesOf(tape') /\ size' = size
    BY <1>2, <1>5
  <2> QED BY <1>4, <1>5, <2>1 DEF SizeIs
<1> QED BY <1>1, <1>2, <1>3, <1>5

(* The header of the frame: the decoder opens what the encoder sends,      *)
(* unless it is longer than it takes.                                      *)
LEMMA AtFrame ==
  ASSUME GivenInv, ImeiLength \in Nat, st = "frame"
  PROVE  \E length, w, rest :
           /\ NextIs(FrameField(length, w), rest)
           /\ length \in Nat
           /\ \/ /\ transport = "tcp"
                 /\ length = DataSize(given.codec, given.items, 3)
                 /\ rest = PacketFields(given.codec, given.items, transport)
                 /\ BytesOf(rest) = length + 4
              \/ /\ transport = "udp"
                 /\ length >= 3 /\ length <= MaxLength
                 /\ rest = <<PrefixField(ImeiLength)>>
                             \o PacketFields(given.codec, given.items, transport)
                 /\ BytesOf(rest) = length - 3
<1> DEFINE c == given.codec
           its == given.items
           n == ImeiLength
<1>1. IsPacket(c, its) /\ Len(its) \in Nat /\ c \in Codecs
  BY DEF GivenInv, IsPacket, Codecs
<1>2. CASE transport = "tcp"
  <2> DEFINE l == DataSize(c, its, 3)
             p == PacketFields(c, its, "tcp")
  <2>1. tape = <<FrameField(l, 8)>> \o p
    BY <1>2 DEF GivenInv, TapeIs
  <2>2. l \in Nat /\ BytesOf(p) = l + 4
    <3> HIDE DEF n
    <3> QED BY <1>1, FramesAre
  <2>3. p \in Seq(Put)
    BY <1>1, PacketBytes
  <2>4. FrameField(l, 8) \in Put
    BY <2>2 DEF FrameField, Put
  <2>5. NextIs(FrameField(l, 8), p)
    BY <2>1, <2>3, <2>4 DEF NextIs
  <2> HIDE DEF c, its, l
  <2>6. p = PacketFields(c, its, transport)
    BY <1>2
  <2> HIDE DEF p
  <2>7. l = DataSize(given.codec, given.items, 3)
        /\ p = PacketFields(given.codec, given.items, transport)
    BY <2>6 DEF l, c, its
  <2> QED BY <1>2, <2>2, <2>5, <2>7
<1>3. CASE transport = "udp"
  <2> DEFINE l == UDPSize(c, its, n) - 2
             p == <<PrefixField(n)>> \o PacketFields(c, its, "udp")
  <2>1. tape = <<FrameField(l, 5)>> \o p /\ UDPSize(c, its, n) <= MaxLength
    BY <1>3 DEF GivenInv, TapeIs
  <2>2. l \in Nat /\ l >= 3 /\ BytesOf(p) = l - 3 /\ p \in Seq(Put)
    BY <1>1, FramesAre
  <2>3. FrameField(l, 5) \in Put
    BY <2>2 DEF FrameField, Put
  <2>4. NextIs(FrameField(l, 5), p)
    BY <2>1, <2>2, <2>3 DEF NextIs
  <2>5. l <= MaxLength
    <3> DEFINE x == UDPSize(c, its, n)
    <3>1. x <= MaxLength /\ x \in Nat
      BY <1>1, <2>1, FramesAre
    <3> HIDE DEF x
    <3>2. x - 2 <= MaxLength
      BY <3>1 DEF MaxLength
    <3> QED BY <3>2 DEF x
  <2>6. p = <<PrefixField(ImeiLength)>> \o PacketFields(given.codec, given.items, transport)
    BY <1>3
  <2> HIDE DEF l, p
  <2> QED BY <1>3, <2>2, <2>4, <2>5, <2>6
<1> QED BY <1>2, <1>3 DEF GivenInv, PlaceIs

(* The frame is opened, or refused for its length.                         *)
LEMMA FrameStep ==
  ASSUME GivenInv, ImeiLength \in Nat, st = "frame", DecodeGiven
  PROVE  GivenInv'
<1>1. PICK length, w, rest :
        /\ NextIs(FrameField(length, w), rest)
        /\ length \in Nat
        /\ \/ /\ transport = "tcp"
              /\ length = DataSize(given.codec, given.items, 3)
              /\ rest = PacketFields(given.codec, given.items, transport)
              /\ BytesOf(rest) = length + 4
           \/ /\ transport = "udp"
              /\ length >= 3 /\ length <= MaxLength
              /\ rest = <<PrefixField(ImeiLength)>>
                          \o PacketFields(given.codec, given.items, transport)
              /\ BytesOf(rest) = length - 3
  BY AtFrame
<1> DEFINE f == FrameField(length, w)
<1>2. f.zero = TRUE /\ f.whole = TRUE /\ f.length = length
  BY DEF FrameField
<1> HIDE DEF f
<1>3. Decode(f) /\ tape' = rest /\ given' = given /\ rest \in Seq(Put)
  BY <1>1, NextIsFirst DEF DecodeGiven, NextIs, f
<1>4. /\ IsPacket(given.codec, given.items)
      /\ codec = "none" /\ items = <<>> /\ left = 0
      /\ pos = 0 /\ size = 0
  BY DEF GivenInv, PlaceIs, SizeIs
<1>5. UNCHANGED <<transport, pos, codec, count, items, filled, group, left, response>>
      /\ \/ transport = "tcp" /\ length <= MaxLength /\ size' = length + 4 /\ st' = "header"
         \/ transport = "udp" /\ size' = length - 3 /\ st' = "prefix"
         \/ transport = "tcp" /\ length > MaxLength /\ size' = size /\ st' = "rejected"
  <2>1. OpenFrame(f) \/ RefuseFrame(f) \/ FrameEndsInHeader(f)
    BY <1>3, StepAt
  <2>2. transport = "udp" => length >= 3 /\ ~(length > MaxLength) /\ ~(length < 3)
    BY <1>1 DEF MaxLength
  <2>3. CASE OpenFrame(f)
    BY <1>1, <1>2, <2>3 DEF OpenFrame
  <2>4. CASE RefuseFrame(f)
    BY <1>1, <1>2, <2>2, <2>4 DEF RefuseFrame, Reject, End
  <2>5. CASE FrameEndsInHeader(f)
    BY <1>2, <2>2, <2>5 DEF FrameEndsInHeader
  <2> QED BY <2>1, <2>3, <2>4, <2>5
<1>6. TapeIs'
  BY <1>1, <1>3, <1>5 DEF TapeIs
<1>7. PlaceIs'
  BY <1>1, <1>3, <1>4, <1>5 DEF PlaceIs, Reading
<1>8. GroupIs'
  BY <1>5 DEF GroupIs
<1>9. SizeIs'
  <2>1. pos' = 0 /\ BytesOf(tape') = BytesOf(rest) /\ pos' \in Nat
    BY <1>3, <1>4, <1>5
  <2>2. CASE st' = "rejected"
    BY <1>4, <1>5, <2>1, <2>2 DEF SizeIs, Reading, MaxLength
  <2>3. CASE st' # "rejected"
    <3>1. \/ size' = length + 4 /\ BytesOf(rest) = length + 4 /\ length <= MaxLength
          \/ size' = length - 3 /\ BytesOf(rest) = length - 3 /\ length >= 3
             /\ length <= MaxLength
      BY <1>1, <1>5, <2>3
    <3>2. size' \in Nat /\ size' <= MaxLength + 4 /\ size' = pos' + BytesOf(rest)
      BY <1>1, <2>1, <3>1 DEF MaxLength
    <3>3. st' # "frame"
      BY <1>5
    <3> QED BY <2>1, <3>2, <3>3 DEF SizeIs
  <2> QED BY <2>2, <2>3
<1>10. (RecordsAre /\ LastRecordIs /\ MessagesAre)'
  <2>1. items' = <<>> /\ Len(items') = 0 /\ items' \in Seq(DataRecord)
        /\ items' \in Seq(DecodedMessage)
    BY <1>4, <1>5
  <2>2. Complete' = 0
    BY <1>5, <2>1 DEF Complete
  <2> QED BY <1>5, <2>1, <2>2 DEF RecordsAre, LastRecordIs, MessagesAre
<1> QED BY <1>3, <1>4, <1>6, <1>7, <1>8, <1>9, <1>10 DEF GivenInv

(* The packet id and IMEI of a UDP frame are passed over.                  *)
LEMMA PrefixStep ==
  ASSUME GivenInv, ImeiLength \in Nat, st = "prefix", DecodeGiven
  PROVE  GivenInv'
<1> DEFINE f == PrefixField(ImeiLength)
           rest == PacketFields(given.codec, given.items, transport)
<1>1. NextIs(f, rest) /\ Bytes(f) = f.w
  BY AtPrefix
<1> HIDE DEF f, rest
<1>2. st \in Reading
  BY DEF Reading
<1>3. /\ Fits(f) /\ Decode(f) /\ tape' = rest /\ rest \in Seq(Put) /\ UNCHANGED given
      /\ Take(f) /\ st' # "frame" => SizeIs' /\ UNCHANGED <<transport, size>>
  BY <1>1, <1>2, FieldTaken
<1>4. ReadPrefix(f)
  BY <1>2, <1>3, StepAt
<1>5. st' = "header" /\ UNCHANGED <<codec, count, items, filled, group, left, response>>
      /\ Take(f)
  BY <1>4 DEF ReadPrefix
<1>6. SizeIs' /\ UNCHANGED <<transport, size>>
  BY <1>3, <1>5
<1>7. /\ IsPacket(given.codec, given.items)
      /\ codec = "none" /\ items = <<>> /\ left = 0 /\ transport \in {"tcp", "udp"}
  BY DEF GivenInv, PlaceIs
<1>8. TapeIs'
  BY <1>3, <1>5, <1>6 DEF TapeIs, rest
<1>9. PlaceIs'
  BY <1>5, <1>6, <1>7 DEF PlaceIs, Reading
<1>10. GroupIs'
  BY <1>5 DEF GroupIs
<1>11. (RecordsAre /\ LastRecordIs /\ MessagesAre)'
  <2>1. items' = <<>> /\ Len(items') = 0 /\ items' \in Seq(DataRecord)
        /\ items' \in Seq(DecodedMessage)
    BY <1>5, <1>7
  <2>2. Complete' = 0
    BY <1>5, <2>1 DEF Complete
  <2> QED BY <1>5, <2>1, <2>2 DEF RecordsAre, LastRecordIs, MessagesAre
<1> QED BY <1>3, <1>6, <1>7, <1>8, <1>9, <1>10, <1>11 DEF GivenInv

(* The codec and the number of items are those of the packet.              *)
LEMMA HeaderStep ==
  ASSUME GivenInv, st = "header", DecodeGiven
  PROVE  GivenInv'
<1> DEFINE c == given.codec
           its == given.items
           f == HeaderField(c, its)
           rest == LeftAfter(c, its, transport, 0)
<1>1. NextIs(f, rest) /\ Bytes(f) = f.w
  BY AtHeader DEF HeaderField
<1>2. f.codec = c /\ f.count = Len(its)
  BY DEF HeaderField
<1>3. /\ IsPacket(c, its) /\ c \in Codecs /\ Len(its) \in Nat
      /\ c \in DataCodecs => c \notin CommandCodecs
      /\ c \notin DataCodecs => c \in CommandCodecs
      /\ items = <<>> /\ left = 0 /\ transport \in {"tcp", "udp"}
  BY DEF GivenInv, PlaceIs, IsPacket, Codecs, DataCodecs, CommandCodecs
<1> HIDE DEF f, rest, c, its
<1>4. st \in Reading
  BY DEF Reading
<1>5. /\ Fits(f) /\ Decode(f) /\ tape' = rest /\ rest \in Seq(Put) /\ UNCHANGED given
      /\ Take(f) /\ st' # "frame" => SizeIs' /\ UNCHANGED <<transport, size>>
  BY <1>1, <1>4, FieldTaken
<1>6. ReadHeader(f)
  BY <1>2, <1>3, <1>4, <1>5, StepAt DEF UnknownCodec
<1>7. /\ Take(f) /\ codec' = c /\ count' = Len(its)
      /\ st' = IF 0 < Len(its) THEN IF c \in DataCodecs THEN "record" ELSE "message"
                               ELSE "tail"
      /\ UNCHANGED <<items, filled, group, left, response>>
  BY <1>2, <1>6 DEF ReadHeader, AfterItem
<1>8. SizeIs' /\ UNCHANGED <<transport, size>>
  BY <1>5, <1>7
<1>9. /\ items' = <<>> /\ Len(items') = 0 /\ items' \in Seq(DataRecord)
      /\ items' \in Seq(DecodedMessage)
      /\ c' = c /\ its' = its /\ given'.codec = c /\ given'.items = its
  BY <1>3, <1>5, <1>7 DEF c, its
<1>10. TapeIs'
  <2>1. Later' = rest
    BY <1>8, <1>9 DEF Later, rest
  <2> QED BY <1>5, <1>7, <2>1 DEF TapeIs
<1>11. PlaceIs'
  <2>1. Len(its) = 0 \/ 0 < Len(its)
    BY <1>3
  <2> QED BY <1>3, <1>7, <1>8, <1>9, <2>1 DEF PlaceIs, Reading
<1>12. GroupIs'
  BY <1>7 DEF GroupIs
<1>13. (RecordsAre /\ LastRecordIs /\ MessagesAre)'
  <2>1. Complete' = 0
    BY <1>7, <1>9 DEF Complete
  <2> QED BY <1>7, <1>9, <2>1 DEF RecordsAre, LastRecordIs, MessagesAre
<1> QED BY <1>3, <1>8, <1>9, <1>10, <1>11, <1>12, <1>13 DEF GivenInv

(* The head of a record: nothing of it but the number of its elements.     *)
LEMMA RecordStep ==
  ASSUME GivenInv, st = "record", DecodeGiven
  PROVE  GivenInv'
<1> DEFINE c == given.codec
           its == given.items
           k == Len(items)
           r == Upcoming
           f == RecordField(c, r)
           rest == GroupsFrom(c, r.elements, 1) \o LeftAfter(c, its, transport, k + 1)
           d == [event |-> r.event, gen |-> IF c = "16" THEN r.gen ELSE Unknown,
                 elements |-> [i \in 1..Len(r.elements) |-> NoElement]]
<1>1. NextIs(f, rest) /\ Bytes(f) = f.w /\ r \in DataRecord /\ RecordOK(c, r)
  BY AtRecord
<1>2. /\ f.event = r.event /\ f.gen = r.gen /\ f.total = Len(r.elements)
  BY DEF RecordField
<1>3. /\ IsPacket(c, its) /\ c \in DataCodecs /\ c \notin CommandCodecs /\ c \in Codecs
      /\ codec = c /\ count = Len(its) /\ Len(its) \in Nat
      /\ items \in Seq(DataRecord) /\ k < Len(its) /\ k \in Nat
      /\ left = 0 /\ transport \in {"tcp", "udp"}
      /\ \A i \in 1..k : RecordDone(c, its[i], items[i])
  <2>1. /\ IsPacket(c, its) /\ c \in DataCodecs /\ codec = c /\ count = Len(its)
        /\ items \in Seq(DataRecord) /\ k < Len(its)
        /\ left = 0 /\ transport \in {"tcp", "udp"}
        /\ \A i \in 1..k : RecordDone(c, its[i], items[i])
    BY DEF GivenInv, PlaceIs, RecordsAre, Complete
  <2> QED BY <2>1 DEF IsPacket, DataCodecs, CommandCodecs, Codecs
<1>4. c = "16" => r.gen <= 7
  BY <1>1 DEF RecordOK
<1>5. r.event \in Nat /\ r.gen \in Nat /\ r.elements \in Seq(Elem) /\ Len(r.elements) \in Nat
  BY <1>1 DEF DataRecord
<1>6. its[k + 1] = r
  BY DEF Upcoming
<1>7. d \in DataRecord /\ Len(d.elements) = Len(r.elements)
  <2>1. NoElement \in Elem
    BY DEF NoElement, Elem
  <2>2. [i \in 1..Len(r.elements) |-> NoElement] \in Seq(Elem)
    BY <1>5, <2>1, IsASeq
  <2>3. (IF c = "16" THEN r.gen ELSE Unknown) \in Nat
    BY <1>5 DEF Unknown
  <2> HIDE DEF c
  <2> QED BY <1>5, <2>2, <2>3 DEF DataRecord
<1>8. d.event = r.event /\ d.gen = IF c = "16" THEN r.gen ELSE Unknown
  OBVIOUS
<1> HIDE DEF f, rest
<1>9. st \in Reading
  BY DEF Reading
<1>10. /\ Fits(f) /\ Decode(f) /\ tape' = rest /\ rest \in Seq(Put) /\ UNCHANGED given
       /\ Take(f) /\ st' # "frame" => SizeIs' /\ UNCHANGED <<transport, size>>
  BY <1>1, <1>9, FieldTaken
<1>11. ReadRecord(f)
  <2>1. ReadRecord(f) \/ BadGeneration(f)
    BY <1>9, <1>10, StepAt
  <2> HIDE DEF c, r
  <2>2. ~BadGeneration(f)
    BY <1>2, <1>3, <1>4, <1>5 DEF BadGeneration
  <2> QED BY <2>1, <2>2
<1>12. /\ Take(f) /\ items' = Append(items, d) /\ filled' = 0 /\ group' = 1 /\ st' = "group"
       /\ UNCHANGED <<codec, count, left, response>>
  BY <1>2, <1>3, <1>11 DEF ReadRecord
<1>13. SizeIs' /\ UNCHANGED <<transport, size>>
  BY <1>10, <1>12
<1> HIDE DEF d, r, c, its, k
<1>14. /\ items' \in Seq(DataRecord) /\ Len(items') = k + 1
       /\ items'[k + 1] = d
       /\ \A i \in 1..k : items'[i] = items[i]
  <2>1. k = Len(items)
    BY DEF k
  <2> QED BY <1>3, <1>7, <1>12, <2>1, AppendProperties
<1>15. given' = given /\ given'.codec = c /\ given'.items = its
  BY <1>10 DEF c, its
<1>16. GivenElements' = r.elements /\ Later' = LeftAfter(c, its, transport, k + 1)
  BY <1>6, <1>13, <1>14, <1>15 DEF GivenElements, Later
<1>17. TapeIs'
  <2>1. tape' = GroupsFrom(c, r.elements, 1) \o LeftAfter(c, its, transport, k + 1)
        /\ tape' \in Seq(Put)
    BY <1>10 DEF rest, c, its, k, r
  <2> QED BY <1>12, <1>15, <1>16, <2>1 DEF TapeIs
<1>18. PlaceIs'
  <2>1. k + 1 \in 1..Len(its)
    BY <1>3
  <2> QED BY <1>3, <1>12, <1>13, <1>14, <1>15, <2>1 DEF PlaceIs, Reading
<1>19. GroupIs'
  <2>1. 1 \in 1..GroupsOf(c)
    BY DEF GroupsOf
  <2>2. Before(r.elements, 1) = 0
    BY DEF Before
  <2> QED BY <1>12, <1>15, <1>16, <2>1, <2>2 DEF GroupIs
<1>20. RecordsAre'
  <2>1. Complete' = k
    BY <1>3, <1>12, <1>14 DEF Complete
  <2> QED BY <1>3, <1>14, <1>15, <2>1 DEF RecordsAre
<1>21. LastRecordIs'
  <2>1. RecordSoFar(c, r, d, 0)
    BY <1>7, <1>8 DEF RecordSoFar
  <2> QED BY <1>6, <1>12, <1>14, <1>15, <2>1 DEF LastRecordIs
<1>22. MessagesAre'
  BY <1>3, <1>15 DEF MessagesAre
<1> QED BY <1>3, <1>13, <1>15, <1>17, <1>18, <1>19, <1>20, <1>21, <1>22 DEF GivenInv

(* No group begins behind the elements of the record, and a record of the  *)
(* encoder's is complete after its last group.                             *)
LEMMA GroupsBound ==
  ASSUME NEW c \in DataCodecs, NEW s \in Seq(Elem), ElementsOK(c, s)
  PROVE  /\ Len(s) \in Nat /\ Grouped(s) \in Seq(Elem) /\ Len(Grouped(s)) = Len(s)
         /\ Before(s, GroupsOf(c) + 1) = Len(s)
         /\ \A g \in 1..6 : Before(s, g) \in Nat /\ Before(s, g) <= Len(s)
         /\ \A g \in 1..5 : /\ Size(s, g) \in Nat
                            /\ Before(s, g + 1) = Before(s, g) + Size(s, g)
<1>1. /\ \A g \in 1..6 : Before(s, g) \in Nat
      /\ \A g \in 1..5 : Before(s, g + 1) = Before(s, g) + Size(s, g)
      /\ Before(s, 6) = GroupsLength(s)
  BY GroupedInOrder
<1>2. \A g \in 1..5 : Size(s, g) \in Nat
  BY GroupIsSeq
<1>3. GroupsLength(s) = Len(s) /\ Len(s) \in Nat
  <2>1. 0 \in Nat
    OBVIOUS
  <2> QED BY <2>1, ElementsAddUp
<1>4. Grouped(s) \in Seq(Elem) /\ Len(Grouped(s)) = Len(s)
  BY <1>3, GroupedAt
<1>5. /\ Before(s, 1) <= Before(s, 2) /\ Before(s, 2) <= Before(s, 3)
      /\ Before(s, 3) <= Before(s, 4) /\ Before(s, 4) <= Before(s, 5)
      /\ Before(s, 5) <= Before(s, 6)
  <2>1. /\ Before(s, 2) = Before(s, 1) + Size(s, 1) /\ Before(s, 3) = Before(s, 2) + Size(s, 2)
        /\ Before(s, 4) = Before(s, 3) + Size(s, 3) /\ Before(s, 5) = Before(s, 4) + Size(s, 4)
        /\ Before(s, 6) = Before(s, 5) + Size(s, 5)
    BY <1>1
  <2>2. \A b, z, x : b \in Nat /\ z \in Nat /\ x = b + z => b <= x
    OBVIOUS
  <2>3. /\ Before(s, 1) \in Nat /\ Before(s, 2) \in Nat /\ Before(s, 3) \in Nat
        /\ Before(s, 4) \in Nat /\ Before(s, 5) \in Nat
        /\ Size(s, 1) \in Nat /\ Size(s, 2) \in Nat /\ Size(s, 3) \in Nat
        /\ Size(s, 4) \in Nat /\ Size(s, 5) \in Nat
    BY <1>1, <1>2
  <2> QED BY Zenon, <2>1, <2>2, <2>3
<1>6. ASSUME NEW g \in 1..6 PROVE Before(s, g) <= Len(s)
  <2>1. g = 1 \/ g = 2 \/ g = 3 \/ g = 4 \/ g = 5 \/ g = 6
    OBVIOUS
  <2> DEFINE b(i) == Before(s, i)
  <2>2. b(1) \in Nat /\ b(2) \in Nat /\ b(3) \in Nat /\ b(4) \in Nat /\ b(5) \in Nat
        /\ b(6) \in Nat
    BY <1>1
  <2>3. b(1) <= b(2) /\ b(2) <= b(3) /\ b(3) <= b(4) /\ b(4) <= b(5) /\ b(5) <= b(6)
    BY <1>5
  <2>4. b(6) = Len(s)
    BY <1>1, <1>3
  <2> HIDE DEF b
  <2>5. b(g) <= Len(s)
    BY <2>1, <2>2, <2>3, <2>4, SMTT(30)
  <2> QED BY <2>5 DEF b
<1>7. Before(s, GroupsOf(c) + 1) = Len(s)
  <2>1. CASE c = "8E"
    BY <1>1, <1>3, <2>1 DEF GroupsOf
  <2>2. CASE c # "8E"
    <3>1. InGroup(s, 5) = <<>>
      <4>1. 0 \in Nat
        OBVIOUS
      <4> QED BY <2>2, <4>1, ElementsAddUp
    <3>2. Size(s, 5) = 0
      BY <3>1 DEF Size
    <3>3. Before(s, 6) = Before(s, 5) + Size(s, 5)
      BY <1>1
    <3>4. Before(s, 5) \in Nat
      BY <1>1
    <3>5. Before(s, 5) = Len(s)
      BY <1>1, <1>3, <3>2, <3>3, <3>4
    <3>6. GroupsOf(c) + 1 = 5
      BY <2>2 DEF GroupsOf
    <3> QED BY <3>5, <3>6
  <2> QED BY <2>1, <2>2
<1> QED BY <1>1, <1>2, <1>3, <1>4, <1>6, <1>7

(* A record of which all elements are decoded is that record, rearranged.  *)
LEMMA SoFarIsDone ==
  ASSUME NEW c \in DataCodecs, NEW r \in DataRecord, ElementsOK(c, r.elements),
         NEW d \in DataRecord, RecordSoFar(c, r, d, Len(r.elements))
  PROVE  RecordDone(c, r, d)
<1>1. r.elements \in Seq(Elem) /\ d.elements \in Seq(Elem)
  BY DEF DataRecord
<1>2. /\ Len(d.elements) = Len(r.elements)
      /\ \A i \in 1..Len(r.elements) : d.elements[i] = Grouped(r.elements)[i]
      /\ d.event = r.event /\ d.gen = IF c = "16" THEN r.gen ELSE Unknown
  BY DEF RecordSoFar
<1>3. Grouped(r.elements) \in Seq(Elem) /\ Len(Grouped(r.elements)) = Len(r.elements)
  BY <1>1, GroupsBound
<1>4. d.elements = Grouped(r.elements)
  <2> DEFINE g == Grouped(r.elements)
             e == d.elements
  <2>1. g \in Seq(Elem) /\ e \in Seq(Elem) /\ Len(e) = Len(g) /\ \A i \in 1..Len(g) : e[i] = g[i]
    BY <1>1, <1>2, <1>3
  <2> HIDE DEF g, e
  <2>2. e = g
    BY <2>1, SeqEqual
  <2> QED BY <2>2 DEF g, e
<1>5. Rearranged(r.elements, d.elements)
  BY <1>1, <1>4, GroupedIsRearranged
<1> QED BY <1>2, <1>5 DEF RecordDone

(* After the last element of a group: the next group, or the next item.    *)
LEMMA GroupEnds ==
  ASSUME GivenInv, st \in {"group", "element"}, GroupDone,
         UNCHANGED <<given, transport, codec, count>>, SizeIs',
         items' \in Seq(DataRecord), Len(items') = Len(items),
         \A i \in 1..(Len(items) - 1) : items'[i] = items[i],
         RecordSoFar(given.codec, given.items[Len(items)], items'[Len(items)], filled'),
         tape' = GroupsFrom(given.codec, GivenElements, group + 1) \o Later,
         filled' = Before(GivenElements, group + 1), left' = 0
  PROVE  GivenInv'
<1> DEFINE c == given.codec
           its == given.items
           k == Len(items)
           s == GivenElements
           r == its[k]
           d == items'[k]
<1>1. /\ c \in DataCodecs /\ codec = c /\ its \in Seq(DataRecord)
      /\ k \in 1..Len(its) /\ Len(its) \in Nat
      /\ s \in Seq(Elem) /\ ElementsOK(c, s)
      /\ group \in 1..GroupsOf(c) /\ group \in 1..5 /\ group + 1 \in 1..6
      /\ Later \in Seq(Put)
  BY InRecord
<1>2. /\ IsPacket(c, its) /\ c \notin CommandCodecs /\ c \in Codecs
      /\ count = Len(its) /\ transport \in {"tcp", "udp"}
      /\ \A i \in 1..(k - 1) : RecordDone(c, its[i], items[i])
  <2>1. /\ IsPacket(c, its) /\ count = Len(its) /\ transport \in {"tcp", "udp"}
        /\ \A i \in 1..(k - 1) : RecordDone(c, its[i], items[i])
    BY <1>1 DEF GivenInv, PlaceIs, RecordsAre, Complete
  <2> QED BY <1>1, <2>1 DEF DataCodecs, CommandCodecs, Codecs
<1>3. r \in DataRecord /\ d \in DataRecord /\ s = r.elements
  <2>1. k \in 1..Len(its) /\ k \in 1..Len(items')
    BY <1>1
  <2>2. r \in DataRecord
    BY <1>1
  <2>3. d \in DataRecord
    BY <2>1
  <2> QED BY <2>2, <2>3 DEF GivenElements
<1>4. given' = given /\ given'.codec = c /\ given'.items = its
  OBVIOUS
<1>5. GivenElements' = s /\ Later' = Later
  BY DEF GivenElements, Later
<1>6. Before(s, group + 1) \in Nat
  BY <1>1, GroupsBound
<1>7. \A i \in 1..(k - 1) : RecordDone(c, its[i], items'[i])
  BY <1>2
<1>8. Groups = GroupsOf(c)
  BY <1>1 DEF Groups, GroupsOf
<1>9. RecordSoFar(c, r, d, filled')
  OBVIOUS
<1> HIDE DEF c, its, s, r, d
<1>10. tape' = GroupsFrom(c, s, group + 1) \o Later /\ filled' = Before(s, group + 1)
  BY DEF c, s
<1>11. CASE group < Groups
  <2>1. st' = "group" /\ group' = group + 1 /\ group' \in 1..GroupsOf(c)
    BY <1>1, <1>8, <1>11 DEF GroupDone, GroupsOf
  <2>2. tape' \in Seq(Put)
    <3> DEFINE a == GroupsFrom(c, s, group + 1)
    <3>1. a \in Seq(Put)
      BY <1>1, GroupsInOrder
    <3> HIDE DEF a
    <3>2. a \o Later \in Seq(Put)
      BY <1>1, <3>1, ConcatProperties
    <3> QED BY <1>10, <3>2 DEF a
  <2>3. TapeIs'
    BY <1>4, <1>5, <1>10, <2>1, <2>2 DEF TapeIs
  <2>4. PlaceIs'
    BY <1>1, <1>2, <1>4, <2>1 DEF PlaceIs, Reading
  <2>5. GroupIs'
    BY <1>4, <1>5, <1>6, <1>10, <2>1 DEF GroupIs
  <2>6. RecordsAre'
    <3>1. Complete' = k - 1
      BY <2>1 DEF Complete
    <3> QED BY <1>4, <1>7, <3>1 DEF RecordsAre
  <2>7. LastRecordIs'
    BY <1>4, <1>9 DEF LastRecordIs, r, d
  <2>8. MessagesAre'
    BY <1>2, <1>4 DEF MessagesAre
  <2> QED BY <1>2, <1>4, <2>3, <2>4, <2>5, <2>6, <2>7, <2>8 DEF GivenInv
<1>12. CASE ~(group < Groups)
  <2>1. /\ group' = group /\ group = GroupsOf(c)
        /\ st' = IF k < Len(its) THEN "record" ELSE "tail"
    <3>1. group = GroupsOf(c)
      BY <1>1, <1>8, <1>12 DEF GroupsOf
    <3> QED BY <1>1, <1>2, <1>12, <3>1 DEF GroupDone, AfterItem
  <2>2. tape' = Later
    <3>1. GroupsFrom(c, s, group + 1) = <<>>
      BY <1>1, <2>1, GroupsInOrder
    <3>2. <<>> \o Later = Later
      BY <1>1, ConcatEmptySeq
    <3> QED BY <1>10, <3>1, <3>2
  <2>3. TapeIs'
    BY <1>1, <1>5, <2>1, <2>2 DEF TapeIs
  <2>4. PlaceIs'
    <3>1. CASE k < Len(its)
      BY <1>1, <1>2, <1>4, <2>1, <3>1 DEF PlaceIs, Reading
    <3>2. CASE ~(k < Len(its))
      <4>1. k = Len(its)
        BY <1>1, <3>2
      <4> QED BY <1>1, <1>2, <1>4, <2>1, <3>2, <4>1 DEF PlaceIs, Reading
    <3> QED BY <3>1, <3>2
  <2>5. GroupIs'
    BY <2>1 DEF GroupIs
  <2>6. RecordDone(c, r, d)
    <3>1. filled' = Len(s)
      BY <1>1, <1>10, <2>1, GroupsBound
    <3> QED BY <1>1, <1>3, <1>9, <3>1, SoFarIsDone
  <2>7. RecordsAre'
    <3>1. Complete' = k
      BY <2>1 DEF Complete
    <3>2. \A i \in 1..k : RecordDone(c, its[i], items'[i])
      <4> TAKE i \in 1..k
      <4>1. k \in Nat
        BY <1>1
      <4>2. i \in 1..(k - 1) \/ i = k
        BY <4>1
      <4> QED BY <1>7, <2>6, <4>2 DEF r, d
    <3> QED BY <1>4, <3>1, <3>2 DEF RecordsAre
  <2>8. LastRecordIs'
    BY <2>1 DEF LastRecordIs
  <2>9. MessagesAre'
    BY <1>2, <1>4 DEF MessagesAre
  <2> QED BY <1>2, <1>4, <2>3, <2>4, <2>5, <2>7, <2>8, <2>9 DEF GivenInv
<1> QED BY <1>11, <1>12

(* The count of a group is that of the elements that follow it.            *)
LEMMA GroupStep ==
  ASSUME GivenInv, st = "group", DecodeGiven
  PROVE  GivenInv'
<1> DEFINE c == given.codec
           its == given.items
           k == Len(items)
           s == GivenElements
           u == TheGroup
           f == GroupField(c, u)
           later == GroupsFrom(c, s, group + 1) \o Later
           rest == ElementFields(c, u) \o later
<1>1. u \in Seq(Elem) /\ NextIs(f, rest) /\ Bytes(f) = f.w
  BY AtGroup
<1>2. f.n = Len(u) /\ Len(u) \in Nat /\ Len(u) = Size(s, group)
  BY <1>1 DEF GroupField, TheGroup, Size
<1>3. /\ c \in DataCodecs /\ codec = c /\ items \in Seq(DataRecord)
      /\ k \in 1..Len(its) /\ Len(its) \in Nat
      /\ s \in Seq(Elem) /\ ElementsOK(c, s)
      /\ group \in 1..GroupsOf(c) /\ group \in 1..5 /\ group + 1 \in 1..6
      /\ Later \in Seq(Put)
  BY InRecord
<1>4. /\ IsPacket(c, its) /\ c \notin CommandCodecs /\ c \in Codecs
      /\ count = Len(its) /\ transport \in {"tcp", "udp"} /\ left = 0
      /\ filled = Before(s, group)
  <2>1. /\ IsPacket(c, its) /\ count = Len(its) /\ transport \in {"tcp", "udp"} /\ left = 0
        /\ filled = Before(s, group)
    BY DEF GivenInv, PlaceIs, GroupIs
  <2> QED BY <1>3, <2>1 DEF DataCodecs, CommandCodecs, Codecs
<1>5. RecordSoFar(c, its[k], items[k], filled)
  BY DEF GivenInv, LastRecordIs
<1>6. /\ Before(s, group) \in Nat
      /\ Before(s, group + 1) = Before(s, group) + Size(s, group)
  <2>1. group \in 1..6
    BY <1>3
  <2> QED BY <1>3, <2>1, GroupsBound
<1> HIDE DEF f, rest, u, later
<1>7. st \in Reading
  BY DEF Reading
<1>8. /\ Fits(f) /\ Decode(f) /\ tape' = rest /\ rest \in Seq(Put) /\ UNCHANGED given
      /\ Take(f) /\ st' # "frame" => SizeIs' /\ UNCHANGED <<transport, size>>
  BY <1>1, <1>7, FieldTaken
<1>9. ReadGroup(f)
  BY <1>7, <1>8, StepAt
<1>10. Take(f) /\ left' = Len(u) /\ UNCHANGED <<codec, count, items, filled, response>>
  BY <1>2, <1>9 DEF ReadGroup
<1>11. CASE Len(u) = 0
  <2>1. GroupDone
    BY <1>2, <1>9, <1>11 DEF ReadGroup
  <2>2. st' # "frame"
    BY <2>1 DEF GroupDone, AfterItem
  <2>3. SizeIs' /\ UNCHANGED transport
    BY <1>8, <1>10, <2>2
  <2>4. rest = later
    <3>1. ElementFields(c, u) = <<>>
      <4>1. u = <<>>
        BY <1>1, <1>11
      <4> QED BY <4>1, ElementFieldsAppend
    <3>2. later \in Seq(Put)
      <4> DEFINE a == GroupsFrom(c, s, group + 1)
      <4>1. a \in Seq(Put)
        BY <1>3, GroupsInOrder
      <4> HIDE DEF a
      <4>2. a \o Later \in Seq(Put)
        BY <1>3, <4>1, ConcatProperties
      <4> QED BY <4>2 DEF a, later
    <3>3. <<>> \o later = later
      BY <3>2, ConcatEmptySeq
    <3> QED BY <3>1, <3>3 DEF rest
  <2>5. filled' = Before(s, group + 1)
    BY <1>2, <1>4, <1>6, <1>10, <1>11
  <2>6. /\ items' \in Seq(DataRecord) /\ Len(items') = Len(items)
        /\ \A i \in 1..(Len(items) - 1) : items'[i] = items[i]
        /\ RecordSoFar(c, its[k], items'[k], filled')
    BY <1>3, <1>5, <1>10
  <2>7. tape' = GroupsFrom(c, s, group + 1) \o Later /\ left' = 0
    BY <1>8, <1>10, <1>11, <2>4 DEF later
  <2> QED BY <1>8, <1>10, <2>1, <2>3, <2>5, <2>6, <2>7, GroupEnds
<1>12. CASE Len(u) > 0
  <2>1. st' = "element" /\ group' = group
    BY <1>2, <1>9, <1>12 DEF ReadGroup
  <2>2. SizeIs' /\ UNCHANGED transport
    BY <1>8, <1>10, <2>1
  <2>3. given' = given /\ GivenElements' = s /\ Later' = Later
    BY <1>8, <1>10, <2>2 DEF GivenElements, Later
  <2>4. InThisGroup' = 0 /\ InGroup(s, group) = u
    <3>1. Before(s, group)' = Before(s, group) /\ Before(GivenElements, group)' = Before(s, group)
      BY <2>1, <2>3
    <3> QED BY <1>4, <1>6, <1>10, <3>1 DEF InThisGroup, TheGroup, u
  <2>5. TapeIs'
    <3>1. FieldsAfter(c, u, 0) = ElementFields(c, u)
      BY <1>1, NextElement
    <3>2. tape' = FieldsAfter(c, u, 0) \o later
      BY <1>8, <3>1 DEF rest
    <3>3. tape' = FieldsAfter(given'.codec, InGroup(GivenElements', group'), InThisGroup')
                    \o (GroupsFrom(given'.codec, GivenElements', group' + 1) \o Later')
      BY <2>1, <2>3, <2>4, <3>2 DEF later
    <3> QED BY <1>8, <2>1, <3>3 DEF TapeIs
  <2>6. PlaceIs'
    BY <1>3, <1>4, <1>10, <2>1, <2>2, <2>3 DEF PlaceIs, Reading
  <2>7. GroupIs'
    <3>1. Size(GivenElements, group)' = Len(u)
      BY <1>2, <2>1, <2>3
    <3>2. /\ InThisGroup' \in 0..(Len(u) - 1) /\ left' = Len(u) - InThisGroup'
          /\ filled' \in Nat
      BY <1>2, <1>4, <1>6, <1>10, <1>12, <2>4
    <3> QED BY <1>3, <2>1, <2>3, <3>1, <3>2 DEF GroupIs
  <2>8. RecordsAre'
    <3>1. Complete' = Complete
      BY <1>10, <2>1 DEF Complete
    <3> QED BY <1>10, <2>3, <3>1 DEF GivenInv, RecordsAre
  <2>9. LastRecordIs'
    BY <1>5, <1>10, <2>3 DEF LastRecordIs
  <2>10. MessagesAre'
    BY <1>4, <2>3 DEF MessagesAre
  <2> QED BY <1>4, <2>2, <2>3, <2>5, <2>6, <2>7, <2>8, <2>9, <2>10 DEF GivenInv
<1> QED BY <1>2, <1>11, <1>12

(* An element more of the record.                                          *)
LEMMA OneMoreElement ==
  ASSUME NEW c \in DataCodecs, NEW r \in DataRecord, NEW d \in DataRecord,
         ElementsOK(c, r.elements),
         NEW n \in Nat, n < Len(r.elements), RecordSoFar(c, r, d, n),
         NEW e \in Elem, e = Grouped(r.elements)[n + 1],
         NEW new, new = [d EXCEPT !.elements = [d.elements EXCEPT ![n + 1] = e]]
  PROVE  new \in DataRecord /\ RecordSoFar(c, r, new, n + 1)
<1>1. /\ d.event = r.event /\ d.gen = IF c = "16" THEN r.gen ELSE Unknown
      /\ Len(d.elements) = Len(r.elements)
      /\ \A i \in 1..n : d.elements[i] = Grouped(r.elements)[i]
  BY DEF RecordSoFar
<1>2. r.elements \in Seq(Elem) /\ d.elements \in Seq(Elem) /\ Len(r.elements) \in Nat
  BY DEF DataRecord
<1>3. n + 1 \in 1..Len(d.elements)
  BY <1>1, <1>2
<1> DEFINE t == [d.elements EXCEPT ![n + 1] = e]
<1>4. /\ t \in Seq(Elem) /\ Len(t) = Len(d.elements)
      /\ \A i \in 1..Len(d.elements) : t[i] = IF i = n + 1 THEN e ELSE d.elements[i]
  BY <1>2, <1>3, ExceptSeq
<1>5. /\ new \in DataRecord /\ new.elements = t /\ new.event = d.event /\ new.gen = d.gen
  BY <1>4 DEF DataRecord
<1> HIDE DEF t
<1>6. ASSUME NEW i \in 1..(n + 1) PROVE t[i] = Grouped(r.elements)[i]
  <2>1. i \in 1..Len(d.elements)
    BY <1>1, <1>2, <1>3
  <2>2. CASE i = n + 1
    BY <1>4, <2>1, <2>2
  <2>3. CASE i # n + 1
    <3>1. i \in 1..n
      BY <2>3
    <3> QED BY <1>1, <1>4, <2>1, <2>3, <3>1
  <2> QED BY <2>2, <2>3
<1>7. Len(new.elements) = Len(r.elements) /\ \A i \in 1..(n + 1) : new.elements[i] = Grouped(r.elements)[i]
  BY <1>1, <1>4, <1>5, <1>6
<1> QED BY <1>1, <1>5, <1>7 DEF RecordSoFar

(* An element takes the place that the grouped elements have for it.       *)
LEMMA ElementStep ==
  ASSUME GivenInv, st = "element", DecodeGiven
  PROVE  GivenInv'
<1> DEFINE c == given.codec
           its == given.items
           k == Len(items)
           s == GivenElements
           u == TheGroup
           m == InThisGroup
           x == u[m + 1]
           f == PutElement(c, x)
           later == GroupsFrom(c, s, group + 1) \o Later
           rest == FieldsAfter(c, u, m + 1) \o later
           new == [items[k] EXCEPT !.elements = [items[k].elements EXCEPT ![filled + 1] = x]]
<1>1. /\ u \in Seq(Elem) /\ x \in Elem /\ m \in 0..(Len(u) - 1) /\ Len(u) \in Nat
      /\ NextIs(f, rest) /\ Bytes(f) = f.w
  BY AtElement
<1>2. [id |-> f.id, len |-> f.len] = x
  <2> HIDE DEF x
  <2>1. f.id = x.id /\ f.len = x.len
    BY DEF PutElement
  <2>2. x = [id |-> x.id, len |-> x.len]
    BY <1>1 DEF Elem
  <2> QED BY <2>1, <2>2
<1>3. /\ c \in DataCodecs /\ codec = c /\ items \in Seq(DataRecord) /\ its \in Seq(DataRecord)
      /\ k \in 1..Len(its) /\ Len(its) \in Nat
      /\ s \in Seq(Elem) /\ ElementsOK(c, s)
      /\ group \in 1..GroupsOf(c) /\ group \in 1..5 /\ group + 1 \in 1..6
      /\ Later \in Seq(Put)
  BY InRecord
<1>4. /\ IsPacket(c, its) /\ c \notin CommandCodecs /\ c \in Codecs
      /\ count = Len(its) /\ transport \in {"tcp", "udp"} /\ filled \in Nat
      /\ left = Len(u) - m
  <2>1. /\ IsPacket(c, its) /\ count = Len(its) /\ transport \in {"tcp", "udp"}
        /\ filled \in Nat /\ left = Size(s, group) - m
    BY DEF GivenInv, PlaceIs, GroupIs
  <2> QED BY <1>3, <2>1 DEF DataCodecs, CommandCodecs, Codecs, Size, TheGroup
<1>5. RecordSoFar(c, its[k], items[k], filled)
  BY DEF GivenInv, LastRecordIs
<1>6. /\ Before(s, group) \in Nat
      /\ Before(s, group + 1) = Before(s, group) + Len(u)
      /\ Before(s, group + 1) <= Len(s) /\ Len(s) \in Nat
  <2>1. group \in 1..6
    BY <1>3
  <2> QED BY <1>3, <2>1, GroupsBound DEF Size, TheGroup
<1>7. filled = Before(s, group) + m
  <2>1. m = filled - Before(s, group)
    BY DEF InThisGroup
  <2> HIDE DEF m, s
  <2> QED BY <1>4, <1>6, <2>1
<1>8. its[k] \in DataRecord /\ items[k] \in DataRecord /\ s = its[k].elements
      /\ s = given.items[Len(items)].elements
  <2>1. k \in 1..Len(items)
    BY <1>3
  <2>2. items[k] \in DataRecord
    BY <1>3, <2>1
  <2>3. its[k] \in DataRecord
    BY <1>3
  <2> QED BY <2>2, <2>3 DEF GivenElements
<1>9. Elements = items[k].elements /\ Len(Elements) = Len(s)
  BY <1>5, <1>8 DEF RecordSoFar, Elements
<1> HIDE DEF f, rest, u, later, s, m, x, c, its
<1>10. filled < Len(s)
  BY <1>1, <1>4, <1>6, <1>7
<1>11. x = Grouped(s)[filled + 1]
  <2>1. m + 1 \in 1..Len(u) /\ filled + 1 = Before(s, group) + (m + 1)
    BY <1>1, <1>6, <1>7
  <2>2. InGroup(s, group) = u /\ Size(s, group) = Len(u)
    BY DEF u, s, TheGroup, Size
  <2>3. Grouped(s)[Before(s, group) + (m + 1)] = InGroup(s, group)[m + 1]
    BY <1>3, <2>1, <2>2, GroupedAt
  <2> QED BY <2>1, <2>2, <2>3 DEF x
<1>12. new \in DataRecord /\ RecordSoFar(c, its[k], new, filled + 1)
  <2> HIDE DEF k
  <2> QED BY <1>1, <1>3, <1>4, <1>5, <1>8, <1>10, <1>11, OneMoreElement
<1>13. st \in Reading
  BY DEF Reading
<1>14. /\ Fits(f) /\ Decode(f) /\ tape' = rest /\ rest \in Seq(Put) /\ UNCHANGED given
       /\ Take(f) /\ st' # "frame" => SizeIs' /\ UNCHANGED <<transport, size>>
  BY <1>1, <1>13, FieldTaken
<1>15. ReadElement(f)
  <2>1. ReadElement(f) \/ TooManyElements(f)
    BY <1>13, <1>14, StepAt
  <2>2. ~TooManyElements(f)
    BY <1>4, <1>6, <1>9, <1>10 DEF TooManyElements
  <2> QED BY <2>1, <2>2
<1>16. /\ Take(f) /\ items' = [items EXCEPT ![k] = new]
       /\ filled' = filled + 1 /\ left' = left - 1
       /\ UNCHANGED <<codec, count, response>>
  BY <1>2, <1>15 DEF ReadElement
<1> HIDE DEF new
<1>17. /\ items' \in Seq(DataRecord) /\ Len(items') = Len(items) /\ items'[k] = new
       /\ \A i \in 1..(k - 1) : items'[i] = items[i]
  <2>1. k \in 1..Len(items) /\ \A i \in 1..(k - 1) : i \in 1..Len(items) /\ i # k
    BY <1>3
  <2> QED BY <1>3, <1>12, <1>16, <2>1, ExceptSeq, SMTT(30)
<1>18. m + 1 = Len(u) <=> left = 1
  BY <1>1, <1>4
<1>19. left \in Nat /\ left > 0
  BY <1>1, <1>4
<1>20. later \in Seq(Put)
  <2> DEFINE a == GroupsFrom(c, s, group + 1)
  <2>1. a \in Seq(Put)
    <3>1. c \in DataCodecs /\ s \in Seq(Elem)
      BY <1>3
    <3>2. \A g \in 1..6 : GroupsFrom(c, s, g) \in Seq(Put)
      BY <3>1, GroupsInOrder
    <3>3. group + 1 \in 1..6
      BY <1>3
    <3> QED BY <3>2, <3>3
  <2> HIDE DEF a
  <2>2. a \o Later \in Seq(Put)
    BY <1>3, <2>1, ConcatProperties
  <2> QED BY <2>2 DEF a, later
<1>21. CASE left = 1
  <2>1. GroupDone
    BY <1>15, <1>21 DEF ReadElement
  <2>2. st' # "frame"
    BY <2>1 DEF GroupDone, AfterItem
  <2>3. SizeIs' /\ UNCHANGED transport
    BY <1>14, <1>16, <2>2
  <2>4. rest = later
    <3>1. FieldsAfter(c, u, m + 1) = <<>>
      BY <1>1, <1>18, <1>21, NextElement
    <3>2. <<>> \o later = later
      BY <1>20, ConcatEmptySeq
    <3> QED BY <3>1, <3>2 DEF rest
  <2>5. filled' = Before(s, group + 1)
    BY <1>1, <1>6, <1>7, <1>16, <1>18, <1>21, SMTT(30)
  <2>6. left' = 0
    BY <1>16, <1>21
  <2>7. RecordSoFar(c, its[k], items'[k], filled')
    BY <1>12, <1>16, <1>17
  <2>8. tape' = GroupsFrom(c, s, group + 1) \o Later
    BY <1>14, <2>4 DEF later
  <2>9. /\ tape' = GroupsFrom(given.codec, GivenElements, group + 1) \o Later
        /\ filled' = Before(GivenElements, group + 1)
        /\ RecordSoFar(given.codec, given.items[Len(items)], items'[Len(items)], filled')
        /\ \A i \in 1..(Len(items) - 1) : items'[i] = items[i]
    BY <1>17, <2>5, <2>7, <2>8 DEF c, s, its
  <2> QED BY <1>14, <1>16, <1>17, <2>1, <2>3, <2>6, <2>9, GroupEnds, Zenon
<1>22. CASE left # 1
  <2>1. st' = "element" /\ group' = group
    BY <1>15, <1>19, <1>22 DEF ReadElement
  <2>2. SizeIs' /\ UNCHANGED transport
    BY <1>14, <1>16, <2>1
  <2>3. given' = given /\ GivenElements' = s /\ Later' = Later /\ given'.codec = c
        /\ given'.items = its
    BY <1>14, <1>17, <2>2 DEF GivenElements, Later, s, c, its
  <2>4. InThisGroup' = m + 1 /\ InGroup(s, group) = u
    <3>1. Before(GivenElements, group)' = Before(s, group)
      BY <2>1, <2>3
    <3>2. InThisGroup' = filled' - Before(s, group)
      BY <3>1 DEF InThisGroup
    <3>3. InGroup(s, group) = u
      BY DEF TheGroup, u, s
    <3> QED BY <1>1, <1>6, <1>7, <1>16, <3>2, <3>3, SMTT(30)
  <2>5. TapeIs'
    <3>1. tape' = FieldsAfter(given'.codec, InGroup(GivenElements', group'), InThisGroup')
                    \o (GroupsFrom(given'.codec, GivenElements', group' + 1) \o Later')
      BY <1>14, <2>1, <2>3, <2>4 DEF later, rest
    <3> QED BY <1>14, <2>1, <3>1 DEF TapeIs
  <2>6. PlaceIs'
    BY <1>3, <1>4, <1>16, <1>17, <2>1, <2>2, <2>3 DEF PlaceIs, Reading
  <2>7. GroupIs'
    <3>1. Size(GivenElements, group)' = Len(u)
      BY <2>1, <2>3, <2>4 DEF Size
    <3>2. /\ InThisGroup' \in 0..(Len(u) - 1) /\ left' = Len(u) - InThisGroup'
          /\ filled' \in Nat
      BY <1>1, <1>4, <1>16, <1>18, <1>22, <2>4
    <3> QED BY <1>3, <2>1, <2>3, <3>1, <3>2 DEF GroupIs
  <2>8. RecordsAre'
    <3>1. Complete' = k - 1 /\ Complete = k - 1
      BY <1>17, <2>1 DEF Complete
    <3>2. \A i \in 1..(k - 1) : RecordDone(c, its[i], items[i])
      BY <1>3, <3>1 DEF GivenInv, RecordsAre, c, its
    <3>3. \A i \in 1..(k - 1) : RecordDone(c, its[i], items'[i])
      BY <1>17, <3>2, SMTT(30)
    <3> QED BY <1>17, <2>3, <3>1, <3>3 DEF RecordsAre
  <2>9. LastRecordIs'
    BY <1>12, <1>16, <1>17, <2>3 DEF LastRecordIs
  <2>10. MessagesAre'
    BY <1>4, <2>3 DEF MessagesAre
  <2>11. IsPacket(given.codec, given.items)'
    BY <1>4, <2>3
  <2> QED BY <2>2, <2>5, <2>6, <2>7, <2>8, <2>9, <2>10, <2>11 DEF GivenInv
<1> QED BY <1>21, <1>22

(* What comes back of an IMEI does not depend on the "0" before it.        *)
LEMMA PadIsTrimmed ==
  ASSUME NEW i \in Imei
  PROVE  TrimLeft(Pad(i)) = TrimLeft(i) /\ TrimLeft(i) \in Imei
<1>1. i.zeros \in Nat /\ i.digits \in Nat
  BY DEF Imei
<1>2. Pad(i) = i \/ Pad(i) = [i EXCEPT !.zeros = i.zeros + 1]
  BY DEF Pad
<1>3. TrimLeft([i EXCEPT !.zeros = i.zeros + 1]) = TrimLeft(i) /\ TrimLeft(i) \in Imei
  BY <1>1 DEF TrimLeft, Imei
<1> QED BY <1>2, <1>3

(* A message is decoded as it was given, but for its IMEI's zeros.         *)
LEMMA MessageStep ==
  ASSUME GivenInv, st = "message", DecodeGiven
  PROVE  GivenInv'
<1> DEFINE c == given.codec
           its == given.items
           k == Len(items)
           m == Upcoming
           f == MessageField(c, m)
           rest == LeftAfter(c, its, transport, k + 1)
           d == [type |-> f.type, declared |-> f.declared,
                 text |-> TextBytes(codec, f.declared),
                 imei |-> IF Addressed(codec) THEN {TrimLeft(f.imei)} ELSE {}]
<1>1. /\ m \in DataMessage /\ MessageOK(c, m) /\ NextIs(f, rest) /\ Bytes(f) = f.w
      /\ TextBytes(codec, f.declared) = m.text
      /\ Extra(codec) = ExtraBytes(c) /\ ExtraBytes(c) \in Nat
  BY AtMessage
<1>2. /\ f.type = m.type /\ f.declared = m.text + ExtraBytes(c) /\ f.imei = Pad(m.imei)
      /\ f.w = 5 + ExtraBytes(c) + m.text
  BY DEF MessageField
<1>3. /\ IsPacket(c, its) /\ c \in CommandCodecs /\ c \notin DataCodecs /\ c \in Codecs
      /\ codec = c /\ count = Len(its) /\ Len(its) \in Nat
      /\ items \in Seq(DecodedMessage) /\ k < Len(its) /\ k \in Nat
      /\ left = 0 /\ transport \in {"tcp", "udp"}
      /\ \A i \in 1..k : MessageDone(c, its[i], items[i])
  <2>1. /\ IsPacket(c, its) /\ c \in CommandCodecs /\ codec = c /\ count = Len(its)
        /\ items \in Seq(DecodedMessage) /\ k < Len(its)
        /\ left = 0 /\ transport \in {"tcp", "udp"}
        /\ \A i \in 1..k : MessageDone(c, its[i], items[i])
    BY DEF GivenInv, PlaceIs, MessagesAre
  <2> QED BY <2>1 DEF IsPacket, DataCodecs, CommandCodecs, Codecs
<1>4. m.type \in MessageTypes /\ m.text \in Nat /\ m.imei \in Imei
  BY <1>1 DEF DataMessage
<1>5. its[k + 1] = m
  BY DEF Upcoming
<1>6. d.type = m.type /\ d.declared = m.text + ExtraBytes(c) /\ d.text = m.text
      /\ d.imei = IF Addressed(c) THEN {TrimLeft(m.imei)} ELSE {}
  <2>1. TrimLeft(f.imei) = TrimLeft(m.imei)
    BY <1>2, <1>4, PadIsTrimmed
  <2> HIDE DEF f, m, c
  <2> QED BY <1>1, <1>2, <1>3, <2>1
<1>7. d \in DecodedMessage
  <2>1. d = [type |-> d.type, declared |-> d.declared, text |-> d.text, imei |-> d.imei]
    OBVIOUS
  <2>2. d.imei \in SUBSET Imei
    BY <1>4, <1>6, PadIsTrimmed
  <2> HIDE DEF d, m, c
  <2>3. d.type \in MessageTypes /\ d.declared \in Nat /\ d.text \in Nat
    BY <1>1, <1>4, <1>6
  <2> QED BY <2>1, <2>2, <2>3 DEF DecodedMessage
<1>8. Allowed(f.type)
  <2> HIDE DEF f, m, c
  <2> QED BY <1>1, <1>2, <1>3, <1>4 DEF Allowed, MessageOK, CommandCodecs
<1>9. st \in Reading
  BY DEF Reading
<1> HIDE DEF f, rest, m, c, its, k
<1>10. /\ Fits(f) /\ Decode(f) /\ tape' = rest /\ rest \in Seq(Put) /\ UNCHANGED given
       /\ Bytes(f) <= MaxLength + 4
       /\ Take(f) /\ st' # "frame" => SizeIs' /\ UNCHANGED <<transport, size>>
  BY <1>1, <1>9, FieldTaken
<1>11. ReadMessage(f)
  <2>1. ReadMessage(f) \/ BadMessageType(f)
    BY <1>9, <1>10, StepAt
  <2> QED BY <1>8, <2>1 DEF BadMessageType
<1>12. /\ Take(f) /\ items' = Append(items, d)
       /\ st' = IF k + 1 < Len(its) THEN "message" ELSE "tail"
       /\ UNCHANGED <<codec, count, filled, group, left, response>>
  BY <1>3, <1>11 DEF ReadMessage, AfterItem, k
<1>13. SizeIs' /\ UNCHANGED <<transport, size>>
  BY <1>10, <1>12
<1>14. MessageDone(c, m, d)
  <2>1. m.text <= MaxLength
    BY <1>1, <1>2, <1>4, <1>10 DEF MaxLength
  <2>2. Extra(c) = ExtraBytes(c)
    BY <1>1, <1>3
  <2> HIDE DEF d
  <2> QED BY <1>6, <2>1, <2>2 DEF MessageDone
<1> HIDE DEF d
<1>15. /\ items' \in Seq(DecodedMessage) /\ Len(items') = k + 1
       /\ items'[k + 1] = d
       /\ \A i \in 1..k : items'[i] = items[i]
  <2>1. k = Len(items)
    BY DEF k
  <2> QED BY <1>3, <1>7, <1>12, <2>1, AppendProperties
<1>16. given' = given /\ given'.codec = c /\ given'.items = its
  BY <1>10 DEF c, its
<1>17. TapeIs'
  <2>1. Later' = rest
    BY <1>13, <1>15, <1>16 DEF Later, rest
  <2> QED BY <1>10, <1>12, <2>1 DEF TapeIs
<1>18. PlaceIs'
  <2>1. CASE k + 1 < Len(its)
    BY <1>3, <1>12, <1>13, <1>15, <1>16, <2>1 DEF PlaceIs, Reading
  <2>2. CASE ~(k + 1 < Len(its))
    <3>1. k + 1 = Len(its)
      BY <1>3, <2>2
    <3> QED BY <1>3, <1>12, <1>13, <1>15, <1>16, <2>2, <3>1 DEF PlaceIs, Reading
  <2> QED BY <2>1, <2>2
<1>19. GroupIs'
  BY <1>12 DEF GroupIs
<1>20. RecordsAre' /\ LastRecordIs'
  BY <1>3, <1>12, <1>16 DEF RecordsAre, LastRecordIs
<1>21. MessagesAre'
  <2>1. ASSUME NEW i \in 1..(k + 1) PROVE MessageDone(c, its[i], items'[i])
    <3>1. i \in 1..k \/ i = k + 1
      BY <1>3
    <3> QED BY <1>3, <1>5, <1>14, <1>15, <3>1
  <2> QED BY <1>15, <1>16, <2>1 DEF MessagesAre
<1> QED BY <1>3, <1>13, <1>16, <1>17, <1>18, <1>19, <1>20, <1>21 DEF GivenInv

(* The packet ends with its tail, or with its sum.                         *)
LEMMA ClosingStep ==
  ASSUME GivenInv, st \in {"tail", "crc"},
         UNCHANGED <<given, transport, codec, count, items, filled, group, left>>,
         SizeIs',
         st' \in {"crc", "accepted"}, tape' \in Seq(Put),
         st' = "crc" => transport = "tcp" /\ tape' = <<CrcField>>,
         st' = "accepted" =>
           tape' = <<>> /\ response' = IF codec \in DataCodecs THEN <<Len(items) % 256>> ELSE <<>>
  PROVE  GivenInv'
<1> DEFINE c == given.codec
           its == given.items
           k == Len(items)
<1>1. /\ IsPacket(c, its) /\ codec = c /\ count = Len(its) /\ k = Len(its)
      /\ left = 0 /\ transport \in {"tcp", "udp"}
  BY SMTT(30) DEF GivenInv, PlaceIs
<1>2. Len(its) \in 0..255
  <2> DEFINE n == Len(its)
  <2>1. n \in Nat /\ n <= 255
    BY <1>1 DEF IsPacket, Encodable
  <2> HIDE DEF n
  <2>2. n \in 0..255
    BY <2>1
  <2> QED BY <2>2 DEF n
<1>3. given'.codec = c /\ given'.items = its
  OBVIOUS
<1>4. st' = "accepted" => response' = IF c \in DataCodecs THEN <<Len(its)>> ELSE <<>>
  <2> DEFINE n == Len(its)
  <2>1. n \in 0..255 /\ Len(items) = n
    BY <1>1, <1>2
  <2> HIDE DEF n
  <2>2. Len(items) % 256 = n
    BY <2>1
  <2> QED BY <1>1, <2>2 DEF n
<1> HIDE DEF c, its, k
<1>5. TapeIs'
  BY DEF TapeIs
<1>6. PlaceIs'
  BY <1>1, <1>3, <1>4 DEF PlaceIs, Reading, k
<1>7. GroupIs'
  BY DEF GroupIs
<1>8. RecordsAre' /\ LastRecordIs' /\ MessagesAre'
  <2>1. Complete' = Len(items) /\ Complete = Len(items)
    BY DEF Complete
  <2> QED BY <2>1 DEF GivenInv, RecordsAre, LastRecordIs, MessagesAre
<1> QED BY <1>1, <1>3, <1>5, <1>6, <1>7, <1>8 DEF GivenInv, c, its

(* The second count is the first.                                          *)
LEMMA TailStep ==
  ASSUME GivenInv, st = "tail", DecodeGiven
  PROVE  GivenInv'
<1> DEFINE f == TailField(given.items)
           rest == IF transport = "tcp" THEN <<CrcField>> ELSE <<>>
<1>1. NextIs(f, rest) /\ Bytes(f) = f.w
  BY AtTail
<1>2. f.n = Len(given.items)
  BY DEF TailField
<1>3. IsPacket(given.codec, given.items) /\ count = Len(given.items)
  BY DEF GivenInv, PlaceIs
<1> HIDE DEF f, rest
<1>4. st \in Reading
  BY DEF Reading
<1>5. /\ Fits(f) /\ Decode(f) /\ tape' = rest /\ rest \in Seq(Put) /\ UNCHANGED given
      /\ Take(f) /\ st' # "frame" => SizeIs' /\ UNCHANGED <<transport, size>>
  BY <1>1, <1>4, FieldTaken
<1>6. ReadTail(f)
  <2>1. ReadTail(f) \/ CountsDiffer(f)
    BY <1>4, <1>5, StepAt
  <2> QED BY <1>2, <1>3, <2>1 DEF CountsDiffer
<1>7. /\ Take(f)
      /\ \/ transport = "tcp" /\ st' = "crc"
         \/ transport # "tcp" /\ Accept
      /\ UNCHANGED <<codec, count, items, filled, group, left>>
  BY <1>6 DEF ReadTail
<1>8. SizeIs' /\ UNCHANGED transport
  <2>1. st' # "frame"
    BY <1>7 DEF Accept
  <2> QED BY <1>5, <1>7, <2>1
<1>9. /\ st' \in {"crc", "accepted"} /\ tape' \in Seq(Put)
      /\ st' = "crc" => transport = "tcp" /\ tape' = <<CrcField>>
      /\ st' = "accepted" =>
           tape' = <<>> /\ response' = IF codec \in DataCodecs THEN <<Len(items) % 256>> ELSE <<>>
  BY <1>5, <1>7 DEF rest, Accept
<1> QED BY <1>5, <1>7, <1>8, <1>9, ClosingStep

(* The sum of the encoder is that of the decoder.                          *)
LEMMA CrcStep ==
  ASSUME GivenInv, st = "crc", DecodeGiven
  PROVE  GivenInv'
<1>1. NextIs(CrcField, <<>>) /\ Bytes(CrcField) = CrcField.w
  BY AtCrc
<1>2. st \in Reading
  BY DEF Reading
<1>3. /\ Fits(CrcField) /\ Decode(CrcField) /\ tape' = <<>> /\ tape' \in Seq(Put)
      /\ UNCHANGED given
      /\ Take(CrcField) /\ st' # "frame" => SizeIs' /\ UNCHANGED <<transport, size>>
  BY <1>1, <1>2, FieldTaken
<1>4. ReadCrc(CrcField)
  <2>1. ReadCrc(CrcField) \/ BadCrc(CrcField)
    BY <1>2, <1>3, StepAt
  <2> QED BY <2>1 DEF BadCrc, CrcField
<1>5. Take(CrcField) /\ Accept /\ UNCHANGED <<codec, count, items, filled, group, left>>
  BY <1>4 DEF ReadCrc
<1>6. SizeIs' /\ UNCHANGED transport
  <2>1. st' # "frame"
    BY <1>5 DEF Accept
  <2> QED BY <1>3, <1>5, <2>1
<1>7. /\ st' = "accepted"
      /\ response' = IF codec \in DataCodecs THEN <<Len(items) % 256>> ELSE <<>>
  BY <1>5 DEF Accept
<1> QED BY <1>3, <1>5, <1>6, <1>7, ClosingStep

(* Every step keeps the invariant, whatever frame comes.                   *)
LEMMA RoundTripStep == RoundTripInv /\ [RoundTripNext]_roundTripVars => RoundTripInv'
<1> SUFFICES ASSUME RoundTripInv, [RoundTripNext]_roundTripVars PROVE RoundTripInv'
  OBVIOUS
<1>1. ImeiLength \in Nat
  BY RoundTripAssumption
<1>2. CASE DecodeForeign
  <2>1. given = Foreign /\ tape = <<>> /\ DecoderInv
    BY <1>2 DEF DecodeForeign, RoundTripInv
  <2>2. given' = Foreign /\ tape' = <<>> /\ DecoderInv'
    BY <1>2, <2>1, DecoderStep DEF DecodeForeign
  <2> QED BY <2>2 DEF RoundTripInv
<1>3. CASE DecodeGiven
  <2>1. given # Foreign /\ GivenInv /\ given' = given
    BY <1>3 DEF DecodeGiven, RoundTripInv
  <2>2. st \in Reading \cup {"frame"}
    BY <1>3, StepAt DEF DecodeGiven
  <2>3. GivenInv'
    BY <1>1, <1>3, <2>1, <2>2, FrameStep, PrefixStep, HeaderStep, RecordStep, GroupStep,
       ElementStep, MessageStep, TailStep, CrcStep DEF Reading
  <2> QED BY <2>1, <2>3 DEF RoundTripInv
<1>4. CASE UNCHANGED roundTripVars
  <2>1. UNCHANGED decVars /\ given' = given /\ tape' = tape
    BY <1>4 DEF roundTripVars
  <2>2. CASE given = Foreign
    BY <2>1, <2>2, DecoderStep DEF RoundTripInv
  <2>3. CASE given # Foreign
    <3>1. /\ UNCHANGED <<transport, st, size, pos, codec, count, items, filled, group, left,
                         response>>
          /\ GivenInv
      BY <2>1, <2>3 DEF decVars, RoundTripInv
    <3>2. /\ GivenElements' = GivenElements /\ Later' = Later /\ Complete' = Complete
          /\ InThisGroup' = InThisGroup
      BY <2>1, <3>1 DEF GivenElements, Later, Complete, InThisGroup
    <3>3. TapeIs' /\ PlaceIs'
      <4>1. TapeIs'
        BY <2>1, <3>1, <3>2 DEF GivenInv, TapeIs
      <4>2. PlaceIs'
        BY <2>1, <3>1, <3>2 DEF GivenInv, PlaceIs
      <4> QED BY <4>1, <4>2
    <3>4. GroupIs' /\ SizeIs'
      BY <2>1, <3>1, <3>2 DEF GivenInv, GroupIs, SizeIs
    <3>5. RecordsAre' /\ LastRecordIs' /\ MessagesAre'
      BY <2>1, <3>1, <3>2 DEF GivenInv, RecordsAre, LastRecordIs, MessagesAre
    <3>6. GivenInv'
      BY <2>1, <3>1, <3>3, <3>4, <3>5 DEF GivenInv
    <3> QED BY <2>1, <2>3, <3>6 DEF RoundTripInv
  <2> QED BY <2>2, <2>3
<1> QED BY <1>2, <1>3, <1>4 DEF RoundTripNext

(* The inductive invariant holds whatever is encoded, and whatever else    *)
(* comes.                                                                  *)
THEOREM RoundTripInvariance == RoundTripSpec => []RoundTripInv
BY RoundTripInitInv, RoundTripStep, PTL DEF RoundTripSpec

(* What is collected of a foreign frame has the shape of its codec.        *)
THEOREM ForeignIsTyped == RoundTripSpec => []ForeignTypeOK
<1>1. RoundTripInv => ForeignTypeOK
  BY DEF RoundTripInv, DecoderInv, ForeignTypeOK
<1> QED BY <1>1, RoundTripInvariance, PTL

(* Encoder and decoder walk over the same fields.                          *)
LEMMA LinedUp == RoundTripInv => FieldsLineUp
<1> SUFFICES ASSUME RoundTripInv, given # Foreign, st \notin Ended
             PROVE  /\ tape # <<>> /\ Head(tape).kind = st
                    /\ st \in Reading => Head(tape).w = Bytes(Head(tape))
                    /\ st = "element" /\ group <= 4 => Head(tape).len = ValueBytes(group)
  BY DEF FieldsLineUp
<1>1. GivenInv /\ ImeiLength \in Nat
  BY RoundTripAssumption DEF RoundTripInv
<1>2. st \in Reading \cup {"frame"}
  BY <1>1 DEF GivenInv, PlaceIs, Ended
<1>3. ASSUME NEW f, NEW rest, NextIs(f, rest), f.kind = st,
             st \in Reading => Bytes(f) = f.w,
             st = "element" /\ group <= 4 => f.len = ValueBytes(group)
      PROVE  /\ tape # <<>> /\ Head(tape).kind = st
             /\ st \in Reading => Head(tape).w = Bytes(Head(tape))
             /\ st = "element" /\ group <= 4 => Head(tape).len = ValueBytes(group)
  <2>1. tape # <<>> /\ Head(tape) = f
    BY <1>3, NextIsFirst
  <2> QED BY <1>3, <2>1
<1>4. CASE st = "frame"
  <2>1. PICK length, w, rest : NextIs(FrameField(length, w), rest)
    BY <1>1, <1>4, AtFrame
  <2>2. FrameField(length, w).kind = "frame"
    BY DEF FrameField
  <2> QED BY <1>3, <1>4, <2>1, <2>2 DEF Reading
<1>5. CASE st = "prefix"
  <2>1. PrefixField(ImeiLength).kind = "prefix"
    BY DEF PrefixField
  <2> QED BY <1>1, <1>3, <1>5, <2>1, AtPrefix
<1>6. CASE st = "header"
  <2>1. HeaderField(given.codec, given.items).kind = "header"
        /\ HeaderField(given.codec, given.items).w = 2
    BY DEF HeaderField
  <2> QED BY <1>1, <1>3, <1>6, <2>1, AtHeader
<1>7. CASE st = "record"
  <2>1. RecordField(given.codec, Upcoming).kind = "record"
    BY DEF RecordField
  <2> QED BY <1>1, <1>3, <1>7, <2>1, AtRecord
<1>8. CASE st = "group"
  <2>1. GroupField(given.codec, TheGroup).kind = "group"
    BY DEF GroupField
  <2> QED BY <1>1, <1>3, <1>8, <2>1, AtGroup
<1>9. CASE st = "element"
  <2> DEFINE e == TheGroup[InThisGroup + 1]
             f == PutElement(given.codec, e)
             rest == FieldsAfter(given.codec, TheGroup, InThisGroup + 1)
                       \o (GroupsFrom(given.codec, GivenElements, group + 1) \o Later)
  <2>1. f.kind = "element" /\ f.len = e.len
    BY DEF PutElement
  <2>2. NextIs(f, rest) /\ Bytes(f) = f.w /\ (group <= 4 => e.len = ValueBytes(group))
    BY <1>1, <1>9, AtElement
  <2> HIDE DEF e, f, rest
  <2> QED BY <1>3, <1>9, <2>1, <2>2
<1>10. CASE st = "message"
  <2>1. MessageField(given.codec, Upcoming).kind = "message"
    BY DEF MessageField
  <2> QED BY <1>1, <1>3, <1>10, <2>1, AtMessage
<1>11. CASE st = "tail"
  <2>1. TailField(given.items).kind = "tail"
    BY DEF TailField
  <2> QED BY <1>1, <1>3, <1>11, <2>1, AtTail
<1>12. CASE st = "crc"
  <2>1. CrcField.kind = "crc"
    BY DEF CrcField
  <2> QED BY <1>1, <1>3, <1>12, <2>1, AtCrc
<1>13. \/ st = "frame" \/ st = "prefix" \/ st = "header" \/ st = "record" \/ st = "group"
       \/ st = "element" \/ st = "message" \/ st = "tail" \/ st = "crc"
  BY <1>2 DEF Reading
<1> QED
  BY <1>4, <1>5, <1>6, <1>7, <1>8, <1>9, <1>10, <1>11, <1>12, <1>13

(* No field of an encoded frame is read across another's boundary.         *)
THEOREM FieldsAlwaysLineUp == RoundTripSpec => []FieldsLineUp
BY LinedUp, RoundTripInvariance, PTL

(* The size calculated in advance is what is written and what is read.     *)
THEOREM SizeIsExact == RoundTripSpec => []SizeIsWhatIsWritten
<1>1. RoundTripInv => SizeIsWhatIsWritten
  BY DEF RoundTripInv, GivenInv, SizeIs, SizeIsWhatIsWritten
<1> QED BY <1>1, RoundTripInvariance, PTL

(* An accepted packet is the one that was encoded.                         *)
LEMMA WhatWasGiven == RoundTripInv => RoundTrip
<1> SUFFICES ASSUME RoundTripInv, given # Foreign PROVE RoundTrip
  BY DEF RoundTrip
<1>1. GivenInv
  BY DEF RoundTripInv
<1> DEFINE c == given.codec
           its == given.items
<1>2. st = "rejected" => transport = "tcp" /\ DataSize(c, its, 3) > MaxLength
  BY <1>1 DEF GivenInv, PlaceIs
<1>3. ASSUME st = "accepted"
      PROVE  /\ codec = c /\ Len(items) = Len(its)
             /\ \A i \in 1..Len(items) :
                  IF IsCommandCodec(codec) THEN SameMessage(its[i], items[i])
                                           ELSE SameRecord(its[i], items[i])
  <2>1. codec = c /\ Len(items) = Len(its) /\ IsPacket(c, its)
    BY <1>1, <1>3 DEF GivenInv, PlaceIs
  <2>2. CASE c \in CommandCodecs
    <3>1. \A i \in 1..Len(items) : MessageDone(c, its[i], items[i])
      BY <1>1, <2>2 DEF GivenInv, MessagesAre
    <3>2. \A i \in 1..Len(items) : SameMessage(its[i], items[i])
      BY <3>1 DEF MessageDone, SameMessage
    <3>3. IsCommandCodec(codec)
      BY <2>1, <2>2 DEF IsCommandCodec, CommandCodecs
    <3> QED BY <2>1, <3>2, <3>3
  <2>3. CASE c \in DataCodecs
    <3>1. Complete = Len(items)
      BY <1>3 DEF Complete
    <3>2. \A i \in 1..Len(items) : RecordDone(c, its[i], items[i])
      BY <1>1, <2>3, <3>1 DEF GivenInv, RecordsAre
    <3>3. \A i \in 1..Len(items) : SameRecord(its[i], items[i])
      BY <3>2 DEF RecordDone, SameRecord
    <3>4. ~IsCommandCodec(codec)
      BY <2>1, <2>3 DEF IsCommandCodec, DataCodecs
    <3> QED BY <2>1, <3>3, <3>4
  <2> QED BY <2>1, <2>2, <2>3 DEF IsPacket
<1> QED BY <1>2, <1>3 DEF RoundTrip

(* What was encoded is decoded.                                            *)
THEOREM RoundTripHolds == RoundTripSpec => []RoundTrip
BY WhatWasGiven, RoundTripInvariance, PTL

(* The decoder's own properties hold for what the encoder made.            *)
LEMMA GivenIsDecoded ==
  RoundTripInv => ElementsFit /\ AcceptedIsWhole /\ MessageSizesAddUp
<1> SUFFICES ASSUME RoundTripInv PROVE ElementsFit /\ AcceptedIsWhole /\ MessageSizesAddUp
  OBVIOUS
<1>1. CASE given = Foreign
  BY <1>1 DEF RoundTripInv, DecoderInv, Progress, AnsweredWhenAccepted, AcceptedIsWhole
<1>2. CASE given # Foreign
  <2>1. GivenInv
    BY <1>2 DEF RoundTripInv
  <2>2. ElementsFit
    <3> SUFFICES ASSUME st \in {"group", "element"}
                 PROVE  filled <= Len(Elements) /\ (st = "element" <=> left > 0)
      BY DEF ElementsFit
    <3>1. /\ given.codec \in DataCodecs /\ GivenElements \in Seq(Elem)
          /\ ElementsOK(given.codec, GivenElements) /\ group \in 1..5 /\ group + 1 \in 1..6
          /\ group \in 1..6
      BY <2>1, InRecord
    <3>2. Len(Elements) = Len(GivenElements)
      BY <2>1 DEF GivenInv, LastRecordIs, RecordSoFar, GivenElements, Elements
    <3> DEFINE b == Before(GivenElements, group)
               e == Before(GivenElements, group + 1)
               z == Size(GivenElements, group)
               n == Len(GivenElements)
    <3>3. b \in Nat /\ e \in Nat /\ z \in Nat /\ n \in Nat /\ b <= n /\ e <= n /\ e = b + z
      BY <3>1, GroupsBound
    <3>4. /\ filled \in Nat
          /\ st = "group" => filled = b /\ left = 0
          /\ st = "element" => filled - b \in 0..(z - 1) /\ left = z - (filled - b)
      BY <2>1 DEF GivenInv, GroupIs, PlaceIs, InThisGroup
    <3> HIDE DEF b, e, z, n
    <3>5. filled <= n /\ (st = "element" <=> left > 0)
      BY <3>3, <3>4
    <3> QED BY <3>2, <3>5 DEF n
  <2>3. AcceptedIsWhole
    BY <2>1 DEF GivenInv, PlaceIs, AcceptedIsWhole
  <2>4. MessageSizesAddUp
    <3> SUFFICES ASSUME codec \in CommandCodecs
                 PROVE  \A i \in 1..Len(items) :
                          /\ items[i].declared = items[i].text + Extra(codec)
                          /\ items[i].text <= MaxLength
      BY DEF MessageSizesAddUp
    <3>1. codec = given.codec
      BY <2>1 DEF GivenInv, PlaceIs, CommandCodecs
    <3> QED BY <2>1, <3>1 DEF GivenInv, MessagesAre, MessageDone
  <2> QED BY <2>2, <2>3, <2>4
<1> QED BY <1>1, <1>2

(* Whatever comes, no element is stored past its record, what is accepted  *)
(* is acknowledged as it announced itself, and sizes add up: for foreign   *)
(* frames, and for those of the encoder.                                   *)
THEOREM DecodedAsPromised ==
  RoundTripSpec => [](ElementsFit /\ AcceptedIsWhole /\ MessageSizesAddUp)
BY GivenIsDecoded, RoundTripInvariance, PTL
=============================================================================

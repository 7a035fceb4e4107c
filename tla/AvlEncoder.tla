----------------------------- MODULE AvlEncoder -----------------------------
(***************************************************************************)
(* The packet encoder: encodeTCPInternal, encodeUDPInternal, encodePacket  *)
(* and what they call.  It first adds up the size of the packet, makes a   *)
(* buffer of that size, and then fills it with one field after the other.  *)
(* Here the buffer is the sequence of these fields, each with the number w *)
(* of bytes by which it moves the code's position.                         *)
(*                                                                         *)
(* A record to encode is [event, gen, elements], an element [id, len], a   *)
(* message [type, text, imei] with a text known by its length and an IMEI  *)
(* by its leading zeros and the digits after them; c is the codec.         *)
(***************************************************************************)
EXTENDS Naturals, Sequences, SequencesExt

IsCommandCodec(c) == c \in {"12", "13", "14", "15"}

FixedWidths == {1, 2, 4, 8}

(* What a running total that starts at base comes to.                      *)
Add(base, numbers) ==
  LET total[i \in 0..Len(numbers)] ==
        IF i = 0 THEN base ELSE total[i - 1] + numbers[i]
  IN  total[Len(numbers)]
-----------------------------------------------------------------------------
(* calculateElementsSizeCodec8, 16 and 8E: what they refuse, below what    *)
(* they add up.                                                            *)

(* Mutant: codecs 8 and 16 take values of any width.                       *)
ElementOKAnyWidth(c, e) == e.len \in 1..65535 /\ (c = "8" => e.id <= 255)

ElementOK(c, e) ==
  IF c = "8E" THEN e.len \in 1..65535
              ELSE e.len \in FixedWidths /\ (c = "8" => e.id <= 255)

(* Mutant: the length that precedes other widths is forgotten.             *)
ElementSizePlain(c, e) == e.len + IF c = "8" THEN 1 ELSE 2

ElementSize(c, e) ==
  e.len + CASE c = "8" -> 1
            [] c = "16" -> 2
            [] c = "8E" -> IF e.len \in FixedWidths THEN 2 ELSE 4

ElementsSize(c, elements) ==
  Add(CASE c = "8" -> 6 [] c = "16" -> 8 [] c = "8E" -> 14,
      [i \in DOMAIN elements |-> ElementSize(c, elements[i])])

MessageSize(c, m) ==
  m.text + 5 + CASE c = "12" -> 0 [] c = "13" -> 4 [] c = "14" -> 8 [] c = "15" -> 12

ItemSize(c, item) ==
  IF IsCommandCodec(c) THEN MessageSize(c, item) ELSE 24 + ElementsSize(c, item.elements)

(* dataSize, from the size of what surrounds the records or messages.      *)
DataSize(c, items, base) == Add(base, [i \in DOMAIN items |-> ItemSize(c, items[i])])

(* What encodeElements*, encodeMessage and encodePacket refuse.            *)
RecordOK(c, r) ==
  /\ c = "8" => r.event <= 255
  /\ c = "16" => r.gen <= 7
  /\ Len(r.elements) <= IF c = "8E" THEN 65535 ELSE 255
  /\ \A i \in 1..Len(r.elements) : ElementOK(c, r.elements[i])

MessageOK(c, m) ==
  CASE c = "12" -> m.type \in {"command", "response"}
    [] c = "13" -> m.type = "response"
    [] c = "14" -> m.type \in {"command", "response", "notExecuted"}
    [] c = "15" -> TRUE

Encodable(c, items) ==
  /\ Len(items) <= 255
  /\ \A i \in 1..Len(items) :
       IF IsCommandCodec(c) THEN MessageOK(c, items[i]) ELSE RecordOK(c, items[i])
-----------------------------------------------------------------------------
(* encodeElements*: for each width the elements of that width in order,    *)
(* preceded by their number, and for codec 8 extended the others with      *)
(* their lengths.                                                          *)
PutElement(c, e) ==
  [kind |-> "element", id |-> e.id, len |-> e.len,
   w |-> (IF c = "8" THEN 1 ELSE 2) + (IF e.len \in FixedWidths THEN 0 ELSE 2) + e.len]

PutElements(c, chosen) ==
  <<[kind |-> "group", n |-> Len(chosen), w |-> IF c = "8E" THEN 2 ELSE 1]>>
    \o [i \in 1..Len(chosen) |-> PutElement(c, chosen[i])]

(* The elements with values of these lengths, in their order.              *)
Chosen(elements, lengths) ==
  LET chosen[i \in 0..Len(elements)] ==
        IF i = 0 THEN <<>>
        ELSE IF elements[i].len \in lengths THEN Append(chosen[i - 1], elements[i])
        ELSE chosen[i - 1]
  IN  chosen[Len(elements)]

OfWidth(elements, width) == Chosen(elements, {width})
OfNoFixedWidth(elements) == Chosen(elements, Nat \ FixedWidths)

(* Mutant: the fifth group is left out when it is empty.                   *)
PutGroupsNotEmpty(c, elements) ==
  PutElements(c, OfWidth(elements, 1)) \o PutElements(c, OfWidth(elements, 2))
    \o PutElements(c, OfWidth(elements, 4)) \o PutElements(c, OfWidth(elements, 8))
    \o IF c = "8E" /\ OfNoFixedWidth(elements) # <<>>
       THEN PutElements(c, OfNoFixedWidth(elements)) ELSE <<>>

PutGroups(c, elements) ==
  PutElements(c, OfWidth(elements, 1)) \o PutElements(c, OfWidth(elements, 2))
    \o PutElements(c, OfWidth(elements, 4)) \o PutElements(c, OfWidth(elements, 8))
    \o IF c = "8E" THEN PutElements(c, OfNoFixedWidth(elements)) ELSE <<>>

PutRecord(c, r) ==
  <<[kind |-> "record", event |-> r.event, gen |-> r.gen, total |-> Len(r.elements),
     w |-> 24 + IF c = "8" THEN 2 ELSE 4]>>
    \o PutGroups(c, r.elements)

(* encodeMessage.  The IMEI goes out in hexadecimal, after a "0" if it has *)
(* an odd number of digits.                                                *)
Pad(imei) ==
  IF (imei.zeros + imei.digits) % 2 = 1 THEN [imei EXCEPT !.zeros = @ + 1] ELSE imei

PutMessage(c, m) ==
  LET extra == CASE c = "12" -> 0 [] c = "13" -> 4 [] c = "14" -> 8 [] c = "15" -> 12
  IN  <<[kind |-> "message", type |-> m.type, declared |-> m.text + extra,
         imei |-> Pad(m.imei), w |-> 5 + extra + m.text]>>

PutItem(c, item) == IF IsCommandCodec(c) THEN PutMessage(c, item) ELSE PutRecord(c, item)

(* encodePacket: what both transports carry.                               *)
PutPacket(c, items) ==
  <<[kind |-> "header", codec |-> c, count |-> Len(items), w |-> 2]>>
    \o FlattenSeq([i \in 1..Len(items) |-> PutItem(c, items[i])])
    \o <<[kind |-> "tail", n |-> Len(items), w |-> 1]>>

(* encodeTCPInternal.  It makes frames of any size, also of more than the  *)
(* 1280 bytes that the decoder takes.                                      *)
EncodeTCP(c, items) ==
  <<[kind |-> "frame", zero |-> TRUE, length |-> DataSize(c, items, 3), whole |-> TRUE,
     w |-> 8]>>
    \o PutPacket(c, items)
    \o <<[kind |-> "crc", matches |-> TRUE, w |-> 4]>>

(* encodeUDPInternal, for an IMEI of n characters.                         *)
UDPSize(c, items, n) == DataSize(c, items, 11 + n)

EncodeUDP(c, items, n) ==
  <<[kind |-> "frame", zero |-> TRUE, length |-> UDPSize(c, items, n) - 2, whole |-> TRUE,
     w |-> 5],
    [kind |-> "prefix", imei |-> n, w |-> 3 + n]>>
    \o PutPacket(c, items)
=============================================================================

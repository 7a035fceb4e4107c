--------------------------- MODULE MCAvlRoundTrip ---------------------------
(* Packets of up to two records or messages, of every codec, and foreign   *)
(* frames whose fields take a few values each.                             *)
EXTENDS AvlRoundTrip

(* An IMEI of 15 digits, without and with a leading zero.                  *)
Plain  == [zeros |-> 0, digits |-> 15]
Zeroed == [zeros |-> 1, digits |-> 14]

SomeElements == [id : {7, 300}, len : {0, 1, 2, 3, 4, 8}]

(* Records of up to three elements alone, shorter ones in pairs.           *)
RecordsOf(n) ==
  [event : {7}, gen : {0, 8}, elements : UNION {[1..k -> SomeElements] : k \in 0..n}]
  \cup [event : {300}, gen : {7}, elements : {<<>>, <<[id |-> 7, len |-> 1]>>}]

(* Texts up to and over the limit of a frame.                              *)
MessagesOf(texts) == [type : MessageTypes, text : texts, imei : {Plain, Zeroed}]

DataPackets ==
  [codec : DataCodecs, items : {<<r>> : r \in RecordsOf(3)} \cup {<<>>}
                               \cup [1..2 -> RecordsOf(1)]]

CommandPackets ==
  [codec : CommandCodecs, items : {<<m>> : m \in MessagesOf({0, 1, 1249, 1260, 1272, 1273})}
                                  \cup {<<>>} \cup [1..2 -> MessagesOf({0, 5})]]

(* A 15-digit IMEI in the 16 digits of eight bytes.                        *)
SomeImeis == {[zeros |-> 1, digits |-> 15]}

SomePackets == DataPackets \cup CommandPackets
=============================================================================

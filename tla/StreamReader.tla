---------------------------- MODULE StreamReader ----------------------------
(***************************************************************************)
(* How the TCP server gets its frames out of a byte stream.  A tracker     *)
(* writes a length, its IMEI, and then pings and frames; TCP delivers      *)
(* these bytes in segments of any size.  handleConnection reads the length *)
(* and the IMEI straight from the connection, with one Read each, and      *)
(* everything else through a bufio.Reader: Peek to tell a ping from a      *)
(* frame, and readFromReader, which repeats Read until it has what it      *)
(* needs, for the header and for the rest of a frame.                      *)
(*                                                                         *)
(* All frames of a connection are read into the same readBuffer, and the   *)
(* values of a decoded packet are slices of it (OnReadBuffer).  Here the   *)
(* buffer holds bytes that know which unit of the conversation they are    *)
(* from.  A frame's checks (AvlDecoder) are reduced to its kind.           *)
(***************************************************************************)
EXTENDS Naturals, Sequences, FiniteSets, SequencesExt

CONSTANTS
  Greetings,     (* what trackers announce themselves with, of Greeting    *)
  Conversations, (* what they write after it: sequences of UnitKinds       *)
  ImeiSize,      (* bytes of the IMEI                                      *)
  HeaderSize,    (* bytes of a frame's header                              *)
  RestSize       (* bytes of the rest of a frame                           *)

(* An IMEI, one of white space only, and a length beyond the buffer.       *)
Greeting == {"imei", "blank", "oversized"}

(* AVL data, a command's response, a frame with a length beyond 1280, and  *)
(* one that is refused when it is decoded.                                 *)
FrameKinds == {"data", "message", "oversized", "malformed"}
UnitKinds  == {"ping"} \cup FrameKinds

ASSUME StreamAssumption ==
  /\ Greetings \subseteq Greeting
  /\ Conversations \subseteq Seq(UnitKinds)
  /\ {ImeiSize, HeaderSize, RestSize} \subseteq Nat \ {0}

VARIABLES
  greeting,   (* what this tracker announces itself with                   *)
  units,      (* what it writes after that                                 *)
  arrived,    (* how many of its bytes have reached the socket             *)
  read,       (* how many have been read from the socket                   *)
  consumed,   (* how many handleConnection has got; the bufio.Reader has   *)
              (* those between consumed and read                           *)
  at,         (* what handleConnection does                                *)
  need,       (* bytes readFromReader still waits for                      *)
  readBuffer, (* what is in the buffer, up to where it was filled          *)
  frames,     (* the units decoded so far                                  *)
  acks,       (* the units answered so far                                 *)
  hooks,      (* hookSend goroutines, as the packets they hold             *)
  posts       (* what they posted                                          *)

tracker == <<greeting, units, arrived>>
input == <<read, consumed, need, readBuffer>>
output == <<frames, acks, hooks, posts>>
streamVars == <<tracker, input, at, output>>

ReaderState == {"length", "imei", "peek", "header", "rest", "answer", "onpacket",
                "closed", "refused"}

(* A byte, as its place in a unit; unit 0 is the greeting.                 *)
Byte == [unit : Nat, part : {"length", "imei", "ping", "header", "rest", "none"}, nr : Nat]

BytesOf(k, part, n) == [i \in 1..n |-> [unit |-> k, part |-> part, nr |-> i]]

UnitBytes(k) ==
  IF units[k] = "ping" THEN BytesOf(k, "ping", 1)
  ELSE BytesOf(k, "header", HeaderSize) \o BytesOf(k, "rest", RestSize)

Stream ==
  BytesOf(0, "length", 2) \o BytesOf(0, "imei", ImeiSize)
  \o FlattenSeq([k \in DOMAIN units |-> UnitBytes(k)])

(* readBuffer has room for the largest frame, and is zero at first.        *)
EmptyBuffer == BytesOf(0, "none", HeaderSize + RestSize)

Smaller(m, n) == IF m <= n THEN m ELSE n

(* The array after bytes were written to it behind its first n.            *)
Overwrite(array, n, bytes) ==
  [i \in DOMAIN array |->
     IF i \in (n + 1)..(n + Len(bytes)) THEN bytes[i - n] ELSE array[i]]

(* The numbers are in their order, and there is a packet to answer or to   *)
(* hand on in the states that do so.                                       *)
StreamTypeOK ==
  /\ greeting \in Greetings
  /\ units \in Conversations
  /\ arrived \in 0..Len(Stream) /\ read \in 0..arrived /\ consumed \in 0..read
  /\ at \in ReaderState
  /\ need \in 0..(HeaderSize + RestSize)
  /\ readBuffer \in [1..(HeaderSize + RestSize) -> Byte]
  /\ frames \in Seq(DOMAIN units) /\ acks \in Seq(DOMAIN units)
  /\ hooks \subseteq DOMAIN units
  /\ posts \subseteq [packet : DOMAIN units, from : SUBSET Nat]
  /\ at \in {"answer", "onpacket"} => frames # <<>>

StreamInit ==
  /\ greeting \in Greetings
  /\ units \in Conversations
  /\ arrived = 0 /\ read = 0 /\ consumed = 0
  /\ at = "length"
  /\ need = 0
  /\ readBuffer = EmptyBuffer
  /\ frames = <<>> /\ acks = <<>>
  /\ hooks = {} /\ posts = {}

(* The network delivers a byte; what it delivers at once is read at once.  *)
Arrive ==
  /\ arrived < Len(Stream)
  /\ arrived' = arrived + 1
  /\ UNCHANGED <<greeting, units, input, at, output>>

(* A read, a write or a deadline fails, or a rival has closed the socket.  *)
(* A bufio.Reader goes to the socket only when it has nothing left, but    *)
(* the deadline is set before each Peek.                                   *)
Fail ==
  /\ \/ at \in {"length", "imei", "peek", "answer"}
     \/ at \in {"header", "rest"} /\ need > 0 /\ consumed = read
  /\ at' = "closed"
  /\ UNCHANGED <<tracker, input, output>>
-----------------------------------------------------------------------------
(***************************************************************************)
(* The greeting: conn.Read(buf[:2]) and conn.Read(buf[:imeiLen]).          *)
(***************************************************************************)
Read(n) ==
  /\ arrived > read
  /\ read' = read + Smaller(n, arrived - read)
  /\ consumed' = read'
  /\ UNCHANGED <<tracker, need, readBuffer, output>>

(* One Read must bring both bytes.                                         *)
ReadLength ==
  /\ at = "length"
  /\ Read(2)
  /\ at' = IF read' = 2 /\ greeting # "oversized" THEN "imei" ELSE "closed"

(* Mutant: a short read of the IMEI is not noticed.                        *)
ReadSomeImei ==
  /\ at = "imei"
  /\ Read(ImeiSize)
  /\ at' = IF greeting = "imei" THEN "peek" ELSE "closed"

(* One Read must bring the whole IMEI.                                     *)
ReadImei ==
  /\ at = "imei"
  /\ Read(ImeiSize)
  /\ at' = IF read' = 2 + ImeiSize /\ greeting = "imei" THEN "peek" ELSE "closed"
-----------------------------------------------------------------------------
(***************************************************************************)
(* Behind the bufio.Reader.                                                *)
(***************************************************************************)

(* A Read of the connection into the empty bufio.Reader, whose 4096 bytes  *)
(* are more than any conversation here has.                                *)
Fill ==
  /\ at \in {"peek", "header", "rest"}
  /\ at # "peek" => need > 0
  /\ consumed = read /\ read < arrived
  /\ read' = arrived
  /\ UNCHANGED <<tracker, consumed, need, readBuffer, at, output>>

NextByte == Stream[consumed + 1]

(* Mutant: the ping is seen and not discarded.                             *)
KeepPing ==
  /\ at = "peek" /\ consumed < read
  /\ NextByte.part = "ping"
  /\ UNCHANGED streamVars

DiscardPing ==
  /\ at = "peek" /\ consumed < read
  /\ NextByte.part = "ping"
  /\ consumed' = consumed + 1
  /\ UNCHANGED <<tracker, read, need, readBuffer, at, output>>

(* decodeTCPInternal: header = outputBuffer[:headerSize]                   *)
BeginFrame ==
  /\ at = "peek" /\ consumed < read
  /\ NextByte.part # "ping"
  /\ at' = "header"
  /\ need' = HeaderSize
  /\ UNCHANGED <<tracker, read, consumed, readBuffer, output>>

Filled == IF at = "header" THEN HeaderSize - need ELSE HeaderSize + RestSize - need

(* Mutant: what one Read brings is taken for all that was asked for.       *)
ReadOnce ==
  /\ at \in {"header", "rest"} /\ need > 0 /\ consumed < read
  /\ LET n == Smaller(need, read - consumed)
         bytes == SubSeq(Stream, consumed + 1, consumed + n)
     IN  /\ readBuffer' = Overwrite(readBuffer, Filled, bytes)
         /\ consumed' = consumed + n
         /\ need' = 0
  /\ UNCHANGED <<tracker, read, at, output>>

(* Mutant: what was asked for is counted, and not what came.               *)
ReadUncounted ==
  /\ at \in {"header", "rest"} /\ need > 0 /\ consumed < read
  /\ readBuffer' = Overwrite(readBuffer, Filled, SubSeq(Stream, consumed + 1, consumed + need))
  /\ consumed' = consumed + need
  /\ need' = 0
  /\ UNCHANGED <<tracker, read, at, output>>

(* One turn of the loop of readFromReader.                                 *)
ReadSome ==
  /\ at \in {"header", "rest"} /\ need > 0 /\ consumed < read
  /\ LET n == Smaller(need, read - consumed)
         bytes == SubSeq(Stream, consumed + 1, consumed + n)
     IN  /\ readBuffer' = Overwrite(readBuffer, Filled, bytes)
         /\ consumed' = consumed + n
         /\ need' = need - n
  /\ UNCHANGED <<tracker, read, at, output>>

(* The preamble and the length are checked; the length says how much more  *)
(* there is.  What is not a header has no preamble of zeros.               *)
HeaderRead ==
  /\ at = "header" /\ need = 0
  /\ LET k == readBuffer[1].unit
     IN  IF SubSeq(readBuffer, 1, HeaderSize) = BytesOf(k, "header", HeaderSize)
              /\ k \in DOMAIN units /\ units[k] # "oversized"
         THEN at' = "rest" /\ need' = RestSize
         ELSE at' = "refused" /\ UNCHANGED need
  /\ UNCHANGED <<tracker, read, consumed, readBuffer, output>>

(* The checksum is over what was read, so a frame of foreign bytes is      *)
(* refused like a malformed one.                                           *)
FrameRead ==
  /\ at = "rest" /\ need = 0
  /\ LET k == readBuffer[1].unit
     IN  IF SubSeq(readBuffer, HeaderSize + 1, HeaderSize + RestSize) = BytesOf(k, "rest", RestSize)
              /\ k \in DOMAIN units /\ units[k] # "malformed"
         THEN /\ frames' = Append(frames, k)
              /\ at' = IF units[k] = "data" THEN "answer" ELSE "onpacket"
         ELSE at' = "refused" /\ UNCHANGED frames
  /\ UNCHANGED <<tracker, input, acks, hooks, posts>>
-----------------------------------------------------------------------------
(***************************************************************************)
(* What is done with a packet.                                             *)
(***************************************************************************)
(* Mutant: a response that could not be written is only logged.            *)
AnswerOrNot ==
  /\ at = "answer"
  /\ acks' \in {acks, Append(acks, Last(frames))}
  /\ at' = "onpacket"
  /\ UNCHANGED <<tracker, input, frames, hooks, posts>>

Answer ==
  /\ at = "answer"
  /\ acks' = Append(acks, Last(frames))
  /\ at' = "onpacket"
  /\ UNCHANGED <<tracker, input, frames, hooks, posts>>

(* Mutant: the packet is handed on before it is answered.                  *)
HandOnFirst ==
  /\ at \in {"answer", "onpacket"}
  /\ hooks' = IF units[Last(frames)] = "data" THEN hooks \cup {Last(frames)} ELSE hooks
  /\ at' = "peek"
  /\ UNCHANGED <<tracker, input, frames, acks, posts>>

(* The buffer is logged, the values are decoded and logged, and OnPacket   *)
(* starts a hookSend for data; then the next frame is read.                *)
OnPacket ==
  /\ at = "onpacket"
  /\ hooks' = IF units[Last(frames)] = "data" THEN hooks \cup {Last(frames)} ELSE hooks
  /\ at' = "peek"
  /\ UNCHANGED <<tracker, input, frames, acks, posts>>

(* Mutant: the post has the elements' values too, which are slices of      *)
(* readBuffer.                                                             *)
PostValues(k) ==
  /\ k \in hooks
  /\ hooks' = hooks \ {k}
  /\ posts' = posts \cup {[packet |-> k, from |-> {b.unit : b \in ToSet(readBuffer)}]}
  /\ UNCHANGED <<tracker, input, at, frames, acks>>

(* hookSend posts times and coordinates, which the decoder has copied out  *)
(* of the buffer; "from" is where the contents of the post are from.       *)
Post(k) ==
  /\ k \in hooks
  /\ hooks' = hooks \ {k}
  /\ posts' = posts \cup {[packet |-> k, from |-> {k}]}
  /\ UNCHANGED <<tracker, input, at, frames, acks>>

PostFails(k) ==
  /\ k \in hooks
  /\ hooks' = hooks \ {k}
  /\ UNCHANGED <<tracker, input, at, frames, acks, posts>>
-----------------------------------------------------------------------------
Connection ==
  \/ ReadLength \/ ReadImei
  \/ Fill \/ DiscardPing \/ BeginFrame \/ ReadSome \/ HeaderRead \/ FrameRead
  \/ Answer \/ OnPacket

Places == UNION {DOMAIN c : c \in Conversations}

StreamNext ==
  \/ Arrive \/ Fail \/ Connection
  \/ \E k \in DOMAIN units : Post(k) \/ PostFails(k)

(* The goroutine goes on whenever there is something to read or to do, and *)
(* a post ends.  Nothing need arrive, and nothing need fail.               *)
StreamFairness ==
  /\ WF_streamVars(Connection)
  /\ \A k \in Places : WF_streamVars(Post(k) \/ PostFails(k))

StreamSpec == StreamInit /\ [][StreamNext]_streamVars /\ StreamFairness
-----------------------------------------------------------------------------
(***************************************************************************)
(* Properties.                                                             *)
(***************************************************************************)

(* Bytes up to the end of unit k, the greeting being unit 0.               *)
EndOf(k) ==
  LET pings == Cardinality({i \in DOMAIN units : i <= k /\ units[i] = "ping"})
  IN  2 + ImeiSize + pings + (k - pings) * (HeaderSize + RestSize)

InOrder(s) == \A i, j \in DOMAIN s : i < j => s[i] < s[j]

(* However the stream is cut into segments, the server looks for a ping or *)
(* a header exactly where the tracker begins a unit, and only after the    *)
(* whole greeting: a frame is never read as part of another, nor an IMEI   *)
(* taken that lacks its end.                                               *)
ReaderIsAligned ==
  /\ at = "peek" => \E k \in 0..Len(units) : consumed = EndOf(k)
  /\ at \in {"header", "rest"} => \E k \in 0..Len(units) : consumed = EndOf(k) + Filled

(* The frames that lie whole in what was consumed, and no others, have     *)
(* been decoded, each once and in the order they were sent; of these, all  *)
(* data but possibly the last frame's has been answered, in this order.    *)
FramesAreTheStreams ==
  LET whole == {k \in DOMAIN units : EndOf(k) <= consumed /\ units[k] \in {"data", "message"}}
      data  == {k \in ToSet(frames) : units[k] = "data"}
  IN  /\ InOrder(frames) /\ InOrder(acks)
      /\ ~(at = "rest" /\ need = 0) => ToSet(frames) = whole
      /\ \/ ToSet(acks) = data
         \/ /\ at \in {"answer", "closed"}
            /\ Last(frames) \in data /\ ToSet(acks) = data \ {Last(frames)}

(* A frame is refused only for what the tracker put into it, never for the *)
(* pieces it came in.                                                      *)
OnlyBadFramesAreRefused ==
  at = "refused" =>
    \E k \in DOMAIN units :
      /\ units[k] \in {"oversized", "malformed"}
      /\ EndOf(k - 1) < consumed /\ consumed <= EndOf(k)

(* What a hookSend posts is of its own packet, although the buffer that    *)
(* the packet's values point into has been used again in the meantime.     *)
PostsAreOfTheirPacket == \A p \in posts : p.from = {p.packet}

(* The server implements AvlDelivery: data is handed on after its answer   *)
(* was written, and once.                                                  *)
Delivery == INSTANCE AvlDelivery WITH
  Frames <- Places,
  acked <- [k \in Places |-> Cardinality({i \in DOMAIN acks : acks[i] = k})],
  owed <- [k \in Places |->
             IF \/ k \in hooks
                \/ at = "onpacket" /\ Last(frames) = k /\ k \in ToSet(acks)
             THEN 1 ELSE 0],
  reported <- [k \in Places |-> Cardinality({p \in posts : p.packet = k})]

StreamDeliverySpec == Delivery!Spec

(* What has arrived is read, although it came in pieces and nothing        *)
(* follows it, unless the connection ends.                                 *)
WhatArrivedIsRead ==
  \A k \in Places :
    (k \in DOMAIN units /\ EndOf(k) <= arrived)
      ~> (EndOf(k) <= consumed \/ at \in {"closed", "refused"})
=============================================================================

---------------------------- MODULE TrackerServer ----------------------------
(***************************************************************************)
(* The whole of examples/simple-tcp-server as main wires it: the hub of    *)
(* HTTPServer is TCPServer, whose OnPacket hands a message to WriteMessage *)
(* and whose OnClose calls ClientDisconnected.  Both run on the            *)
(* connection's goroutine, so a connection is not read while its callback  *)
(* is blocked.  A panic in either half stops both.                         *)
(*                                                                         *)
(* hookSend runs in a goroutine of its own and touches nothing here.       *)
(***************************************************************************)
EXTENDS TCPServer, HTTPServer

vars == <<tcpVars, httpVars>>

Init == TCPInit /\ HTTPInit
-----------------------------------------------------------------------------
(***************************************************************************)
(* OnPacket and OnClose.                                                   *)
(***************************************************************************)

(* A message goes to WriteMessage, a disconnection to ClientDisconnected.  *)
ReplyOf(c) ==
  IF pc[c] = "onpacket" THEN Message(c, packet[c].answers) ELSE Disconnected(c)

HasReply(c) ==
  pc[c] = "onclose" \/ (pc[c] = "onpacket" /\ packet[c].kind = "message")

CallbackReturn(c) == OnPacketReturn(c) \/ OnCloseReturn(c)

(* AVL data: at most a hookSend is started.                                *)
SkipData(c) ==
  /\ ~HasReply(c)
  /\ CallbackReturn(c)
  /\ UNCHANGED httpVars

NobodyWaits(c) ==
  /\ HasReply(c)
  /\ LoadMiss(c, imei[c])
  /\ CallbackReturn(c)

FindWaiter(c) ==
  /\ HasReply(c)
  /\ LoadHit(c, imei[c], ReplyOf(c))
  /\ UNCHANGED tcpVars

Deliver(c) == ChanSend(c) /\ CallbackReturn(c)

DeliverPanic(c) == ChanSendPanic(c) /\ UNCHANGED tcpVars

Callback(c) ==
  SkipData(c) \/ NobodyWaits(c) \/ FindWaiter(c) \/ Deliver(c) \/ DeliverPanic(c)
-----------------------------------------------------------------------------
(***************************************************************************)
(* hub.SendPacket, called by handleCmd.                                    *)
(***************************************************************************)
CommandNotFound(r) == SendError(r) /\ SendNotFound(r, target[r])

CommandLookup(r) ==
  /\ hpc[r] = "send"
  /\ SendLookup(r, target[r])
  /\ UNCHANGED httpVars

CommandWrite(r) == SendWrite(r) /\ SendDone(r)

CommandWriteFail(r) == SendWriteFail(r) /\ SendError(r)

SendCommand(r) ==
  CommandNotFound(r) \/ CommandLookup(r) \/ CommandWrite(r) \/ CommandWriteFail(r)
-----------------------------------------------------------------------------
Connection(c) ==
  \/ (Establish(c) \/ Serve(c) \/ Teardown(c)) /\ UNCHANGED httpVars
  \/ Callback(c)

Handler(r) == (Handle(r) /\ UNCHANGED tcpVars) \/ SendCommand(r)

Next ==
  /\ ~crashed
  /\ \/ \E c \in Conns : (Accept(c) /\ UNCHANGED httpVars) \/ Connection(c)
     \/ \E r \in Requests : (Arrive(r) /\ UNCHANGED tcpVars) \/ Handler(r)

(* Every goroutine that was started and is not blocked runs: see           *)
(* TCPFairness and HTTPFairness.                                           *)
Fairness ==
  /\ \A c \in Conns : WF_vars(~crashed /\ Connection(c))
  /\ \A r \in Requests : WF_vars(~crashed /\ Handler(r))

Spec == Init /\ [][Next]_vars /\ Fairness
-----------------------------------------------------------------------------
(***************************************************************************)
(* Properties.                                                             *)
(***************************************************************************)

(* A command reaches only a connection of the tracker it was posted for,   *)
(* and only one, although the registry may change hands between            *)
(* SendPacket's Load and its Write.                                        *)
CommandReachesItsTracker ==
  \A r \in Requests : \A c, d \in Conns :
    /\ r \in sent[c] => imei[c] = target[r]
    /\ r \in sent[c] \cap sent[d] => c = d

(* What a client is told came from a connection of the tracker it asked    *)
(* for: no interleaving of handlers and callbacks moves a reply or a       *)
(* disconnection to a request for another IMEI.                            *)
ReplyComesFromItsTracker ==
  \A r \in Requests :
    outcome[r].kind \in {"message", "disconnected"} =>
      /\ imei[outcome[r].from] = target[r]
      /\ outcome[r].kind = "disconnected" =>
           pc[outcome[r].from] \in {"onclose", "deregister", "close", "done"}

(* A reply that comes too late may be given to the next request for that   *)
(* tracker, but never while its own request still waits: nobody's reply is *)
(* taken away.                                                             *)
NoWaitingReplyIsStolen ==
  \A r, s \in Requests :
    /\ outcome[r].kind = "message" /\ outcome[r].answers = s
    /\ r # s
    => target[s] = target[r] /\ hpc[s] \in {"closing", "done"}

(* A connection's goroutine is held up in a callback only by a command for *)
(* its own tracker, and only while the handler of that command is there to *)
(* take a reply or to close the channel (main.go:339, 348 and 379).        *)
HeldUpByItsOwnCommand ==
  \A c \in Conns :
    call[c] # NoCall =>
      LET r == call[c].to
      IN  /\ target[r] = imei[c]
          /\ closed[r] \/ hpc[r] \in Holding \cup {"closing"}

(* A connection whose tracker is gone, or that was evicted, leaves: its    *)
(* goroutine is not held for ever by a command nobody answers.             *)
LeavingGoroutineEnds ==
  \A c \in Conns :
    (~open[c] /\ pc[c] # "listening") ~> (pc[c] = "done" \/ crashed)

(* Every posted command that got the slot of its tracker is answered.      *)
CommandIsAnswered ==
  \A r \in Requests : hpc[r] \in Holding ~> (hpc[r] = "done" \/ crashed)
-----------------------------------------------------------------------------
(* What the examples promise of the program: it processes the messages     *)
(* trackers send, and goes on doing so.                                    *)
ServerStaysUp == ~crashed

(* The examples show the answer to a command as the response of the        *)
(* request that posted it: a reply to one command is never given out as    *)
(* the reply to another.                                                   *)
ReplyAnswersTheCommand ==
  \A r \in Requests :
    outcome[r].kind = "message" => outcome[r].answers \in {r, NoReq}
=============================================================================

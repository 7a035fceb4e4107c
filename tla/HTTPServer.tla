----------------------------- MODULE HTTPServer -----------------------------
(***************************************************************************)
(* The HTTP half of examples/simple-tcp-server.  One goroutine per /cmd    *)
(* request runs handleCmd: it takes the slot of its IMEI in respChan by    *)
(* polling LoadOrStore, asks the hub to send the command, waits for a      *)
(* reply on its channel, and its deferred calls give the slot back and     *)
(* close the channel.  Connection goroutines bring replies by calling      *)
(* WriteMessage and ClientDisconnected, which look the channel up and then *)
(* send to it: two steps, between which the handler may do anything.       *)
(*                                                                         *)
(* A channel is named by the request that made it.                         *)
(***************************************************************************)
EXTENDS Fleet, Sequences, Naturals

VARIABLES
  hpc,       (* [Requests -> HandlerState], where handleCmd stands         *)
  target,    (* [Requests -> ImeiOrNone], its imei                         *)
  respChan,  (* [Imeis -> ReqOrNone], HTTPServer.respChan                  *)
  result,    (* [Requests -> Seq(Reply)], buffer of the result channel     *)
  closed,    (* [Requests -> BOOLEAN], close(result) was called            *)
  outcome,   (* [Requests -> Reply \cup Decided], what the client is told  *)
  call,      (* [Conns -> Call], a blocked or pending send to a channel    *)
  crashed    (* BOOLEAN, a goroutine panicked and took the process down    *)

httpVars == <<hpc, target, respChan, result, closed, outcome, call, crashed>>

HandlerState == {"idle", "acquire", "send", "wait", "release", "closing", "done"}

(* The states in which handleCmd owns the slot of its IMEI.                *)
Holding == {"send", "wait", "release"}

(* A reply as it travels: a tracker's message or the nil that stands for   *)
(* its disconnection, with the connection whose goroutine sent it and the  *)
(* command it answers (neither is in the code, both tell replies apart).   *)
Reply == [kind : {"message", "disconnected"}, from : Conns, answers : ReqOrNone]

NoReply  == [kind |-> "none", from |-> NoConn, answers |-> NoReq]
Rejected == [kind |-> "rejected", from |-> NoConn, answers |-> NoReq]
TimedOut == [kind |-> "timeout", from |-> NoConn, answers |-> NoReq]

Message(c, r)   == [kind |-> "message", from |-> c, answers |-> r]
Disconnected(c) == [kind |-> "disconnected", from |-> c, answers |-> NoReq]

Call   == [to : ReqOrNone, reply : Reply \cup {NoReply}]
NoCall == [to |-> NoReq, reply |-> NoReply]

ResultCap == 1

(* Every variable has its type, and no result channel holds more than its  *)
(* buffer.                                                                 *)
HTTPTypeOK ==
  /\ hpc \in [Requests -> HandlerState]
  /\ target \in [Requests -> ImeiOrNone]
  /\ respChan \in [Imeis -> ReqOrNone]
  /\ result \in [Requests -> Seq(Reply)]
  /\ \A r \in Requests : Len(result[r]) <= ResultCap
  /\ closed \in [Requests -> BOOLEAN]
  /\ outcome \in [Requests -> Reply \cup {NoReply, Rejected, TimedOut}]
  /\ call \in [Conns -> Call]
  /\ crashed \in BOOLEAN

HTTPInit ==
  /\ hpc = [r \in Requests |-> "idle"]
  /\ target = [r \in Requests |-> NoImei]
  /\ respChan = [i \in Imeis |-> NoReq]
  /\ result = [r \in Requests |-> <<>>]
  /\ closed = [r \in Requests |-> FALSE]
  /\ outcome = [r \in Requests |-> NoReply]
  /\ call = [c \in Conns |-> NoCall]
  /\ crashed = FALSE

Step(r, from, to) ==
  /\ hpc[r] = from
  /\ hpc' = [hpc EXCEPT ![r] = to]
-----------------------------------------------------------------------------
(***************************************************************************)
(* handleCmd.                                                              *)
(***************************************************************************)

(* A client posts a command for a tracker, known to the hub or not.        *)
Arrive(r) == \E i \in Imeis :
  /\ Step(r, "idle", "acquire")
  /\ target' = [target EXCEPT ![r] = i]
  /\ UNCHANGED <<respChan, result, closed, outcome, call, crashed>>

(* Mutant: Store for LoadOrStore, without the loop.                        *)
AcquireByStore(r) ==
  /\ Step(r, "acquire", "send")
  /\ respChan' = [respChan EXCEPT ![target[r]] = r]
  /\ UNCHANGED <<target, result, closed, outcome, call, crashed>>

(* LoadOrStore stored.  When it loads, the goroutine sleeps and retries.   *)
Acquire(r) ==
  /\ Step(r, "acquire", "send")
  /\ respChan[target[r]] = NoReq
  /\ respChan' = [respChan EXCEPT ![target[r]] = r]
  /\ UNCHANGED <<target, result, closed, outcome, call, crashed>>

(* hub.SendPacket returned an error: 400, and on to the deferred calls.    *)
SendError(r) ==
  /\ Step(r, "send", "release")
  /\ outcome' = [outcome EXCEPT ![r] = Rejected]
  /\ UNCHANGED <<target, respChan, result, closed, call, crashed>>

(* hub.SendPacket returned nil: the timer starts and select waits.         *)
SendDone(r) ==
  /\ Step(r, "send", "wait")
  /\ UNCHANGED <<target, respChan, result, closed, outcome, call, crashed>>

(* Mutant: the handler goes on waiting after the reply.                    *)
ReceiveAndStay(r) ==
  /\ result[r] # <<>>
  /\ Step(r, "wait", "wait")
  /\ outcome' = [outcome EXCEPT ![r] = Head(result[r])]
  /\ result' = [result EXCEPT ![r] = Tail(@)]
  /\ UNCHANGED <<target, respChan, closed, call, crashed>>

Receive(r) ==
  /\ result[r] # <<>>
  /\ Step(r, "wait", "release")
  /\ outcome' = [outcome EXCEPT ![r] = Head(result[r])]
  /\ result' = [result EXCEPT ![r] = Tail(@)]
  /\ UNCHANGED <<target, respChan, closed, call, crashed>>

(* Mutant: no timer.                                                       *)
NoTimeout(r) == Step(r, "wait", "wait") /\ hpc' # hpc /\ UNCHANGED httpVars

(* The timer fired; select may choose it even with a reply in the buffer.  *)
Timeout(r) ==
  /\ Step(r, "wait", "release")
  /\ outcome' = [outcome EXCEPT ![r] = TimedOut]
  /\ UNCHANGED <<target, respChan, result, closed, call, crashed>>

(* Mutant: the channel is closed before it is taken out of respChan.       *)
CloseListed(r) ==
  /\ Step(r, "release", "closing")
  /\ closed' = [closed EXCEPT ![r] = TRUE]
  /\ UNCHANGED <<target, respChan, result, outcome, call, crashed>>

(* Deferred, in reverse order: respChan.Delete(imei), then close(result).  *)
Release(r) ==
  /\ Step(r, "release", "closing")
  /\ respChan' = [respChan EXCEPT ![target[r]] = NoReq]
  /\ UNCHANGED <<target, result, closed, outcome, call, crashed>>

(* Mutant: no deferred close.                                              *)
LeaveOpen(r) ==
  /\ Step(r, "closing", "done")
  /\ UNCHANGED <<target, respChan, result, closed, outcome, call, crashed>>

CloseResult(r) ==
  /\ Step(r, "closing", "done")
  /\ closed' = [closed EXCEPT ![r] = TRUE]
  /\ UNCHANGED <<target, respChan, result, outcome, call, crashed>>
-----------------------------------------------------------------------------
(***************************************************************************)
(* WriteMessage(imei, message) and ClientDisconnected(imei), called by the *)
(* goroutine of connection c; they differ in the reply they send.          *)
(***************************************************************************)

(* Load found no channel: nobody waits for this tracker, and the call      *)
(* returns.                                                                *)
LoadMiss(c, i) ==
  /\ call[c] = NoCall
  /\ respChan[i] = NoReq
  /\ UNCHANGED httpVars

(* Mutant: a channel of another IMEI is used.                              *)
LoadAnyKey(c, i, reply) == \E j \in Imeis :
  /\ call[c] = NoCall
  /\ respChan[j] # NoReq
  /\ call' = [call EXCEPT ![c] = [to |-> respChan[j], reply |-> reply]]
  /\ UNCHANGED <<hpc, target, respChan, result, closed, outcome, crashed>>

(* Load found a channel; the goroutine is now about to send to it.         *)
LoadHit(c, i, reply) ==
  /\ call[c] = NoCall
  /\ respChan[i] # NoReq
  /\ call' = [call EXCEPT ![c] = [to |-> respChan[i], reply |-> reply]]
  /\ UNCHANGED <<hpc, target, respChan, result, closed, outcome, crashed>>

(* Mutant: the buffer has no limit.                                        *)
SendUnbounded(c) ==
  /\ call[c] # NoCall
  /\ ~closed[call[c].to]
  /\ result' = [result EXCEPT ![call[c].to] = Append(@, call[c].reply)]
  /\ call' = [call EXCEPT ![c] = NoCall]
  /\ UNCHANGED <<hpc, target, respChan, closed, outcome, crashed>>

(* The buffer has room and the call returns; while it is full the          *)
(* goroutine is blocked, for select has no other case.                     *)
ChanSend(c) ==
  /\ call[c] # NoCall
  /\ ~closed[call[c].to]
  /\ Len(result[call[c].to]) < ResultCap
  /\ result' = [result EXCEPT ![call[c].to] = Append(@, call[c].reply)]
  /\ call' = [call EXCEPT ![c] = NoCall]
  /\ UNCHANGED <<hpc, target, respChan, closed, outcome, crashed>>

(* A send on a closed channel panics, also one that was blocked when the   *)
(* channel was closed.  Nothing recovers in a connection's goroutine, so   *)
(* the process exits.                                                      *)
ChanSendPanic(c) ==
  /\ call[c] # NoCall
  /\ closed[call[c].to]
  /\ crashed' = TRUE
  /\ UNCHANGED <<hpc, target, respChan, result, closed, outcome, call>>
-----------------------------------------------------------------------------
(* handleCmd but for its call of the hub.                                  *)
Handle(r) == Acquire(r) \/ Receive(r) \/ Timeout(r) \/ Release(r) \/ CloseResult(r)

(* The most general hub and callers: SendPacket fails or succeeds at will, *)
(* and any connection's goroutine reports a message or a disconnection     *)
(* under any IMEI, one call at a time.                                     *)
HubAnswers(r) == SendError(r) \/ SendDone(r)
Report(c) ==
  \/ \E i \in Imeis : \/ LoadMiss(c, i)
                      \/ \E r \in ReqOrNone : LoadHit(c, i, Message(c, r))
                      \/ LoadHit(c, i, Disconnected(c))
  \/ ChanSend(c) \/ ChanSendPanic(c)

HTTPNext ==
  /\ ~crashed
  /\ \/ \E r \in Requests : Arrive(r) \/ Handle(r) \/ HubAnswers(r)
     \/ \E c \in Conns : Report(c)

(***************************************************************************)
(* The Go scheduler runs every runnable goroutine.  SendPacket returns     *)
(* because its Write has a deadline, and the select of handleCmd has a     *)
(* timer.  A goroutine that may send to a channel does so, but nobody has  *)
(* to call in.                                                             *)
(***************************************************************************)
HTTPFairness ==
  /\ \A r \in Requests : WF_httpVars(~crashed /\ (Handle(r) \/ HubAnswers(r)))
  /\ \A c \in Conns : WF_httpVars(~crashed /\ (ChanSend(c) \/ ChanSendPanic(c)))

HTTPSpec == HTTPInit /\ [][HTTPNext]_httpVars /\ HTTPFairness
-----------------------------------------------------------------------------
(***************************************************************************)
(* Properties.                                                             *)
(***************************************************************************)

(* LoadOrStore and the deferred Delete make respChan a lock: an entry is   *)
(* the channel of the one handler that is between the two for that IMEI,   *)
(* and no handler's Delete removes the entry of another.                   *)
SlotIsItsHolders ==
  \A r \in Requests : \A i \in Imeis :
    respChan[i] = r <=> hpc[r] \in Holding /\ target[r] = i

(* So two commands for one tracker are never in flight together.           *)
OneCommandInFlight ==
  \A r, s \in Requests :
    r # s /\ {hpc[r], hpc[s]} \subseteq Holding => target[r] # target[s]

(* While a handler still owns its slot its channel is open and every       *)
(* goroutine that found the channel can still deliver to it: a close can   *)
(* only surprise a call that looked the channel up before the Delete.      *)
ListedChannelIsOpen ==
  \A i \in Imeis : respChan[i] # NoReq => ~closed[respChan[i]]

(* The handlers implement the abstract slot, outcome for verdict.          *)
Slot == INSTANCE CommandSlot
          WITH holder <- respChan,
               verdict <- [r \in Requests |-> outcome[r].kind],
               over <- {r \in Requests : hpc[r] \in {"closing", "done"}}
SlotSpec == Slot!Spec
=============================================================================

----------------------------- MODULE UDPServer -----------------------------
(***************************************************************************)
(* examples/simple-udp-server: a loop reads datagrams from one socket and  *)
(* puts a copy of each on a channel of limited capacity; a pool of workers *)
(* takes them from it, decodes, answers, and calls OnPacket, which starts  *)
(* a goroutine per packet that posts it to the output hook.                *)
(*                                                                         *)
(* The network loses, duplicates and reorders datagrams and trackers send  *)
(* again what is not answered, so the next datagram to be read may be any  *)
(* frame of any tracker at any time; MaxReceptions bounds how often the    *)
(* same one comes.                                                         *)
(***************************************************************************)
EXTENDS Naturals, Sequences, FiniteSets

CONSTANTS
  Frames,        (* frames trackers send, whatever is in them              *)
  KindOf,        (* what the decoder makes of each frame, of Kinds         *)
  Workers,       (* the worker goroutines                                  *)
  HookIsSet,     (* whether outHook was given on the command line          *)
  MaxReceptions, (* how often each frame is received                       *)
  NoFrame

(* AVL data with records or without any, a command's response, a frame the *)
(* decoder refuses, and one whose length field makes it panic.             *)
Kinds == {"data", "empty", "command", "malformed", "short"}

ASSUME UDPAssumption ==
  /\ NoFrame \notin Frames
  /\ KindOf \in [Frames -> Kinds]
  /\ HookIsSet \in BOOLEAN
  /\ MaxReceptions \in [Frames -> Nat]
  /\ IsFiniteSet(Workers)

VARIABLES
  received,  (* [Frames -> Nat], how often the loop read it                *)
  packet,    (* the loop's packet, or NoFrame while it reads the socket    *)
  jobs,      (* the job channel                                            *)
  at,        (* [Workers -> WorkerState], where handleConnection stands    *)
  job,       (* [Workers -> Frames \cup {NoFrame}], what it works on       *)
  handled,   (* [Frames -> Nat], how often a worker was done with it       *)
  answered,  (* [Frames -> Nat], responses to it that were written         *)
  hooks,     (* [Frames -> Nat], hookSend goroutines that carry it         *)
  reported,  (* [Frames -> Nat], posts of it that reached the hook         *)
  crashed    (* the process has panicked                                   *)

udpVars == <<received, packet, jobs, at, job, handled, answered,
             hooks, reported, crashed>>
loopVars == <<received, packet>>
hookVars == <<answered, hooks, reported>>

WorkerState == {"idle", "decode", "answer", "notify"}

(* The response is made for AVL codecs, also when there are no records.    *)
Answered(f) == KindOf[f] \in {"data", "empty"}

(* make(chan job, r.workerCount)                                           *)
JobCap == Cardinality(Workers)

(* Every variable has its type, the channel holds no more than was made    *)
(* room for, and a worker has a frame exactly while it works.              *)
UDPTypeOK ==
  /\ received \in [Frames -> Nat]
  /\ packet \in Frames \cup {NoFrame}
  /\ jobs \in Seq(Frames) /\ Len(jobs) <= JobCap
  /\ at \in [Workers -> WorkerState]
  /\ job \in [Workers -> Frames \cup {NoFrame}]
  /\ handled \in [Frames -> Nat]
  /\ answered \in [Frames -> Nat]
  /\ hooks \in [Frames -> Nat]
  /\ reported \in [Frames -> Nat]
  /\ crashed \in BOOLEAN
  /\ \A w \in Workers : at[w] = "idle" <=> job[w] = NoFrame
  /\ \A w \in Workers : at[w] = "answer" => Answered(job[w])

UDPInit ==
  /\ received = [f \in Frames |-> 0]
  /\ packet = NoFrame
  /\ jobs = <<>>
  /\ at = [w \in Workers |-> "idle"]
  /\ job = [w \in Workers |-> NoFrame]
  /\ handled = [f \in Frames |-> 0]
  /\ answered = [f \in Frames |-> 0]
  /\ hooks = [f \in Frames |-> 0]
  /\ reported = [f \in Frames |-> 0]
  /\ crashed = FALSE
-----------------------------------------------------------------------------
(***************************************************************************)
(* Run: the receiving loop.                                                *)
(***************************************************************************)

(* Mutant: buf is queued instead of a copy, so that the next datagram      *)
(* overwrites what waits in the channel.                                   *)
ReceiveIntoSharedBuffer(f) ==
  /\ packet = NoFrame
  /\ received[f] < MaxReceptions[f]
  /\ received' = [received EXCEPT ![f] = @ + 1]
  /\ packet' = f
  /\ jobs' = [i \in DOMAIN jobs |-> f]
  /\ UNCHANGED <<at, job, handled, hookVars, crashed>>

Receive(f) ==
  /\ packet = NoFrame
  /\ received[f] < MaxReceptions[f]
  /\ received' = [received EXCEPT ![f] = @ + 1]
  /\ packet' = f
  /\ UNCHANGED <<jobs, at, job, handled, hookVars, crashed>>

(* Run returns the error and main panics with it.                          *)
ReceiveFails ==
  /\ packet = NoFrame
  /\ crashed' = TRUE
  /\ UNCHANGED <<loopVars, jobs, at, job, handled, hookVars>>

(* Mutant: the send does not wait for room in the channel.                 *)
EnqueueUnbounded ==
  /\ packet # NoFrame
  /\ jobs' = Append(jobs, packet)
  /\ packet' = NoFrame
  /\ UNCHANGED <<received, at, job, handled, hookVars, crashed>>

(* jobs <- job{packet, addr}: while the channel is full the loop does not  *)
(* read the socket, and the kernel drops what comes.                       *)
Enqueue ==
  /\ packet # NoFrame
  /\ Len(jobs) < JobCap
  /\ jobs' = Append(jobs, packet)
  /\ packet' = NoFrame
  /\ UNCHANGED <<received, at, job, handled, hookVars, crashed>>
-----------------------------------------------------------------------------
(***************************************************************************)
(* The workers: handleConnection.                                          *)
(***************************************************************************)
TakeJob(w) ==
  /\ at[w] = "idle"
  /\ jobs # <<>>
  /\ at' = [at EXCEPT ![w] = "decode"]
  /\ job' = [job EXCEPT ![w] = Head(jobs)]
  /\ jobs' = Tail(jobs)
  /\ UNCHANGED <<loopVars, handled, hookVars, crashed>>

(* handleConnection returns, and the worker goes back to the channel.      *)
Return(w) ==
  /\ at' = [at EXCEPT ![w] = "idle"]
  /\ job' = [job EXCEPT ![w] = NoFrame]
  /\ handled' = [handled EXCEPT ![job[w]] = @ + 1]

(* Mutant: an error of the decoder ends the worker.                        *)
RefusedForGood(w) ==
  /\ at[w] = "decode" /\ KindOf[job[w]] = "malformed"
  /\ UNCHANGED udpVars

Refused(w) ==
  /\ at[w] = "decode" /\ KindOf[job[w]] = "malformed"
  /\ Return(w)
  /\ UNCHANGED <<loopVars, jobs, hookVars, crashed>>

(* DecodeUDPFromSlice panics in the worker, which ends the process.        *)
DecodePanics(w) ==
  /\ at[w] = "decode" /\ KindOf[job[w]] = "short"
  /\ crashed' = TRUE
  /\ UNCHANGED <<loopVars, jobs, at, job, handled, hookVars>>

Decoded(w) ==
  /\ at[w] = "decode" /\ KindOf[job[w]] \in {"data", "empty", "command"}
  /\ at' = [at EXCEPT ![w] = IF Answered(job[w]) THEN "answer" ELSE "notify"]
  /\ UNCHANGED <<loopVars, jobs, job, handled, hookVars, crashed>>

Answer(w) ==
  /\ at[w] = "answer"
  /\ at' = [at EXCEPT ![w] = "notify"]
  /\ answered' = [answered EXCEPT ![job[w]] = @ + 1]
  /\ UNCHANGED <<loopVars, jobs, job, handled, hooks, reported, crashed>>

(* Mutant: a failed WriteToUDP is only logged, and the packet handed on.   *)
AnswerFailsUnnoticed(w) ==
  /\ at[w] = "answer"
  /\ Return(w)
  /\ hooks' = [hooks EXCEPT ![job[w]] = @ + 1]
  /\ UNCHANGED <<loopVars, jobs, answered, reported, crashed>>

(* WriteToUDP failed: OnPacket is not called, the tracker sends it again.  *)
AnswerFails(w) ==
  /\ at[w] = "answer"
  /\ Return(w)
  /\ UNCHANGED <<loopVars, jobs, hookVars, crashed>>

(* OnPacket: go hookSend, if there is Data and an output hook.             *)
Notify(w) ==
  /\ at[w] = "notify"
  /\ Return(w)
  /\ hooks' = IF Answered(job[w]) /\ HookIsSet
              THEN [hooks EXCEPT ![job[w]] = @ + 1] ELSE hooks
  /\ UNCHANGED <<loopVars, jobs, answered, reported, crashed>>
-----------------------------------------------------------------------------
(***************************************************************************)
(* hookSend, one goroutine per packet.                                     *)
(***************************************************************************)
Post(f) ==
  /\ hooks[f] > 0
  /\ KindOf[f] = "data"
  /\ hooks' = [hooks EXCEPT ![f] = @ - 1]
  /\ reported' = [reported EXCEPT ![f] = @ + 1]
  /\ UNCHANGED <<loopVars, jobs, at, job, handled, answered, crashed>>

(* http.Post failed, or there is no record to post: nothing is kept.       *)
PostNothing(f) ==
  /\ hooks[f] > 0
  /\ hooks' = [hooks EXCEPT ![f] = @ - 1]
  /\ UNCHANGED <<loopVars, jobs, at, job, handled, answered, reported, crashed>>
-----------------------------------------------------------------------------
Loop == (\E f \in Frames : Receive(f)) \/ ReceiveFails \/ Enqueue

Worker(w) ==
  \/ TakeJob(w) \/ Refused(w) \/ DecodePanics(w) \/ Decoded(w)
  \/ Answer(w) \/ AnswerFails(w) \/ Notify(w)

Hook(f) == Post(f) \/ PostNothing(f)

UDPNext ==
  /\ ~crashed
  /\ Loop \/ (\E w \in Workers : Worker(w)) \/ (\E f \in Frames : Hook(f))

(* The goroutines run whenever they can: the loop goes on once there is    *)
(* room, no call of a worker blocks, and http.Post returns.  Nobody need   *)
(* send anything.                                                          *)
UDPFairness ==
  /\ WF_udpVars(~crashed /\ Enqueue)
  /\ \A w \in Workers : WF_udpVars(~crashed /\ Worker(w))
  /\ \A f \in Frames : WF_udpVars(~crashed /\ Hook(f))

UDPSpec == UDPInit /\ [][UDPNext]_udpVars /\ UDPFairness
-----------------------------------------------------------------------------
(***************************************************************************)
(* Properties.                                                             *)
(***************************************************************************)
(* Where a frame can be between the socket and the end of its handling.    *)
InFlight(f) ==
  (IF packet = f THEN 1 ELSE 0)
  + Cardinality({i \in DOMAIN jobs : jobs[i] = f})
  + Cardinality({w \in Workers : job[w] = f})

(* Each datagram that is read is handled by one worker, once: the channel  *)
(* and the pool lose none, double none and change none into another, also  *)
(* when the channel is full and the loop waits.                            *)
ReceptionsAreConserved ==
  \A f \in Frames : received[f] = InFlight(f) + handled[f]

(* The server implements AvlDelivery: data is handed on only after its     *)
(* answer was written, once per answer, however the workers overtake each  *)
(* other and however often a tracker sends the same frame.                 *)
Delivery == INSTANCE AvlDelivery WITH
  acked <- answered,
  owed <- [f \in Frames |->
             Cardinality({w \in Workers : job[w] = f /\ at[w] = "notify" /\ Answered(f)})
             + hooks[f]]

DeliverySpec == Delivery!Spec

(* Everything that was read is worked off, and every hookSend that was     *)
(* started ends: a full channel holds the loop up only for a time, and in  *)
(* the end nothing is left in the channel, in a worker or in a goroutine,  *)
(* unless the process has crashed.                                         *)
EverythingIsWorkedOff ==
  \A f \in Frames :
    (InFlight(f) > 0 \/ hooks[f] > 0)
      ~> ((InFlight(f) = 0 /\ hooks[f] = 0) \/ crashed)
=============================================================================

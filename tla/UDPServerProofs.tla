-------------------------- MODULE UDPServerProofs --------------------------
(***************************************************************************)
(* Theorems about UDPServer, for any number of workers and frames, of any  *)
(* kinds, received any number of times.                                    *)
(***************************************************************************)
EXTENDS UDPServer, FiniteSetTheorems, TLAPS

(***************************************************************************)
(* Counting in a sequence and among the workers.                           *)
(***************************************************************************)
Places(s, f) == {i \in DOMAIN s : s[i] = f}

(* Counting in a sequence gives a number.                                  *)
LEMMA PlacesAreFinite ==
  ASSUME NEW S, NEW s \in Seq(S), NEW f
  PROVE  IsFiniteSet(Places(s, f)) /\ Cardinality(Places(s, f)) \in Nat
<1>1. IsFiniteSet(1..Len(s))
  BY FS_Interval
<1>2. Places(s, f) \in SUBSET (1..Len(s))
  BY DEF Places
<1> QED BY <1>1, <1>2, FS_Subset, FS_CardinalityType

(* A frame that is appended is in one place more.                          *)
LEMMA PlacesAppend ==
  ASSUME NEW S, NEW s \in Seq(S), NEW x \in S, NEW f
  PROVE  Cardinality(Places(Append(s, x), f)) =
           Cardinality(Places(s, f)) + (IF x = f THEN 1 ELSE 0)
<1>1. CASE x = f
  <2>1. Places(Append(s, x), f) = Places(s, f) \cup {Len(s) + 1}
    BY <1>1 DEF Places
  <2>2. Len(s) + 1 \notin Places(s, f)
    BY DEF Places
  <2> QED BY <1>1, <2>1, <2>2, PlacesAreFinite, FS_AddElement
<1>2. CASE x # f
  <2>1. Places(Append(s, x), f) = Places(s, f)
    BY <1>2 DEF Places
  <2> QED BY <1>2, <2>1, PlacesAreFinite
<1> QED BY <1>1, <1>2

(* The first frame of a sequence has one place more than in its tail.      *)
LEMMA PlacesTail ==
  ASSUME NEW S, NEW s \in Seq(S), s # <<>>, NEW f
  PROVE  Cardinality(Places(s, f)) =
           Cardinality(Places(Tail(s), f)) + (IF Head(s) = f THEN 1 ELSE 0)
<1> DEFINE later == Places(s, f) \ {1}
           before == [i \in later |-> i - 1]
<1>1. Tail(s) \in Seq(S) /\ Head(s) = s[1] /\ Len(s) \in Nat \ {0}
  OBVIOUS
<1>2. IsFiniteSet(later) /\ Cardinality(later) \in Nat
  BY PlacesAreFinite, FS_RemoveElement, FS_CardinalityType
<1>3. before \in Bijection(later, Places(Tail(s), f))
  <2>1. \A i \in later : i \in 2..Len(s) /\ s[i] = f
    BY <1>1 DEF Places
  <2>2. \A i \in later : i - 1 \in Places(Tail(s), f)
    BY <1>1, <2>1 DEF Places
  <2>3. \A j \in Places(Tail(s), f) : j + 1 \in later /\ before[j + 1] = j
    BY <1>1 DEF Places
  <2>4. \A i, j \in later : before[i] = before[j] => i = j
    BY <2>1
  <2> QED BY <2>2, <2>3, <2>4 DEF Bijection, Injection, Surjection, IsInjective
<1>4. Cardinality(Places(Tail(s), f)) = Cardinality(later)
  BY <1>2, <1>3, FS_Bijection DEF ExistsBijection
<1>5. 1 \in Places(s, f) <=> Head(s) = f
  BY <1>1 DEF Places
<1> QED BY <1>2, <1>4, <1>5, PlacesAreFinite, FS_RemoveElement

WorkersOn(assigned, f) == {w \in Workers : assigned[w] = f}

(* So does counting among the workers.                                     *)
LEMMA WorkersOnAreFinite ==
  ASSUME NEW assigned, NEW f
  PROVE  /\ IsFiniteSet(WorkersOn(assigned, f))
         /\ Cardinality(WorkersOn(assigned, f)) \in Nat
<1>1. WorkersOn(assigned, f) \in SUBSET Workers
  BY DEF WorkersOn
<1> QED BY <1>1, UDPAssumption, FS_Subset, FS_CardinalityType

(* When a worker goes from one assignment to another, one count goes down  *)
(* and the other up.                                                       *)
LEMMA Reassign ==
  ASSUME NEW assigned, NEW later, NEW w \in Workers, NEW f,
         \A v \in Workers \ {w} : later[v] = assigned[v]
  PROVE  Cardinality(WorkersOn(later, f)) =
           Cardinality(WorkersOn(assigned, f))
             - (IF assigned[w] = f THEN 1 ELSE 0) + (IF later[w] = f THEN 1 ELSE 0)
<1> DEFINE before == WorkersOn(assigned, f)
           rest == before \ {w}
           after == WorkersOn(later, f)
<1>1. IsFiniteSet(before) /\ Cardinality(before) \in Nat
  BY WorkersOnAreFinite
<1>2. /\ IsFiniteSet(rest)
      /\ Cardinality(rest) = Cardinality(before) - (IF assigned[w] = f THEN 1 ELSE 0)
  <2>1. w \in before <=> assigned[w] = f
    BY DEF WorkersOn
  <2> QED BY <1>1, <2>1, FS_RemoveElement
<1>3. CASE later[w] = f
  <2>1. after = rest \cup {w}
    BY <1>3 DEF WorkersOn
  <2>2. w \notin rest
    OBVIOUS
  <2>3. Cardinality(after) = Cardinality(rest) + 1
    BY <1>2, <2>1, <2>2, FS_AddElement
  <2> QED BY <1>2, <1>3, <2>3
<1>4. CASE later[w] # f
  <2>1. after = rest
    BY <1>4 DEF WorkersOn
  <2>2. Cardinality(after) = Cardinality(rest)
    BY <2>1
  <2> HIDE DEF after, rest, before
  <2> QED BY <1>1, <1>2, <1>4, <2>2 DEF after, before
<1> QED BY <1>3, <1>4
-----------------------------------------------------------------------------
(***************************************************************************)
(* Types, and the bound of the channel.                                    *)
(***************************************************************************)
LEMMA JobCapIsNatural == JobCap \in Nat
BY UDPAssumption, FS_CardinalityType DEF JobCap

(* Nothing was received, and nobody works.                                 *)
LEMMA UDPTypeInit == UDPInit => UDPTypeOK
<1> SUFFICES ASSUME UDPInit PROVE UDPTypeOK
  OBVIOUS
<1>1. jobs \in Seq(Frames) /\ Len(jobs) <= JobCap
  BY JobCapIsNatural DEF UDPInit
<1>2. \A w \in Workers : at[w] = "idle" /\ job[w] = NoFrame
  BY DEF UDPInit
<1> QED BY <1>1, <1>2 DEF UDPInit, UDPTypeOK, WorkerState

(* No step of the loop, a worker or a hookSend breaks a type or the bound. *)
LEMMA UDPTypeStep == UDPTypeOK /\ [UDPNext]_udpVars => UDPTypeOK'
<1> SUFFICES ASSUME UDPTypeOK, [UDPNext]_udpVars PROVE UDPTypeOK'
  OBVIOUS
<1> USE UDPAssumption DEF UDPTypeOK, WorkerState, loopVars, hookVars
<1>1. ASSUME NEW f \in Frames, Receive(f) PROVE UDPTypeOK'
  BY <1>1 DEF Receive
<1>2. CASE ReceiveFails
  BY <1>2 DEF ReceiveFails
<1>3. CASE Enqueue
  <2>1. packet \in Frames /\ jobs' = Append(jobs, packet) /\ Len(jobs) < JobCap
    BY <1>3 DEF Enqueue
  <2>2. jobs' \in Seq(Frames) /\ Len(jobs') <= JobCap
    BY <2>1, JobCapIsNatural
  <2> QED BY <1>3, <2>2 DEF Enqueue, JobCap
<1>4. ASSUME NEW w \in Workers, Worker(w) PROVE UDPTypeOK'
  <2>1. CASE TakeJob(w)
    <3>1. Head(jobs) \in Frames /\ Tail(jobs) \in Seq(Frames) /\ Len(Tail(jobs)) < Len(jobs)
      BY <2>1, SMTT(30) DEF TakeJob
    <3>2. jobs' \in Seq(Frames) /\ Len(jobs') <= JobCap
      BY <2>1, <3>1, JobCapIsNatural DEF TakeJob
    <3> QED BY <2>1, <3>1, <3>2 DEF TakeJob, JobCap
  <2>0. ASSUME at[w] # "idle", Return(w)
        PROVE  /\ at' \in [Workers -> WorkerState] /\ job' \in [Workers -> Frames \cup {NoFrame}]
               /\ handled' \in [Frames -> Nat]
               /\ \A v \in Workers : at'[v] = "idle" <=> job'[v] = NoFrame
               /\ \A v \in Workers : at'[v] = "answer" => at[v] = "answer" /\ job'[v] = job[v]
    <3>1. job[w] \in Frames /\ handled[job[w]] \in Nat
      BY <2>0
    <3>2. handled' = [handled EXCEPT ![job[w]] = handled[job[w]] + 1]
      BY <2>0 DEF Return
    <3>3. handled' \in [Frames -> Nat]
      BY <3>1, <3>2
    <3>4. \A v \in Workers : v # w => at'[v] = at[v] /\ job'[v] = job[v]
      BY <2>0 DEF Return
    <3>5. at'[w] = "idle" /\ job'[w] = NoFrame
      BY <2>0 DEF Return
    <3>6. at' \in [Workers -> WorkerState] /\ job' \in [Workers -> Frames \cup {NoFrame}]
      BY <2>0 DEF Return
    <3> QED BY <3>3, <3>4, <3>5, <3>6
  <2>2. CASE Refused(w)
    BY <2>0, <2>2 DEF Refused, JobCap, Answered
  <2>3. CASE DecodePanics(w)
    BY <2>3 DEF DecodePanics, JobCap
  <2>4. CASE Decoded(w)
    BY <2>4 DEF Decoded, Answered, JobCap
  <2>5. CASE Answer(w)
    <3>1. job[w] \in Frames /\ answered[job[w]] \in Nat
      BY <2>5 DEF Answer
    <3>2. answered' = [answered EXCEPT ![job[w]] = answered[job[w]] + 1]
      BY <2>5 DEF Answer
    <3>3. answered' \in [Frames -> Nat]
      BY <3>1, <3>2
    <3> QED BY <2>5, <3>3 DEF Answer, JobCap
  <2>6. CASE AnswerFails(w)
    BY <2>0, <2>6 DEF AnswerFails, JobCap, Answered
  <2>7. CASE Notify(w)
    <3>1. hooks' \in [Frames -> Nat]
      <4>1. job[w] \in Frames /\ hooks[job[w]] \in Nat
        BY <2>7 DEF Notify
      <4>2. \/ hooks' = [hooks EXCEPT ![job[w]] = hooks[job[w]] + 1]
            \/ hooks' = hooks
        BY <2>7 DEF Notify
      <4>3. [hooks EXCEPT ![job[w]] = hooks[job[w]] + 1] \in [Frames -> Nat]
        BY <4>1, SMTT(30)
      <4> QED BY <4>2, <4>3
    <3>2. at[w] # "idle" /\ Return(w)
      BY <2>7 DEF Notify
    <3> QED BY <2>0, <2>7, <3>1, <3>2 DEF Notify, JobCap, Answered
  <2> QED BY <1>4, <2>1, <2>2, <2>3, <2>4, <2>5, <2>6, <2>7 DEF Worker
<1>5. ASSUME NEW f \in Frames, Hook(f) PROVE UDPTypeOK'
  <2>1. hooks' = [hooks EXCEPT ![f] = @ - 1] /\ hooks[f] \in Nat /\ hooks[f] > 0
    BY <1>5 DEF Hook, Post, PostNothing
  <2>2. hooks' \in [Frames -> Nat]
    BY <2>1
  <2>3. reported' \in [Frames -> Nat]
    <3>1. CASE Post(f)
      <4>1. reported' = [reported EXCEPT ![f] = reported[f] + 1] /\ reported[f] \in Nat
        BY <3>1 DEF Post
      <4> QED BY <4>1
    <3>2. CASE PostNothing(f)
      BY <3>2 DEF PostNothing
    <3> QED BY <1>5, <3>1, <3>2 DEF Hook
  <2> QED BY <1>5, <2>2, <2>3 DEF Hook, Post, PostNothing, JobCap
<1>6. CASE UNCHANGED udpVars
  BY <1>6 DEF udpVars, JobCap
<1> QED BY <1>1, <1>2, <1>3, <1>4, <1>5, <1>6 DEF UDPNext, Loop

(* The variables have their types, the channel keeps within its room, and  *)
(* a worker has a frame exactly while it works.                            *)
THEOREM UDPTypeCorrect == UDPSpec => []UDPTypeOK
BY UDPTypeInit, UDPTypeStep, PTL DEF UDPSpec
-----------------------------------------------------------------------------
(***************************************************************************)
(* Receptions are conserved.                                               *)
(***************************************************************************)
One(condition) == IF condition THEN 1 ELSE 0

(* InFlight in terms of the two counts.                                    *)
LEMMA InFlightCounts ==
  /\ \A f : InFlight(f) = One(packet = f) + Cardinality(Places(jobs, f))
                          + Cardinality(WorkersOn(job, f))
  /\ \A f : InFlight(f)' = One(packet' = f) + Cardinality(Places(jobs', f))
                           + Cardinality(WorkersOn(job', f))
BY DEF InFlight, One, Places, WorkersOn

(* What a step does to the counts of one frame.                            *)
LEMMA ConservedStep ==
  UDPTypeOK /\ ReceptionsAreConserved /\ [UDPNext]_udpVars => ReceptionsAreConserved'
<1> SUFFICES ASSUME UDPTypeOK, ReceptionsAreConserved, [UDPNext]_udpVars, NEW f \in Frames
             PROVE  (received[f] = InFlight(f) + handled[f])'
  BY DEF ReceptionsAreConserved
<1> DEFINE waiting == Cardinality(Places(jobs, f))
           working == Cardinality(WorkersOn(job, f))
<1>1. received[f] = One(packet = f) + waiting + working + handled[f]
  BY InFlightCounts DEF ReceptionsAreConserved
<1>2. waiting \in Nat /\ working \in Nat /\ received[f] \in Nat /\ handled[f] \in Nat
  BY PlacesAreFinite, WorkersOnAreFinite DEF UDPTypeOK
<1> SUFFICES received'[f] = One(packet' = f) + waiting' + working' + handled'[f]
  BY InFlightCounts
<1> HIDE DEF waiting, working
<1> USE DEF loopVars, hookVars
<1>3. ASSUME UNCHANGED <<received, packet, jobs, job, handled>>
      PROVE  received'[f] = One(packet' = f) + waiting' + working' + handled'[f]
  BY <1>1, <1>3 DEF waiting, working
<1>4. ASSUME NEW g \in Frames, Receive(g)
      PROVE  received'[f] = One(packet' = f) + waiting' + working' + handled'[f]
  <2>1. packet = NoFrame /\ packet' = g /\ UNCHANGED <<waiting, working, handled>>
    BY <1>4 DEF Receive, waiting, working
  <2>2. received'[f] = received[f] + One(g = f)
    BY <1>2, <1>4 DEF Receive, UDPTypeOK, One
  <2> QED BY <1>1, <1>2, <2>1, <2>2, UDPAssumption DEF One
<1>5. CASE Enqueue
  <2>1. packet \in Frames /\ packet' = NoFrame /\ UNCHANGED <<received, working, handled>>
    BY <1>5 DEF Enqueue, UDPTypeOK, working
  <2>2. waiting' = waiting + One(packet = f)
    BY <1>5, <2>1, PlacesAppend DEF Enqueue, UDPTypeOK, One, waiting
  <2> QED BY <1>1, <1>2, <2>1, <2>2, UDPAssumption DEF One
<1>6. ASSUME NEW w \in Workers, TakeJob(w)
      PROVE  received'[f] = One(packet' = f) + waiting' + working' + handled'[f]
  <2>1. job[w] = NoFrame /\ NoFrame # f /\ UNCHANGED <<received, packet, handled>>
    BY <1>6, UDPAssumption DEF TakeJob, UDPTypeOK
  <2>2. waiting = waiting' + One(Head(jobs) = f)
    BY <1>6, PlacesTail DEF TakeJob, UDPTypeOK, One, waiting
  <2>3. working' = working + One(Head(jobs) = f)
    <3>1. job'[w] = Head(jobs)
      BY <1>6 DEF TakeJob, UDPTypeOK
    <3>2. \A v \in Workers \ {w} : job'[v] = job[v]
      BY <1>6 DEF TakeJob, UDPTypeOK
    <3>3. Cardinality(WorkersOn(job', f))
            = Cardinality(WorkersOn(job, f)) - (IF job[w] = f THEN 1 ELSE 0)
                + (IF job'[w] = f THEN 1 ELSE 0)
      BY <3>2, Reassign
    <3> QED BY <1>2, <2>1, <3>1, <3>3 DEF One, working
  <2>4. waiting' \in Nat /\ One(Head(jobs) = f) \in Nat
    <3>1. jobs' \in Seq(Frames)
      BY <1>6 DEF TakeJob, UDPTypeOK
    <3> QED BY <3>1, PlacesAreFinite DEF One, waiting
  <2> QED BY <1>1, <1>2, <2>1, <2>2, <2>3, <2>4 DEF One
<1>7. ASSUME NEW w \in Workers, at[w] # "idle", Return(w), UNCHANGED <<loopVars, jobs>>
      PROVE  received'[f] = One(packet' = f) + waiting' + working' + handled'[f]
  <2>1. job[w] \in Frames /\ NoFrame # f
    BY <1>7, UDPAssumption DEF UDPTypeOK
  <2>2. working' = working - One(job[w] = f)
    <3>1. job'[w] = NoFrame
      BY <1>7 DEF Return, UDPTypeOK
    <3>2. \A v \in Workers \ {w} : job'[v] = job[v]
      BY <1>7 DEF Return, UDPTypeOK
    <3>3. Cardinality(WorkersOn(job', f))
            = Cardinality(WorkersOn(job, f)) - (IF job[w] = f THEN 1 ELSE 0)
                + (IF job'[w] = f THEN 1 ELSE 0)
      BY <3>2, Reassign
    <3> QED BY <1>2, <2>1, <3>1, <3>3 DEF One, working
  <2>3. handled'[f] = handled[f] + One(job[w] = f)
    BY <1>2, <1>7, <2>1, SMTT(30) DEF Return, UDPTypeOK, One
  <2>4. waiting' = waiting
    BY <1>7 DEF waiting
  <2> QED BY <1>1, <1>2, <1>7, <2>2, <2>3, <2>4 DEF One
<1>8. ASSUME NEW w \in Workers, Worker(w)
      PROVE  received'[f] = One(packet' = f) + waiting' + working' + handled'[f]
  <2>1. CASE TakeJob(w)
    BY <1>6, <2>1
  <2>2. CASE Refused(w) \/ AnswerFails(w) \/ Notify(w)
    <3>1. at[w] # "idle" /\ Return(w) /\ UNCHANGED <<loopVars, jobs>>
      BY <2>2 DEF Refused, AnswerFails, Notify
    <3> QED BY <1>7, <3>1
  <2>3. CASE DecodePanics(w) \/ Decoded(w) \/ Answer(w)
    BY <1>3, <2>3 DEF DecodePanics, Decoded, Answer
  <2> QED BY <1>8, <2>1, <2>2, <2>3 DEF Worker
<1>9. CASE ReceiveFails \/ (\E g \in Frames : Hook(g)) \/ UNCHANGED udpVars
  BY <1>3, <1>9 DEF ReceiveFails, Hook, Post, PostNothing, udpVars
<1> QED BY <1>4, <1>5, <1>8, <1>9 DEF UDPNext, Loop

(* Nothing was received yet.                                               *)
LEMMA ConservedInit == UDPInit => ReceptionsAreConserved
<1> SUFFICES ASSUME UDPInit, NEW f \in Frames
             PROVE  received[f] = InFlight(f) + handled[f]
  BY DEF ReceptionsAreConserved
<1>1. Places(jobs, f) = {} /\ WorkersOn(job, f) = {} /\ packet # f
  BY UDPAssumption DEF UDPInit, Places, WorkersOn
<1>2. Cardinality(Places(jobs, f)) = 0 /\ Cardinality(WorkersOn(job, f)) = 0
  BY <1>1, FS_EmptySet
<1> QED BY <1>1, <1>2, InFlightCounts DEF UDPInit, One

(* Each datagram that is read is handled by one worker, once: the channel  *)
(* and the pool of Run lose none, double none and change none.             *)
THEOREM ReceptionsConserved == UDPSpec => []ReceptionsAreConserved
<1>1. UDPInit => UDPTypeOK /\ ReceptionsAreConserved
  BY UDPTypeInit, ConservedInit
<1>2. UDPTypeOK /\ ReceptionsAreConserved /\ [UDPNext]_udpVars
        => (UDPTypeOK /\ ReceptionsAreConserved)'
  BY UDPTypeStep, ConservedStep
<1> QED BY <1>1, <1>2, PTL DEF UDPSpec
-----------------------------------------------------------------------------
(***************************************************************************)
(* The server implements AvlDelivery.                                      *)
(***************************************************************************)
(* The answered frame that a worker is about to hand on.                   *)
Noting == [w \in Workers |-> IF at[w] = "notify" /\ Answered(job[w]) THEN job[w] ELSE NoFrame]

Owed == [f \in Frames |-> Cardinality(WorkersOn(Noting, f)) + hooks[f]]

(* Owed is what AvlDelivery's owed is mapped to.                           *)
LEMMA OwedIsTheMapping ==
  /\ Delivery!deliveryVars = <<answered, Owed, reported>>
  /\ Delivery!deliveryVars' = <<answered', Owed', reported'>>
<1>1. ASSUME NEW f \in Frames
      PROVE  /\ WorkersOn(Noting, f) =
                  {w \in Workers : job[w] = f /\ at[w] = "notify" /\ Answered(f)}
             /\ WorkersOn(Noting', f) =
                  {w \in Workers : job'[w] = f /\ at'[w] = "notify" /\ Answered(f)}
  BY UDPAssumption DEF WorkersOn, Noting, Answered
<1>2. Owed = [f \in Frames |->
                Cardinality({w \in Workers : job[w] = f /\ at[w] = "notify" /\ Answered(f)})
                + hooks[f]]
  BY <1>1 DEF Owed
<1>3. Owed' = [f \in Frames |->
                 Cardinality({w \in Workers : job'[w] = f /\ at'[w] = "notify" /\ Answered(f)})
                 + hooks'[f]]
  BY <1>1 DEF Owed
<1> HIDE DEF Owed
<1> QED BY <1>2, <1>3 DEF Delivery!deliveryVars, Answered

(* What is owed is counted.                                                *)
LEMMA OwedType == UDPTypeOK => Owed \in [Frames -> Nat]
BY WorkersOnAreFinite DEF Owed, UDPTypeOK

(* What a step of one worker does to the count of a frame.                 *)
LEMMA NotingStep ==
  ASSUME NEW w \in Workers, \A v \in Workers \ {w} : at'[v] = at[v] /\ job'[v] = job[v], NEW f
  PROVE  Cardinality(WorkersOn(Noting', f)) =
           Cardinality(WorkersOn(Noting, f))
             - (IF Noting[w] = f THEN 1 ELSE 0) + (IF Noting'[w] = f THEN 1 ELSE 0)
<1>1. \A v \in Workers \ {w} : Noting'[v] = Noting[v]
  BY DEF Noting, Answered
<1> HIDE DEF Noting
<1> QED BY <1>1, Reassign, SMTT(30)

(* Nothing is owed yet.                                                    *)
LEMMA DeliveryInit == UDPInit => Delivery!Init
<1> SUFFICES ASSUME UDPInit PROVE Delivery!Init
  OBVIOUS
<1>1. ASSUME NEW f \in Frames PROVE WorkersOn(Noting, f) = {}
  BY UDPAssumption DEF UDPInit, WorkersOn, Noting
<1>2. Owed = [f \in Frames |-> 0]
  BY <1>1, FS_EmptySet, SMTT(30) DEF Owed, UDPInit
<1> QED BY <1>2, OwedIsTheMapping DEF UDPInit, Delivery!Init, Delivery!deliveryVars

(* Each step of the server is a step of AvlDelivery or leaves it alone.    *)
LEMMA DeliverySimulation ==
  UDPTypeOK /\ [UDPNext]_udpVars => [Delivery!Next]_<<answered, Owed, reported>>
<1> DEFINE Simulated == [Delivery!Next]_<<answered, Owed, reported>>
<1> SUFFICES ASSUME UDPTypeOK, [UDPNext]_udpVars PROVE Simulated
  OBVIOUS
<1>0. Owed \in [Frames -> Nat] /\ DOMAIN Owed' = Frames
  BY OwedType DEF Owed
<1>1. ASSUME NEW f \in Frames, Owed' = [Owed EXCEPT ![f] = @ + 1],
             answered' = [answered EXCEPT ![f] = @ + 1], UNCHANGED reported
      PROVE  Simulated
  <2>1. Delivery!Acknowledge(f)
    BY <1>1, OwedIsTheMapping DEF Delivery!Acknowledge, Delivery!deliveryVars
  <2> QED BY <2>1 DEF Delivery!Next
<1>2. ASSUME NEW f \in Frames, Owed[f] > 0, Owed' = [Owed EXCEPT ![f] = @ - 1], UNCHANGED answered,
             reported' = [reported EXCEPT ![f] = @ + 1] \/ reported' = reported
      PROVE  Simulated
  <2>1. Delivery!Settle(f)
    BY <1>2, OwedIsTheMapping DEF Delivery!Settle, Delivery!deliveryVars
  <2> QED BY <1>2, <2>1 DEF Delivery!Next, Delivery!Report, Delivery!Lose
<1>3. ASSUME UNCHANGED <<answered, reported>>, \A f \in Frames : Owed'[f] = Owed[f]
      PROVE  Simulated
  <2>1. Owed' = Owed
    BY <1>0, <1>3 DEF Owed
  <2> QED BY <1>3, <2>1
<1> HIDE DEF Simulated
<1> USE DEF loopVars, hookVars
<1>4. ASSUME UNCHANGED <<at, job, answered, hooks, reported>> PROVE Simulated
  BY <1>3, <1>4 DEF Owed, Noting, Answered
<1>5. ASSUME NEW w \in Workers, Worker(w) PROVE Simulated
  <2>1. ASSUME NEW f \in Frames
        PROVE  Cardinality(WorkersOn(Noting', f)) =
                 Cardinality(WorkersOn(Noting, f))
                   - (IF Noting[w] = f THEN 1 ELSE 0) + (IF Noting'[w] = f THEN 1 ELSE 0)
    <3>1. \A v \in Workers \ {w} : at'[v] = at[v] /\ job'[v] = job[v]
      BY <1>5 DEF Worker, TakeJob, Refused, DecodePanics, Decoded, Answer, AnswerFails, Notify,
                  Return, UDPTypeOK
    <3> QED BY <3>1, NotingStep
  <2>2. \A f \in Frames : /\ Owed[f] = Cardinality(WorkersOn(Noting, f)) + hooks[f]
                          /\ Owed'[f] = Cardinality(WorkersOn(Noting', f)) + hooks'[f]
                          /\ Cardinality(WorkersOn(Noting, f)) \in Nat
                          /\ hooks[f] \in Nat
    BY WorkersOnAreFinite DEF Owed, UDPTypeOK
  <2>3. ASSUME Noting[w] = NoFrame, Noting'[w] = NoFrame, UNCHANGED hookVars
        PROVE  Simulated
    <3>1. \A f \in Frames : Owed'[f] = Owed[f]
      BY <2>1, <2>2, <2>3, UDPAssumption
    <3> QED BY <1>3, <2>3, <3>1
  <2>4. CASE TakeJob(w) \/ Refused(w) \/ AnswerFails(w) \/ Decoded(w)
    <3>1. Noting[w] = NoFrame
      BY <2>4 DEF TakeJob, Refused, AnswerFails, Decoded, Noting
    <3>2. Noting'[w] = NoFrame
      BY <2>4 DEF TakeJob, Refused, AnswerFails, Decoded, Return, Noting, Answered, UDPTypeOK
    <3> QED BY <2>3, <2>4, <3>1, <3>2 DEF TakeJob, Refused, AnswerFails, Decoded
  <2>5. CASE DecodePanics(w)
    BY <1>4, <2>5 DEF DecodePanics
  <2>6. CASE Answer(w)
    <3>1. job[w] \in Frames /\ Answered(job[w])
      BY <2>6 DEF Answer, UDPTypeOK
    <3>2. Noting[w] = NoFrame /\ Noting'[w] = job[w]
      BY <2>6, <3>1 DEF Answer, Noting, Answered, UDPTypeOK
    <3>3. \A f \in Frames : Owed'[f] = IF f = job[w] THEN Owed[f] + 1 ELSE Owed[f]
      BY <2>1, <2>2, <2>6, <3>2, UDPAssumption DEF Answer
    <3>4. Owed' = [Owed EXCEPT ![job[w]] = @ + 1]
      BY <1>0, <3>1, <3>3 DEF Owed
    <3> QED BY <1>1, <2>6, <3>1, <3>4 DEF Answer
  <2>7. CASE Notify(w)
    <3>1. job[w] \in Frames /\ at[w] = "notify"
      BY <2>7 DEF Notify, UDPTypeOK
    <3>2. Noting'[w] = NoFrame
      BY <2>7 DEF Notify, Return, Noting, UDPTypeOK
    <3>3. UNCHANGED <<answered, reported>>
      BY <2>7 DEF Notify
    <3>4. CASE ~Answered(job[w])
      <4>1. Noting[w] = NoFrame
        BY <3>4 DEF Noting
      <4>2. UNCHANGED hookVars
        BY <2>7, <3>4 DEF Notify
      <4> QED BY <2>3, <3>2, <4>1, <4>2
    <3>5. CASE Answered(job[w]) /\ HookIsSet
      <4>1. Noting[w] = job[w]
        BY <3>1, <3>5 DEF Noting
      <4>2. \A f \in Frames : hooks'[f] = IF f = job[w] THEN hooks[f] + 1 ELSE hooks[f]
        BY <2>7, <3>1, <3>5 DEF Notify, UDPTypeOK
      <4>3. ASSUME NEW f \in Frames PROVE Owed'[f] = Owed[f]
        <5>1. Cardinality(WorkersOn(Noting', f)) =
                Cardinality(WorkersOn(Noting, f)) - (IF job[w] = f THEN 1 ELSE 0)
          BY <2>1, <2>2, <3>2, <4>1, UDPAssumption
        <5> QED BY <2>2, <4>2, <5>1
      <4> QED BY <1>3, <3>3, <4>3
    <3>6. CASE Answered(job[w]) /\ ~HookIsSet
      <4>1. Noting[w] = job[w]
        BY <3>1, <3>6 DEF Noting
      <4>2. hooks' = hooks
        BY <2>7, <3>6 DEF Notify
      <4>3. \A f \in Frames : Owed'[f] = IF f = job[w] THEN Owed[f] - 1 ELSE Owed[f]
        BY <2>1, <2>2, <3>2, <4>1, <4>2, UDPAssumption
      <4>4. Owed' = [Owed EXCEPT ![job[w]] = @ - 1]
        BY <1>0, <3>1, <4>3 DEF Owed
      <4>5. Owed[job[w]] > 0
        <5>1. Cardinality(WorkersOn(Noting, job[w])) # 0
          <6>1. w \in WorkersOn(Noting, job[w])
            BY <4>1 DEF WorkersOn
          <6> QED BY <6>1, WorkersOnAreFinite, FS_EmptySet
        <5> QED BY <2>2, <3>1, <5>1
      <4> QED BY <1>2, <3>1, <3>3, <4>4, <4>5
    <3> QED BY <3>4, <3>5, <3>6, UDPAssumption
  <2> QED BY <1>5, <2>4, <2>5, <2>6, <2>7 DEF Worker
<1>6. ASSUME NEW g \in Frames, Hook(g) PROVE Simulated
  <2>1. /\ hooks[g] \in Nat /\ hooks[g] > 0
        /\ hooks' = [hooks EXCEPT ![g] = @ - 1]
        /\ UNCHANGED <<at, job, answered>>
        /\ reported' = [reported EXCEPT ![g] = @ + 1] \/ reported' = reported
    BY <1>6 DEF Hook, Post, PostNothing, UDPTypeOK
  <2>2. Noting' = Noting
    BY <2>1 DEF Noting, Answered
  <2>3. \A f \in Frames : Owed'[f] = IF f = g THEN Owed[f] - 1 ELSE Owed[f]
    BY <2>1, <2>2, WorkersOnAreFinite DEF Owed, UDPTypeOK
  <2>4. Owed' = [Owed EXCEPT ![g] = @ - 1]
    BY <1>0, <2>3 DEF Owed
  <2>5. Owed[g] > 0
    BY <2>1, WorkersOnAreFinite DEF Owed
  <2> QED BY <1>2, <2>1, <2>4, <2>5
<1>7. CASE Loop \/ UNCHANGED udpVars
  BY <1>4, <1>7 DEF Loop, Receive, ReceiveFails, Enqueue, udpVars
<1> QED BY <1>5, <1>6, <1>7 DEF UDPNext

(* Data is handed on only after its answer was written, and once per       *)
(* answer, whatever the number of workers (handleConnection, OnPacket and  *)
(* hookSend of the UDP server).                                            *)
THEOREM UDPImplementsDelivery == UDPSpec => DeliverySpec
<1>1. UDPInit => UDPTypeOK /\ Delivery!Init
  BY UDPTypeInit, DeliveryInit
<1>2. UDPTypeOK /\ [UDPNext]_udpVars => UDPTypeOK'
  BY UDPTypeStep
<1>3. UDPTypeOK /\ [UDPNext]_udpVars => [Delivery!Next]_(Delivery!deliveryVars)
  BY DeliverySimulation, OwedIsTheMapping
<1> QED BY <1>1, <1>2, <1>3, PTL DEF UDPSpec, DeliverySpec, Delivery!Spec
=============================================================================

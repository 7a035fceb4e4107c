------------------------ MODULE TrackerServerProofs -------------------------
(***************************************************************************)
(* Theorems about the example TCP server, for any number of connections,   *)
(* requests and IMEIs: about the registry of TCPServer under any users of  *)
(* it, about the /cmd slots of HTTPServer for any hub and callers, and     *)
(* about the wired server.  Every step of the whole is a step or a stutter *)
(* of each half, so what is proved of the halves holds there too; what is  *)
(* said of commands and replies ties the two halves together and has an    *)
(* invariant of its own.                                                   *)
(***************************************************************************)
EXTENDS TrackerServer, TLAPS
-----------------------------------------------------------------------------
(***************************************************************************)
(* The registry of TCPServer.                                              *)
(***************************************************************************)

(* Each step is one operation of one connection or of one request.         *)
LEMMA StepCases ==
  ASSUME TCPNext, NEW ACTION P,
         \A c \in Conns : Accept(c) => P,
         \A c \in Conns : ReadImei(c) => P,
         \A c \in Conns : LoadOrStore(c) => P,
         \A c \in Conns : CloseOther(c) => P,
         \A c \in Conns : StoreSelf(c) => P,
         \A c \in Conns : (HandshakeFail(c) \/ Greet(c) \/ GreetFail(c)) => P,
         \A c \in Conns : (SetReadDeadline(c) \/ ReadPing(c) \/ ReadFail(c)) => P,
         \A c \in Conns : (ReadData(c) \/ ReadMessage(c) \/ OnPacketReturn(c)) => P,
         \A c \in Conns : OnCloseReturn(c) => P,
         \A c \in Conns : Deregister(c) => P,
         \A c \in Conns : Close(c) => P,
         \A r \in Requests : Send(r) => P
  PROVE  P
BY Zenon DEF TCPNext, Establish, Serve, Teardown

(* A step keeps the types.                                                *)
LEMMA TypeStep == TCPTypeOK /\ [TCPNext]_tcpVars => TCPTypeOK'
<1> SUFFICES ASSUME TCPTypeOK, [TCPNext]_tcpVars PROVE TCPTypeOK'
  OBVIOUS
<1> USE FleetAssumption DEF TCPTypeOK, ConnState, Registered, Goto,
        ConnOrNone, ReqOrNone, ImeiOrNone
<1>1. CASE UNCHANGED tcpVars
  BY <1>1 DEF tcpVars
<1>2. CASE TCPNext
  <2>1. ASSUME NEW c \in Conns, Accept(c) PROVE TCPTypeOK'
    BY <2>1 DEF Accept
  <2>2. ASSUME NEW c \in Conns, ReadImei(c) PROVE TCPTypeOK'
    BY <2>2 DEF ReadImei
  <2>3. ASSUME NEW c \in Conns, LoadOrStore(c) PROVE TCPTypeOK'
    BY <2>3 DEF LoadOrStore
  <2>4. ASSUME NEW c \in Conns, CloseOther(c) PROVE TCPTypeOK'
    BY <2>4 DEF CloseOther
  <2>5. ASSUME NEW c \in Conns, StoreSelf(c) PROVE TCPTypeOK'
    BY <2>5 DEF StoreSelf
  <2>6. ASSUME NEW c \in Conns, HandshakeFail(c) \/ Greet(c) \/ GreetFail(c)
        PROVE TCPTypeOK'
    BY <2>6 DEF HandshakeFail, Greet, GreetFail
  <2>7. ASSUME NEW c \in Conns, SetReadDeadline(c) \/ ReadPing(c) \/ ReadFail(c)
        PROVE TCPTypeOK'
    BY <2>7 DEF SetReadDeadline, ReadPing, ReadFail
  <2>8. ASSUME NEW c \in Conns, ReadData(c) \/ ReadMessage(c) \/ OnPacketReturn(c)
        PROVE TCPTypeOK'
    <3>1. CASE ReadData(c)
      BY <3>1 DEF ReadData, DataPacket, Packet
    <3>2. CASE ReadMessage(c)
      BY <3>2 DEF ReadMessage, MessagePacket, Packet
    <3>3. CASE OnPacketReturn(c)
      BY <3>3 DEF OnPacketReturn, NoPacket, Packet
    <3> QED BY <2>8, <3>1, <3>2, <3>3
  <2>9. ASSUME NEW c \in Conns, OnCloseReturn(c) PROVE TCPTypeOK'
    BY <2>9 DEF OnCloseReturn
  <2>10. ASSUME NEW c \in Conns, Deregister(c) PROVE TCPTypeOK'
    BY <2>10 DEF Deregister
  <2>11. ASSUME NEW c \in Conns, Close(c) PROVE TCPTypeOK'
    BY <2>11 DEF Close
  <2>12. ASSUME NEW r \in Requests, Send(r) PROVE TCPTypeOK'
    <3>1. CASE \E i \in Imeis : SendLookup(r, i)
      BY <3>1 DEF SendLookup
    <3>2. CASE \E i \in Imeis : SendNotFound(r, i)
      BY <3>2 DEF SendNotFound, tcpVars
    <3>3. CASE SendWrite(r)
      BY <3>3 DEF SendWrite
    <3>4. CASE SendWriteFail(r)
      BY <3>4 DEF SendWriteFail
    <3> QED BY <2>12, <3>1, <3>2, <3>3, <3>4 DEF Send
  <2> HIDE DEF TCPTypeOK
  <2> QED
    BY <1>2, <2>1, <2>2, <2>3, <2>4, <2>5, <2>6, <2>7, <2>8, <2>9, <2>10,
       <2>11, <2>12, StepCases
<1> QED BY <1>1, <1>2

(* The variables always have their types, and no connection gets past the  *)
(* handshake without an IMEI (handleConnection's check of a blank one).    *)
THEOREM TypeCorrect == TCPSpec => []TCPTypeOK
<1>1. TCPInit => TCPTypeOK
  BY DEF TCPInit, TCPTypeOK, ConnState, Packet, NoPacket, Registered,
         ConnOrNone, ReqOrNone, ImeiOrNone
<1>2. TCPTypeOK /\ [TCPNext]_tcpVars => TCPTypeOK'
  BY TypeStep
<1> QED BY <1>1, <1>2, PTL DEF TCPSpec
-----------------------------------------------------------------------------
(***************************************************************************)
(* The inductive invariant.  NoStaleRegistration is inductive as it        *)
(* stands.  The other three properties need to know whom a connection that *)
(* found its IMEI taken is about to evict, and what the registry holds     *)
(* while a rival has its IMEI but has not come to LoadOrStore yet.         *)
(***************************************************************************)

(* A connection has no IMEI before the handshake is over.                  *)
NewIsAnonymous ==
  \A c \in Conns : pc[c] \in {"listening", "handshake"} => imei[c] = NoImei

(* The connection being evicted is another one of the same IMEI that has   *)
(* been registered, and by the time of the Store its socket is closed.     *)
EvictsARival ==
  \A c \in Conns : pc[c] \in {"evict", "store"} =>
    /\ other[c] \in Conns \ {c}
    /\ imei[other[c]] = imei[c]
    /\ pc[other[c]] \in Registered \cup {"close", "done"}
    /\ pc[c] = "store" => ~open[other[c]]

(* SoleConnectionIsListed also while rivals wait at LoadOrStore.           *)
FirstConnectionIsListed ==
  \A c \in Conns :
    /\ pc[c] \in Registered
    /\ \A d \in Conns \ {c} : imei[d] = imei[c] => pc[d] = "register"
    => clients[imei[c]] = c

(* Places at which a connection is served and not yet on its way out.      *)
Serving == Registered \ {"onclose", "deregister"}

(* Of two rivals past LoadOrStore with open sockets, one is about to close *)
(* the other's.                                                            *)
OneOfTwoRivalsIsOut ==
  \A c, d \in Conns :
    /\ c # d /\ imei[c] = imei[d]
    /\ open[c] /\ open[d]
    /\ pc[c] \in Serving \cup {"evict", "store"}
    /\ pc[d] \in Serving \cup {"evict", "store"}
    /\ \A e \in Conns \ {c, d} : imei[e] # imei[c]
    => "evict" \in {pc[c], pc[d]}

(* The inductive invariant.                                                *)
TCPInv ==
  /\ TCPTypeOK
  /\ NoStaleRegistration
  /\ NewIsAnonymous
  /\ EvictsARival
  /\ FirstConnectionIsListed
  /\ OneOfTwoRivalsIsOut

(* No connection is accepted at first.                                     *)
LEMMA InitInv == TCPInit => TCPInv
<1> SUFFICES ASSUME TCPInit PROVE TCPInv
  OBVIOUS
<1>1. TCPTypeOK
  BY DEF TCPInit, TCPTypeOK, ConnState, Packet, NoPacket, Registered,
         ConnOrNone, ReqOrNone, ImeiOrNone
<1>2. NoStaleRegistration
  BY FleetAssumption DEF TCPInit, NoStaleRegistration
<1>3. NewIsAnonymous /\ EvictsARival /\ FirstConnectionIsListed /\ OneOfTwoRivalsIsOut
  BY DEF TCPInit, NewIsAnonymous, EvictsARival, FirstConnectionIsListed,
         OneOfTwoRivalsIsOut, Registered, Serving
<1> QED BY <1>1, <1>2, <1>3 DEF TCPInv

(* A step keeps the registry free of connections that are gone. *)
LEMMA NoStaleStep == TCPInv /\ [TCPNext]_tcpVars => NoStaleRegistration'
<1> SUFFICES ASSUME TCPInv, [TCPNext]_tcpVars PROVE NoStaleRegistration'
  OBVIOUS
<1> USE FleetAssumption DEF TCPInv, TCPTypeOK, NoStaleRegistration, ConnState, Registered,
        Goto, ConnOrNone, ReqOrNone, ImeiOrNone
<1>1. CASE UNCHANGED tcpVars
  BY <1>1 DEF tcpVars
<1>2. CASE TCPNext
  <2>1. ASSUME NEW c \in Conns, Accept(c) PROVE NoStaleRegistration'
    BY <2>1 DEF Accept
  <2>2. ASSUME NEW c \in Conns, ReadImei(c) PROVE NoStaleRegistration'
    BY <2>2 DEF ReadImei
  <2>3. ASSUME NEW c \in Conns, LoadOrStore(c) PROVE NoStaleRegistration'
    BY <2>3 DEF LoadOrStore
  <2>4. ASSUME NEW c \in Conns, CloseOther(c) PROVE NoStaleRegistration'
    BY <2>4 DEF CloseOther
  <2>5. ASSUME NEW c \in Conns, StoreSelf(c) PROVE NoStaleRegistration'
    BY <2>5 DEF StoreSelf
  <2>6. ASSUME NEW c \in Conns, HandshakeFail(c) \/ Greet(c) \/ GreetFail(c)
        PROVE NoStaleRegistration'
    BY <2>6 DEF HandshakeFail, Greet, GreetFail
  <2>7. ASSUME NEW c \in Conns, SetReadDeadline(c) \/ ReadPing(c) \/ ReadFail(c)
        PROVE NoStaleRegistration'
    BY <2>7 DEF SetReadDeadline, ReadPing, ReadFail
  <2>8. ASSUME NEW c \in Conns, ReadData(c) \/ ReadMessage(c) \/ OnPacketReturn(c)
        PROVE NoStaleRegistration'
    BY <2>8 DEF ReadData, ReadMessage, OnPacketReturn
  <2>9. ASSUME NEW c \in Conns, OnCloseReturn(c) PROVE NoStaleRegistration'
    BY <2>9 DEF OnCloseReturn
  <2>10. ASSUME NEW c \in Conns, Deregister(c) PROVE NoStaleRegistration'
    BY <2>10 DEF Deregister
  <2>11. ASSUME NEW c \in Conns, Close(c) PROVE NoStaleRegistration'
    BY <2>11 DEF Close
  <2>12. ASSUME NEW r \in Requests, Send(r) PROVE NoStaleRegistration'
    BY <2>12 DEF Send, SendLookup, SendNotFound, SendWrite, SendWriteFail, tcpVars
  <2> HIDE DEF NoStaleRegistration
  <2> QED
    BY <1>2, <2>1, <2>2, <2>3, <2>4, <2>5, <2>6, <2>7, <2>8, <2>9, <2>10,
       <2>11, <2>12, StepCases
<1> QED BY <1>1, <1>2

(* A step gives an IMEI only to a connection that leaves the handshake. *)
LEMMA NewStep == TCPInv /\ [TCPNext]_tcpVars => NewIsAnonymous'
<1> SUFFICES ASSUME TCPInv, [TCPNext]_tcpVars PROVE NewIsAnonymous'
  OBVIOUS
<1> USE FleetAssumption DEF TCPInv, TCPTypeOK, NewIsAnonymous, ConnState, Registered,
        Goto, ConnOrNone, ReqOrNone, ImeiOrNone
<1>1. CASE UNCHANGED tcpVars
  BY <1>1 DEF tcpVars
<1>2. CASE TCPNext
  <2>1. ASSUME NEW c \in Conns, Accept(c) PROVE NewIsAnonymous'
    BY <2>1 DEF Accept
  <2>2. ASSUME NEW c \in Conns, ReadImei(c) PROVE NewIsAnonymous'
    BY <2>2 DEF ReadImei
  <2>3. ASSUME NEW c \in Conns, LoadOrStore(c) PROVE NewIsAnonymous'
    BY <2>3 DEF LoadOrStore
  <2>4. ASSUME NEW c \in Conns, CloseOther(c) PROVE NewIsAnonymous'
    BY <2>4 DEF CloseOther
  <2>5. ASSUME NEW c \in Conns, StoreSelf(c) PROVE NewIsAnonymous'
    BY <2>5 DEF StoreSelf
  <2>6. ASSUME NEW c \in Conns, HandshakeFail(c) \/ Greet(c) \/ GreetFail(c)
        PROVE NewIsAnonymous'
    BY <2>6 DEF HandshakeFail, Greet, GreetFail
  <2>7. ASSUME NEW c \in Conns, SetReadDeadline(c) \/ ReadPing(c) \/ ReadFail(c)
        PROVE NewIsAnonymous'
    BY <2>7 DEF SetReadDeadline, ReadPing, ReadFail
  <2>8. ASSUME NEW c \in Conns, ReadData(c) \/ ReadMessage(c) \/ OnPacketReturn(c)
        PROVE NewIsAnonymous'
    BY <2>8 DEF ReadData, ReadMessage, OnPacketReturn
  <2>9. ASSUME NEW c \in Conns, OnCloseReturn(c) PROVE NewIsAnonymous'
    BY <2>9 DEF OnCloseReturn
  <2>10. ASSUME NEW c \in Conns, Deregister(c) PROVE NewIsAnonymous'
    BY <2>10 DEF Deregister
  <2>11. ASSUME NEW c \in Conns, Close(c) PROVE NewIsAnonymous'
    BY <2>11 DEF Close
  <2>12. ASSUME NEW r \in Requests, Send(r) PROVE NewIsAnonymous'
    BY <2>12 DEF Send, SendLookup, SendNotFound, SendWrite, SendWriteFail, tcpVars
  <2> HIDE DEF NewIsAnonymous
  <2> QED
    BY <1>2, <2>1, <2>2, <2>3, <2>4, <2>5, <2>6, <2>7, <2>8, <2>9, <2>10,
       <2>11, <2>12, StepCases
<1> QED BY <1>1, <1>2

(* What LoadOrStore found stays a rival until the Store. *)
LEMMA EvictStep == TCPInv /\ [TCPNext]_tcpVars => EvictsARival'
<1> SUFFICES ASSUME TCPInv, [TCPNext]_tcpVars PROVE EvictsARival'
  OBVIOUS
<1> USE FleetAssumption DEF TCPInv, NoStaleRegistration, NewIsAnonymous,
        TCPTypeOK, EvictsARival, ConnState, Registered,
        Goto, ConnOrNone, ReqOrNone, ImeiOrNone
<1>1. CASE UNCHANGED tcpVars
  BY <1>1 DEF tcpVars
<1>2. CASE TCPNext
  <2>1. ASSUME NEW c \in Conns, Accept(c) PROVE EvictsARival'
    BY <2>1 DEF Accept
  <2>2. ASSUME NEW c \in Conns, ReadImei(c) PROVE EvictsARival'
    BY <2>2 DEF ReadImei
  <2>3. ASSUME NEW c \in Conns, LoadOrStore(c) PROVE EvictsARival'
    BY <2>3 DEF LoadOrStore
  <2>4. ASSUME NEW c \in Conns, CloseOther(c) PROVE EvictsARival'
    BY <2>4 DEF CloseOther
  <2>5. ASSUME NEW c \in Conns, StoreSelf(c) PROVE EvictsARival'
    BY <2>5 DEF StoreSelf
  <2>6. ASSUME NEW c \in Conns, HandshakeFail(c) \/ Greet(c) \/ GreetFail(c)
        PROVE EvictsARival'
    BY <2>6 DEF HandshakeFail, Greet, GreetFail
  <2>7. ASSUME NEW c \in Conns, SetReadDeadline(c) \/ ReadPing(c) \/ ReadFail(c)
        PROVE EvictsARival'
    BY <2>7 DEF SetReadDeadline, ReadPing, ReadFail
  <2>8. ASSUME NEW c \in Conns, ReadData(c) \/ ReadMessage(c) \/ OnPacketReturn(c)
        PROVE EvictsARival'
    BY <2>8 DEF ReadData, ReadMessage, OnPacketReturn
  <2>9. ASSUME NEW c \in Conns, OnCloseReturn(c) PROVE EvictsARival'
    BY <2>9 DEF OnCloseReturn
  <2>10. ASSUME NEW c \in Conns, Deregister(c) PROVE EvictsARival'
    BY <2>10 DEF Deregister
  <2>11. ASSUME NEW c \in Conns, Close(c) PROVE EvictsARival'
    BY <2>11 DEF Close
  <2>12. ASSUME NEW r \in Requests, Send(r) PROVE EvictsARival'
    BY <2>12 DEF Send, SendLookup, SendNotFound, SendWrite, SendWriteFail, tcpVars
  <2> HIDE DEF EvictsARival
  <2> QED
    BY <1>2, <2>1, <2>2, <2>3, <2>4, <2>5, <2>6, <2>7, <2>8, <2>9, <2>10,
       <2>11, <2>12, StepCases
<1> QED BY <1>1, <1>2

(* A lone connection stays in the registry. *)
LEMMA FirstStep == TCPInv /\ [TCPNext]_tcpVars => FirstConnectionIsListed'
<1> SUFFICES ASSUME TCPInv, [TCPNext]_tcpVars PROVE FirstConnectionIsListed'
  OBVIOUS
<1> USE FleetAssumption DEF TCPInv, NoStaleRegistration, NewIsAnonymous,
        EvictsARival, TCPTypeOK, FirstConnectionIsListed, ConnState, Registered,
        Goto, ConnOrNone, ReqOrNone, ImeiOrNone
<1>1. CASE UNCHANGED tcpVars
  BY <1>1 DEF tcpVars
<1>2. CASE TCPNext
  <2>1. ASSUME NEW c \in Conns, Accept(c) PROVE FirstConnectionIsListed'
    BY <2>1 DEF Accept
  <2>2. ASSUME NEW c \in Conns, ReadImei(c) PROVE FirstConnectionIsListed'
    BY <2>2 DEF ReadImei
  <2>3. ASSUME NEW c \in Conns, LoadOrStore(c) PROVE FirstConnectionIsListed'
    BY <2>3 DEF LoadOrStore
  <2>4. ASSUME NEW c \in Conns, CloseOther(c) PROVE FirstConnectionIsListed'
    BY <2>4 DEF CloseOther
  <2>5. ASSUME NEW c \in Conns, StoreSelf(c) PROVE FirstConnectionIsListed'
    BY <2>5 DEF StoreSelf
  <2>6. ASSUME NEW c \in Conns, HandshakeFail(c) \/ Greet(c) \/ GreetFail(c)
        PROVE FirstConnectionIsListed'
    BY <2>6 DEF HandshakeFail, Greet, GreetFail
  <2>7. ASSUME NEW c \in Conns, SetReadDeadline(c) \/ ReadPing(c) \/ ReadFail(c)
        PROVE FirstConnectionIsListed'
    BY <2>7 DEF SetReadDeadline, ReadPing, ReadFail
  <2>8. ASSUME NEW c \in Conns, ReadData(c) \/ ReadMessage(c) \/ OnPacketReturn(c)
        PROVE FirstConnectionIsListed'
    BY <2>8 DEF ReadData, ReadMessage, OnPacketReturn
  <2>9. ASSUME NEW c \in Conns, OnCloseReturn(c) PROVE FirstConnectionIsListed'
    BY <2>9 DEF OnCloseReturn
  <2>10. ASSUME NEW c \in Conns, Deregister(c) PROVE FirstConnectionIsListed'
    BY <2>10 DEF Deregister
  <2>11. ASSUME NEW c \in Conns, Close(c) PROVE FirstConnectionIsListed'
    BY <2>11 DEF Close
  <2>12. ASSUME NEW r \in Requests, Send(r) PROVE FirstConnectionIsListed'
    BY <2>12 DEF Send, SendLookup, SendNotFound, SendWrite, SendWriteFail, tcpVars
  <2> HIDE DEF FirstConnectionIsListed
  <2> QED
    BY <1>2, <2>1, <2>2, <2>3, <2>4, <2>5, <2>6, <2>7, <2>8, <2>9, <2>10,
       <2>11, <2>12, StepCases
<1> QED BY <1>1, <1>2

(* Rivals do not get past each other. *)
LEMMA RivalsStep == TCPInv /\ [TCPNext]_tcpVars => OneOfTwoRivalsIsOut'
<1> SUFFICES ASSUME TCPInv, [TCPNext]_tcpVars PROVE OneOfTwoRivalsIsOut'
  OBVIOUS
<1> USE FleetAssumption DEF TCPInv, NoStaleRegistration, NewIsAnonymous,
        EvictsARival, FirstConnectionIsListed, Serving, TCPTypeOK, OneOfTwoRivalsIsOut,
        ConnState, Registered, Goto, ConnOrNone, ReqOrNone, ImeiOrNone
<1>1. CASE UNCHANGED tcpVars
  BY <1>1 DEF tcpVars
<1>2. CASE TCPNext
  <2>1. ASSUME NEW c \in Conns, Accept(c) PROVE OneOfTwoRivalsIsOut'
    BY <2>1 DEF Accept
  <2>2. ASSUME NEW c \in Conns, ReadImei(c) PROVE OneOfTwoRivalsIsOut'
    BY <2>2 DEF ReadImei
  <2>3. ASSUME NEW c \in Conns, LoadOrStore(c) PROVE OneOfTwoRivalsIsOut'
    <3> SUFFICES ASSUME NEW a \in Conns, NEW b \in Conns,
                        a # b, imei[a] = imei[b], open[a], open[b],
                        pc'[a] \in Serving \cup {"evict", "store"},
                        pc'[b] \in Serving \cup {"evict", "store"},
                        \A e \in Conns \ {a, b} : imei[e] # imei[a]
                 PROVE  "evict" \in {pc'[a], pc'[b]}
      BY <2>3 DEF LoadOrStore
    <3>1. CASE c \notin {a, b}
      BY <2>3, <3>1 DEF LoadOrStore
    <3>2. ASSUME NEW d \in Conns, (a = c /\ b = d) \/ (a = d /\ b = c)
          PROVE  pc'[c] = "evict"
      <4>1. pc[c] = "register" /\ pc'[d] = pc[d]
        BY <2>3, <3>2 DEF LoadOrStore
      <4>2. pc[d] \in Serving \cup {"evict", "store"} /\ imei[d] = imei[c]
        BY <3>2, <4>1
      <4>3. \A e \in Conns \ {c, d} : imei[e] # imei[d]
        BY <3>2
      <4>4. pc[d] \notin {"evict", "store"}
        <5> SUFFICES ASSUME pc[d] \in {"evict", "store"} PROVE FALSE
          OBVIOUS
        <5>1. other[d] = c
          BY <4>3 DEF EvictsARival
        <5> QED BY <4>1, <5>1 DEF EvictsARival
      <4>5. clients[imei[c]] = d
        BY <4>1, <4>2, <4>3, <4>4
      <4> QED BY <2>3, <4>1, <4>5 DEF LoadOrStore
    <3> QED BY <3>1, <3>2
  <2>4. ASSUME NEW c \in Conns, CloseOther(c) PROVE OneOfTwoRivalsIsOut'
    BY <2>4 DEF CloseOther
  <2>5. ASSUME NEW c \in Conns, StoreSelf(c) PROVE OneOfTwoRivalsIsOut'
    BY <2>5 DEF StoreSelf
  <2>6. ASSUME NEW c \in Conns, HandshakeFail(c) \/ Greet(c) \/ GreetFail(c)
        PROVE OneOfTwoRivalsIsOut'
    BY <2>6 DEF HandshakeFail, Greet, GreetFail
  <2>7. ASSUME NEW c \in Conns, SetReadDeadline(c) \/ ReadPing(c) \/ ReadFail(c)
        PROVE OneOfTwoRivalsIsOut'
    BY <2>7 DEF SetReadDeadline, ReadPing, ReadFail
  <2>8. ASSUME NEW c \in Conns, ReadData(c) \/ ReadMessage(c) \/ OnPacketReturn(c)
        PROVE OneOfTwoRivalsIsOut'
    BY <2>8 DEF ReadData, ReadMessage, OnPacketReturn
  <2>9. ASSUME NEW c \in Conns, OnCloseReturn(c) PROVE OneOfTwoRivalsIsOut'
    BY <2>9 DEF OnCloseReturn
  <2>10. ASSUME NEW c \in Conns, Deregister(c) PROVE OneOfTwoRivalsIsOut'
    BY <2>10 DEF Deregister
  <2>11. ASSUME NEW c \in Conns, Close(c) PROVE OneOfTwoRivalsIsOut'
    BY <2>11 DEF Close
  <2>12. ASSUME NEW r \in Requests, Send(r) PROVE OneOfTwoRivalsIsOut'
    BY <2>12 DEF Send, SendLookup, SendNotFound, SendWrite, SendWriteFail, tcpVars
  <2> HIDE DEF OneOfTwoRivalsIsOut
  <2> QED
    BY <1>2, <2>1, <2>2, <2>3, <2>4, <2>5, <2>6, <2>7, <2>8, <2>9, <2>10,
       <2>11, <2>12, StepCases
<1> QED BY <1>1, <1>2
-----------------------------------------------------------------------------
(* The inductive invariant holds of every behaviour.                       *)
THEOREM Invariance == TCPSpec => []TCPInv
<1>1. TCPInit => TCPInv
  BY InitInv
<1>2. TCPInv /\ [TCPNext]_tcpVars => TCPInv'
  BY TypeStep, NoStaleStep, NewStep, EvictStep, FirstStep, RivalsStep DEF TCPInv
<1> QED BY <1>1, <1>2, PTL DEF TCPSpec

(* SendPacket never finds a connection that has finished or that belongs   *)
(* to another tracker.                                                     *)
THEOREM RegistryNeverDangles == TCPSpec => []NoStaleRegistration
<1>1. TCPInv => NoStaleRegistration
  BY DEF TCPInv
<1> QED BY <1>1, Invariance, PTL

(* A tracker whose IMEI no other connection ever announced stays listed.   *)
THEOREM SoleConnectionStaysListed == TCPSpec => []SoleConnectionIsListed
<1>1. TCPInv => SoleConnectionIsListed
  BY DEF TCPInv, FirstConnectionIsListed, SoleConnectionIsListed
<1> QED BY <1>1, Invariance, PTL

(* Two connections of one IMEI are served at once only if a third one of   *)
(* that IMEI took part.                                                    *)
THEOREM RivalsAreSeparated == TCPSpec => []TwoRivalsNeverBothServed
<1>1. TCPInv => TwoRivalsNeverBothServed
  BY DEF TCPInv, OneOfTwoRivalsIsOut, TwoRivalsNeverBothServed, Serving, Registered
<1> QED BY <1>1, Invariance, PTL

(* What OnlyRivalsEvict says of a step.                                    *)
ClosedByARival ==
  \A c \in Conns :
    open[c] /\ ~open'[c] =>
      \/ pc[c] = "close"
      \/ \E d \in Conns \ {c} : pc[d] = "evict" /\ imei[d] = imei[c]

(* Holding the mutex keeps others from putting a connection of their own   *)
(* into the registry between a rival's lookup and its Close.               *)
LEMMA ClosedByARivalStep == TCPInv /\ [TCPNext]_tcpVars => ClosedByARival
<1> SUFFICES ASSUME TCPInv, [TCPNext]_tcpVars PROVE ClosedByARival
  OBVIOUS
<1> USE DEF TCPInv, TCPTypeOK, Goto
<1>1. ASSUME NEW c \in Conns, CloseOther(c) PROVE ClosedByARival
  BY <1>1 DEF CloseOther, EvictsARival, ClosedByARival
<1>2. ASSUME NEW c \in Conns, Close(c) PROVE ClosedByARival
  BY <1>2 DEF Close, ClosedByARival
<1>3. ASSUME NEW c \in Conns, Accept(c) PROVE ClosedByARival
  BY <1>3 DEF Accept, ClosedByARival
<1>4. ASSUME open' = open PROVE ClosedByARival
  BY <1>4 DEF ClosedByARival
<1>5. CASE UNCHANGED tcpVars
  BY <1>4, <1>5 DEF tcpVars
<1>6. CASE TCPNext
  <2>1. ASSUME NEW c \in Conns,
               \/ ReadImei(c) \/ HandshakeFail(c) \/ LoadOrStore(c)
               \/ StoreSelf(c) \/ Greet(c) \/ GreetFail(c)
        PROVE  ClosedByARival
    BY <1>4, <2>1 DEF ReadImei, HandshakeFail, LoadOrStore, StoreSelf, Greet, GreetFail
  <2>2. ASSUME NEW c \in Conns,
               \/ SetReadDeadline(c) \/ ReadPing(c) \/ ReadData(c)
               \/ ReadMessage(c) \/ ReadFail(c) \/ OnPacketReturn(c)
        PROVE  ClosedByARival
    BY <1>4, <2>2 DEF SetReadDeadline, ReadPing, ReadData, ReadMessage,
                      ReadFail, OnPacketReturn
  <2>3. ASSUME NEW c \in Conns, OnCloseReturn(c) \/ Deregister(c)
        PROVE  ClosedByARival
    BY <1>4, <2>3 DEF OnCloseReturn, Deregister
  <2>4. ASSUME NEW r \in Requests, Send(r) PROVE ClosedByARival
    BY <1>4, <2>4 DEF Send, SendLookup, SendNotFound, SendWrite,
                      SendWriteFail, tcpVars
  <2> QED BY <1>1, <1>2, <1>3, <1>6, <2>1, <2>2, <2>3, <2>4, StepCases
<1> QED BY <1>5, <1>6

(* Nobody closes the socket of a connection but itself and a newcomer with *)
(* its IMEI.                                                               *)
THEOREM OnlyRivalsAreClosed == TCPSpec => OnlyRivalsEvict
<1>1. TCPInv /\ [TCPNext]_tcpVars => ClosedByARival
  BY ClosedByARivalStep
<1> QED BY <1>1, Invariance, PTL DEF TCPSpec, OnlyRivalsEvict, ClosedByARival
-----------------------------------------------------------------------------
(***************************************************************************)
(* The slots of HTTPServer.                                                *)
(***************************************************************************)

(* handleCmd reads the IMEI before anything else, closes its channel last, *)
(* and has told its client something once it left the select.              *)
HandlerProgress ==
  \A r \in Requests :
    /\ hpc[r] # "idle" => target[r] \in Imeis
    /\ closed[r] => hpc[r] = "done"
    /\ outcome[r].kind = "none" <=> hpc[r] \in {"idle", "acquire", "send", "wait"}

(* A call that found a channel knows the request it belongs to and carries *)
(* a reply.                                                                *)
CallIsMeant ==
  \A c \in Conns : call[c] # NoCall => call[c].to \in Requests /\ call[c].reply \in Reply

(* The inductive invariant.                                                *)
HTTPInv == HTTPTypeOK /\ HandlerProgress /\ CallIsMeant /\ SlotIsItsHolders

(* A step of the handlers or their callers is one of these.                *)
LEMMA HTTPStepCases ==
  ASSUME HTTPNext, NEW ACTION P,
         \A r \in Requests : Arrive(r) => P,
         \A r \in Requests : Acquire(r) => P,
         \A r \in Requests : SendError(r) => P,
         \A r \in Requests : SendDone(r) => P,
         \A r \in Requests : Receive(r) => P,
         \A r \in Requests : Timeout(r) => P,
         \A r \in Requests : Release(r) => P,
         \A r \in Requests : CloseResult(r) => P,
         \A c \in Conns : \A i \in Imeis : LoadMiss(c, i) => P,
         \A c \in Conns : \A i \in Imeis : \A reply \in Reply : LoadHit(c, i, reply) => P,
         \A c \in Conns : ChanSend(c) => P,
         \A c \in Conns : ChanSendPanic(c) => P
  PROVE  P
<1>1. \A c \in Conns : \A r \in ReqOrNone : Message(c, r) \in Reply
  BY DEF Message, Reply
<1>2. \A c \in Conns : Disconnected(c) \in Reply
  BY DEF Disconnected, Reply, ReqOrNone
<1> QED BY <1>1, <1>2, Zenon DEF HTTPNext, Handle, HubAnswers, Report

(* What the values of the model are.                                       *)
LEMMA Values ==
  /\ NoReply \notin Reply
  /\ NoCall \in Call
  /\ \A reply \in Reply :
       /\ reply.kind \in {"message", "disconnected"}
       /\ reply.from \in Conns
       /\ reply.answers \in ReqOrNone
  /\ NoReply.kind = "none" /\ Rejected.kind = "rejected" /\ TimedOut.kind = "timeout"
BY FleetAssumption DEF NoReply, Reply, NoCall, Call, Rejected, TimedOut, ReqOrNone

(* A step keeps the types. *)
LEMMA HTTPTypeStep == HTTPInv /\ [HTTPNext]_httpVars => HTTPTypeOK'
<1> SUFFICES ASSUME HTTPInv, [HTTPNext]_httpVars PROVE HTTPTypeOK'
  OBVIOUS
<1> USE Values, FleetAssumption DEF HTTPInv, HTTPTypeOK, HandlerProgress, CallIsMeant,
        HandlerState, Step, ReqOrNone, ImeiOrNone, ResultCap
<1>1. CASE UNCHANGED httpVars
  BY <1>1 DEF httpVars
<1>2. CASE HTTPNext
  <2>1. ASSUME NEW r \in Requests, Arrive(r) PROVE HTTPTypeOK'
    BY <2>1 DEF Arrive
  <2>2. ASSUME NEW r \in Requests, Acquire(r) PROVE HTTPTypeOK'
    BY <2>2 DEF Acquire
  <2>3. ASSUME NEW r \in Requests, SendError(r) PROVE HTTPTypeOK'
    BY <2>3 DEF SendError
  <2>4. ASSUME NEW r \in Requests, SendDone(r) PROVE HTTPTypeOK'
    BY <2>4 DEF SendDone
  <2>5. ASSUME NEW r \in Requests, Receive(r) PROVE HTTPTypeOK'
    BY <2>5 DEF Receive
  <2>6. ASSUME NEW r \in Requests, Timeout(r) PROVE HTTPTypeOK'
    BY <2>6 DEF Timeout
  <2>7. ASSUME NEW r \in Requests, Release(r) PROVE HTTPTypeOK'
    BY <2>7 DEF Release
  <2>8. ASSUME NEW r \in Requests, CloseResult(r) PROVE HTTPTypeOK'
    BY <2>8 DEF CloseResult
  <2>9. ASSUME NEW c \in Conns, NEW i \in Imeis, LoadMiss(c, i) PROVE HTTPTypeOK'
    BY <2>9 DEF LoadMiss, httpVars
  <2>10. ASSUME NEW c \in Conns, NEW i \in Imeis, NEW reply \in Reply,
               LoadHit(c, i, reply) PROVE HTTPTypeOK'
    <3>1. [to |-> respChan[i], reply |-> reply] \in Call
      BY <2>10 DEF Call, LoadHit
    <3> QED BY <2>10, <3>1 DEF LoadHit
  <2>11. ASSUME NEW c \in Conns, ChanSend(c) PROVE HTTPTypeOK'
    BY <2>11 DEF ChanSend
  <2>12. ASSUME NEW c \in Conns, ChanSendPanic(c) PROVE HTTPTypeOK'
    BY <2>12 DEF ChanSendPanic
  <2> HIDE DEF HTTPTypeOK
  <2> QED
    BY <1>2, <2>1, <2>2, <2>3, <2>4, <2>5, <2>6, <2>7, <2>8, <2>9, <2>10,
       <2>11, <2>12, HTTPStepCases
<1> QED BY <1>1, <1>2

(* A step keeps a handler's variables in line with its place. *)
LEMMA HandlerProgressStep == HTTPInv /\ [HTTPNext]_httpVars => HandlerProgress'
<1> SUFFICES ASSUME HTTPInv, [HTTPNext]_httpVars PROVE HandlerProgress'
  OBVIOUS
<1> USE Values, FleetAssumption DEF HTTPInv, HTTPTypeOK, HandlerProgress, HandlerState,
        Step, ReqOrNone, ImeiOrNone
<1>1. CASE UNCHANGED httpVars
  BY <1>1 DEF httpVars
<1>2. CASE HTTPNext
  <2>1. ASSUME NEW r \in Requests, Arrive(r) PROVE HandlerProgress'
    BY <2>1 DEF Arrive
  <2>2. ASSUME NEW r \in Requests, Acquire(r) PROVE HandlerProgress'
    BY <2>2 DEF Acquire
  <2>3. ASSUME NEW r \in Requests, SendError(r) PROVE HandlerProgress'
    BY <2>3 DEF SendError
  <2>4. ASSUME NEW r \in Requests, SendDone(r) PROVE HandlerProgress'
    BY <2>4 DEF SendDone
  <2>5. ASSUME NEW r \in Requests, Receive(r) PROVE HandlerProgress'
    <3>1. Head(result[r]) \in Reply
      BY <2>5 DEF Receive
    <3>2. Head(result[r]).kind # "none"
      BY <3>1
    <3> QED BY <2>5, <3>2 DEF Receive
  <2>6. ASSUME NEW r \in Requests, Timeout(r) PROVE HandlerProgress'
    BY <2>6 DEF Timeout
  <2>7. ASSUME NEW r \in Requests, Release(r) PROVE HandlerProgress'
    BY <2>7 DEF Release
  <2>8. ASSUME NEW r \in Requests, CloseResult(r) PROVE HandlerProgress'
    BY <2>8 DEF CloseResult
  <2>9. ASSUME NEW c \in Conns, NEW i \in Imeis, LoadMiss(c, i) PROVE HandlerProgress'
    BY <2>9 DEF LoadMiss, httpVars
  <2>10. ASSUME NEW c \in Conns, NEW i \in Imeis, NEW reply \in Reply,
               LoadHit(c, i, reply) PROVE HandlerProgress'
    BY <2>10 DEF LoadHit
  <2>11. ASSUME NEW c \in Conns, ChanSend(c) PROVE HandlerProgress'
    BY <2>11 DEF ChanSend
  <2>12. ASSUME NEW c \in Conns, ChanSendPanic(c) PROVE HandlerProgress'
    BY <2>12 DEF ChanSendPanic
  <2> HIDE DEF HandlerProgress
  <2> QED
    BY <1>2, <2>1, <2>2, <2>3, <2>4, <2>5, <2>6, <2>7, <2>8, <2>9, <2>10,
       <2>11, <2>12, HTTPStepCases
<1> QED BY <1>1, <1>2

(* A call in progress has a channel and a reply. *)
LEMMA CallIsMeantStep == HTTPInv /\ [HTTPNext]_httpVars => CallIsMeant'
<1> SUFFICES ASSUME HTTPInv, [HTTPNext]_httpVars PROVE CallIsMeant'
  OBVIOUS
<1> USE Values, FleetAssumption DEF HTTPInv, HTTPTypeOK, CallIsMeant, Step, Call,
        ReqOrNone, ImeiOrNone
<1>1. CASE UNCHANGED httpVars
  BY <1>1 DEF httpVars
<1>2. CASE HTTPNext
  <2>1. ASSUME NEW r \in Requests, Arrive(r) PROVE CallIsMeant'
    BY <2>1 DEF Arrive
  <2>2. ASSUME NEW r \in Requests, Acquire(r) PROVE CallIsMeant'
    BY <2>2 DEF Acquire
  <2>3. ASSUME NEW r \in Requests, SendError(r) PROVE CallIsMeant'
    BY <2>3 DEF SendError
  <2>4. ASSUME NEW r \in Requests, SendDone(r) PROVE CallIsMeant'
    BY <2>4 DEF SendDone
  <2>5. ASSUME NEW r \in Requests, Receive(r) PROVE CallIsMeant'
    BY <2>5 DEF Receive
  <2>6. ASSUME NEW r \in Requests, Timeout(r) PROVE CallIsMeant'
    BY <2>6 DEF Timeout
  <2>7. ASSUME NEW r \in Requests, Release(r) PROVE CallIsMeant'
    BY <2>7 DEF Release
  <2>8. ASSUME NEW r \in Requests, CloseResult(r) PROVE CallIsMeant'
    BY <2>8 DEF CloseResult
  <2>9. ASSUME NEW c \in Conns, NEW i \in Imeis, LoadMiss(c, i) PROVE CallIsMeant'
    BY <2>9 DEF LoadMiss, httpVars
  <2>10. ASSUME NEW c \in Conns, NEW i \in Imeis, NEW reply \in Reply,
               LoadHit(c, i, reply) PROVE CallIsMeant'
    BY <2>10 DEF LoadHit
  <2>11. ASSUME NEW c \in Conns, ChanSend(c) PROVE CallIsMeant'
    BY <2>11 DEF ChanSend
  <2>12. ASSUME NEW c \in Conns, ChanSendPanic(c) PROVE CallIsMeant'
    BY <2>12 DEF ChanSendPanic
  <2> HIDE DEF CallIsMeant
  <2> QED
    BY <1>2, <2>1, <2>2, <2>3, <2>4, <2>5, <2>6, <2>7, <2>8, <2>9, <2>10,
       <2>11, <2>12, HTTPStepCases
<1> QED BY <1>1, <1>2

(* An entry of respChan stays the channel of the one holder. *)
LEMMA SlotStep == HTTPInv /\ [HTTPNext]_httpVars => SlotIsItsHolders'
<1> SUFFICES ASSUME HTTPInv, [HTTPNext]_httpVars PROVE SlotIsItsHolders'
  OBVIOUS
<1> USE Values, FleetAssumption DEF HTTPInv, HTTPTypeOK, HandlerProgress,
        SlotIsItsHolders, HandlerState, Holding, Step, ReqOrNone, ImeiOrNone
<1>1. CASE UNCHANGED httpVars
  BY <1>1 DEF httpVars
<1>2. CASE HTTPNext
  <2>1. ASSUME NEW r \in Requests, Arrive(r) PROVE SlotIsItsHolders'
    BY <2>1 DEF Arrive
  <2>2. ASSUME NEW r \in Requests, Acquire(r) PROVE SlotIsItsHolders'
    BY <2>2 DEF Acquire
  <2>3. ASSUME NEW r \in Requests, SendError(r) PROVE SlotIsItsHolders'
    BY <2>3 DEF SendError
  <2>4. ASSUME NEW r \in Requests, SendDone(r) PROVE SlotIsItsHolders'
    BY <2>4 DEF SendDone
  <2>5. ASSUME NEW r \in Requests, Receive(r) PROVE SlotIsItsHolders'
    BY <2>5 DEF Receive
  <2>6. ASSUME NEW r \in Requests, Timeout(r) PROVE SlotIsItsHolders'
    BY <2>6 DEF Timeout
  <2>7. ASSUME NEW r \in Requests, Release(r) PROVE SlotIsItsHolders'
    BY <2>7 DEF Release
  <2>8. ASSUME NEW r \in Requests, CloseResult(r) PROVE SlotIsItsHolders'
    BY <2>8 DEF CloseResult
  <2>9. ASSUME NEW c \in Conns, NEW i \in Imeis, LoadMiss(c, i) PROVE SlotIsItsHolders'
    BY <2>9 DEF LoadMiss, httpVars
  <2>10. ASSUME NEW c \in Conns, NEW i \in Imeis, NEW reply \in Reply,
               LoadHit(c, i, reply) PROVE SlotIsItsHolders'
    BY <2>10 DEF LoadHit
  <2>11. ASSUME NEW c \in Conns, ChanSend(c) PROVE SlotIsItsHolders'
    BY <2>11 DEF ChanSend
  <2>12. ASSUME NEW c \in Conns, ChanSendPanic(c) PROVE SlotIsItsHolders'
    BY <2>12 DEF ChanSendPanic
  <2> HIDE DEF SlotIsItsHolders
  <2> QED
    BY <1>2, <2>1, <2>2, <2>3, <2>4, <2>5, <2>6, <2>7, <2>8, <2>9, <2>10,
       <2>11, <2>12, HTTPStepCases
<1> QED BY <1>1, <1>2

(* Nothing is held, sent or answered at first.                             *)
LEMMA HTTPInitInv == HTTPInit => HTTPInv
<1> SUFFICES ASSUME HTTPInit PROVE HTTPInv
  OBVIOUS
<1>1. HTTPTypeOK
  <2>1. result \in [Requests -> Seq(Reply)]
    BY DEF HTTPInit
  <2>2. \A r \in Requests : Len(result[r]) <= ResultCap
    BY DEF HTTPInit, ResultCap
  <2>3. outcome \in [Requests -> Reply \cup {NoReply, Rejected, TimedOut}]
    BY DEF HTTPInit
  <2> QED
    BY <2>1, <2>2, <2>3, Values
       DEF HTTPInit, HTTPTypeOK, HandlerState, ReqOrNone, ImeiOrNone
<1>2. HandlerProgress /\ CallIsMeant
  BY Values DEF HTTPInit, HandlerProgress, CallIsMeant
<1>3. SlotIsItsHolders
  BY FleetAssumption DEF HTTPInit, SlotIsItsHolders, Holding
<1> QED BY <1>1, <1>2, <1>3 DEF HTTPInv
-----------------------------------------------------------------------------
(* The inductive invariant holds of every behaviour.                       *)
THEOREM HTTPInvariance == HTTPSpec => []HTTPInv
<1>1. HTTPInit => HTTPInv
  BY HTTPInitInv
<1>2. HTTPInv /\ [HTTPNext]_httpVars => HTTPInv'
  BY HTTPTypeStep, HandlerProgressStep, CallIsMeantStep, SlotStep DEF HTTPInv
<1> QED BY <1>1, <1>2, PTL DEF HTTPSpec

(* The variables always have their types, and a result channel never holds *)
(* more than one reply.                                                    *)
THEOREM HTTPTypeCorrect == HTTPSpec => []HTTPTypeOK
<1>1. HTTPInv => HTTPTypeOK
  BY DEF HTTPInv
<1> QED BY <1>1, HTTPInvariance, PTL

(* respChan is a lock per IMEI: an entry belongs to the one handler        *)
(* between its LoadOrStore and its Delete.                                 *)
THEOREM SlotHasOneHolder == HTTPSpec => []SlotIsItsHolders
<1>1. HTTPInv => SlotIsItsHolders
  BY DEF HTTPInv
<1> QED BY <1>1, HTTPInvariance, PTL

(* No two commands for one tracker are in flight together.                 *)
THEOREM CommandsAreSerialised == HTTPSpec => []OneCommandInFlight
<1>1. HTTPInv => OneCommandInFlight
  BY FleetAssumption DEF HTTPInv, HandlerProgress, SlotIsItsHolders,
                         OneCommandInFlight, Holding
<1> QED BY <1>1, HTTPInvariance, PTL

(* The holder of a slot has not come to its close.                         *)
LEMMA SlotsAreOpen == HTTPInv => ListedChannelIsOpen
<1> SUFFICES ASSUME HTTPInv, NEW i \in Imeis, respChan[i] # NoReq
             PROVE  ~closed[respChan[i]]
  BY DEF ListedChannelIsOpen
<1>1. respChan[i] \in Requests
  BY DEF HTTPInv, HTTPTypeOK, ReqOrNone
<1>2. hpc[respChan[i]] \in Holding
  BY <1>1 DEF HTTPInv, SlotIsItsHolders
<1> QED BY <1>1, <1>2 DEF HTTPInv, HandlerProgress, Holding

(* A channel that can be found in respChan has not been closed.            *)
THEOREM ListedChannelsAreOpen == HTTPSpec => []ListedChannelIsOpen
BY SlotsAreOpen, HTTPInvariance, PTL
-----------------------------------------------------------------------------
(***************************************************************************)
(* Refinement: LoadOrStore grants, the error, the reply or the timer       *)
(* decides, and Delete lets go; everything else is invisible.              *)
(***************************************************************************)

(* CommandSlot's verdict and over, in terms of the handlers.               *)
Verdicts == [r \in Requests |-> outcome[r].kind]
Over     == {r \in Requests : hpc[r] \in {"closing", "done"}}

(* The first state of the handlers is the first state of the slot.         *)
LEMMA SlotInit == HTTPInit => Slot!Init
<1> SUFFICES ASSUME HTTPInit PROVE Slot!Init
  OBVIOUS
<1>1. \A r \in Requests : outcome[r].kind = "none"
  BY Values DEF HTTPInit
<1>2. Verdicts = [r \in Requests |-> "none"]
  BY <1>1 DEF Verdicts
<1>3. Over = {}
  BY DEF HTTPInit, Over
<1> QED BY <1>2, <1>3 DEF HTTPInit, Slot!Init, Verdicts, Over

(* Each step of the handlers is a step of the slot or leaves it alone.     *)
LEMMA SlotSimulation == HTTPInv /\ [HTTPNext]_httpVars => [Slot!Next]_(Slot!slotVars)
<1> DEFINE Simulated == [Slot!Next]_(Slot!slotVars)
<1> SUFFICES ASSUME HTTPInv, [HTTPNext]_httpVars PROVE Simulated
  OBVIOUS
<1>0. ASSUME UNCHANGED <<respChan, Verdicts, Over>> PROVE Simulated
  BY <1>0 DEF Slot!slotVars, Verdicts, Over
<1>1. Slot!Next => Simulated
  OBVIOUS
<1> HIDE DEF Simulated
<1> USE DEF HTTPInv, HTTPTypeOK, HandlerProgress, SlotIsItsHolders, Holding, Step
<1>4. ASSUME UNCHANGED httpVars PROVE Simulated
  BY <1>0, <1>4 DEF httpVars, Verdicts, Over
<1>5. ASSUME NEW r \in Requests, NEW v, outcome' = [outcome EXCEPT ![r] = v]
      PROVE  Verdicts' = [Verdicts EXCEPT ![r] = v.kind]
  BY <1>5 DEF Verdicts
<1>6. ASSUME HTTPNext PROVE Simulated
  <2>1. ASSUME NEW r \in Requests, Arrive(r) PROVE Simulated
    BY <1>0, <2>1 DEF Arrive, Verdicts, Over
  <2>2. ASSUME NEW r \in Requests, Acquire(r) PROVE Simulated
    <3>1. UNCHANGED <<Verdicts, Over>>
      BY <2>2 DEF Acquire, Verdicts, Over
    <3>2. target[r] \in Imeis /\ Slot!Grant(r, target[r])
      BY <2>2, <3>1, FleetAssumption DEF Acquire, Slot!Grant, Verdicts, Over
    <3>3. Slot!Next
      <4> HIDE DEF HTTPInv
      <4> QED BY <3>2, Zenon DEF Slot!Next
    <3> QED BY <1>1, <3>3
  <2>3. ASSUME NEW r \in Requests, SendError(r) \/ Receive(r) \/ Timeout(r)
        PROVE  Simulated
    <3>1. respChan[target[r]] = r /\ target[r] \in Imeis /\ Verdicts[r] = "none"
      BY <2>3 DEF SendError, Receive, Timeout, Verdicts
    <3>2. UNCHANGED <<respChan, Over>>
      BY <2>3 DEF SendError, Receive, Timeout, Over
    <3>3. \E v \in Reply \cup {Rejected, TimedOut} : outcome' = [outcome EXCEPT ![r] = v]
      <4>1. CASE SendError(r)
        BY <4>1 DEF SendError
      <4>2. CASE Receive(r)
        <5>1. Head(result[r]) \in Reply
          BY <4>2 DEF Receive
        <5> QED BY <4>2, <5>1 DEF Receive
      <4>3. CASE Timeout(r)
        BY <4>3 DEF Timeout
      <4> QED BY <2>3, <4>1, <4>2, <4>3
    <3>4. Slot!Next
      <4>1. PICK v \in Reply \cup {Rejected, TimedOut} :
              outcome' = [outcome EXCEPT ![r] = v]
        BY <3>3
      <4>2. v.kind \in Slot!Verdict \ {"none"}
        BY Values DEF Slot!Verdict
      <4>3. Verdicts' = [Verdicts EXCEPT ![r] = v.kind]
        <5> HIDE DEF HTTPInv
        <5> QED BY <1>5, <4>1, Zenon
      <4> HIDE DEF HTTPInv
      <4> QED
        BY <3>1, <3>2, <4>2, <4>3, Zenon DEF Slot!Next, Slot!Decide, Verdicts, Over
    <3> QED BY <1>1, <3>4
  <2>4. ASSUME NEW r \in Requests, SendDone(r) PROVE Simulated
    BY <1>0, <2>4 DEF SendDone, Verdicts, Over
  <2>5. ASSUME NEW r \in Requests, Release(r) PROVE Simulated
    <3>1. respChan[target[r]] = r /\ target[r] \in Imeis /\ Verdicts[r] # "none"
      BY <2>5 DEF Release, Verdicts
    <3>2. Over' = Over \cup {r} /\ UNCHANGED Verdicts
      BY <2>5 DEF Release, Verdicts, Over
    <3>3. Slot!Next
      <4>1. respChan' = [respChan EXCEPT ![target[r]] = NoReq]
        BY <2>5 DEF Release
      <4> HIDE DEF HTTPInv
      <4> QED
        BY <3>1, <3>2, <4>1, Zenon DEF Slot!Next, Slot!LetGo, Verdicts, Over
    <3> QED BY <1>1, <3>3
  <2>6. ASSUME NEW r \in Requests, CloseResult(r) PROVE Simulated
    BY <1>0, <2>6 DEF CloseResult, Verdicts, Over
  <2>7. ASSUME NEW c \in Conns, NEW i \in Imeis, LoadMiss(c, i) PROVE Simulated
    BY <1>4, <2>7 DEF LoadMiss
  <2>8. ASSUME NEW c \in Conns, NEW i \in Imeis, NEW reply \in Reply,
               LoadHit(c, i, reply)
        PROVE  Simulated
    BY <1>0, <2>8 DEF LoadHit, Verdicts, Over
  <2>9. ASSUME NEW c \in Conns, ChanSend(c) \/ ChanSendPanic(c) PROVE Simulated
    BY <1>0, <2>9 DEF ChanSend, ChanSendPanic, Verdicts, Over
  <2> HIDE DEF HTTPInv
  <2> QED
    BY <1>6, <2>1, <2>2, <2>3, <2>4, <2>5, <2>6, <2>7, <2>8, <2>9, HTTPStepCases
<1> QED BY <1>4, <1>6

(* The handlers implement the abstract slot.                               *)
THEOREM HandlersImplementSlot == HTTPSpec => SlotSpec
<1>1. HTTPInit => Slot!Init
  BY SlotInit
<1>2. HTTPInv /\ [HTTPNext]_httpVars => [Slot!Next]_(Slot!slotVars)
  BY SlotSimulation
<1> QED BY <1>1, <1>2, HTTPInvariance, PTL DEF HTTPSpec, SlotSpec, Slot!Spec
-----------------------------------------------------------------------------
(***************************************************************************)
(* The wired server: its halves.                                           *)
(***************************************************************************)

(* What a connection's goroutine does without a callback.                  *)
OwnStep(c) == Accept(c) \/ Establish(c) \/ Serve(c) \/ Teardown(c)

(* A step of the whole is one of these.                                    *)
LEMMA TrackerStepCases ==
  ASSUME Next, NEW ACTION P,
         \A c \in Conns : OwnStep(c) /\ UNCHANGED httpVars => P,
         \A c \in Conns : SkipData(c) => P,
         \A c \in Conns : NobodyWaits(c) => P,
         \A c \in Conns : FindWaiter(c) => P,
         \A c \in Conns : Deliver(c) => P,
         \A c \in Conns : DeliverPanic(c) => P,
         \A r \in Requests : (Arrive(r) \/ Handle(r)) /\ UNCHANGED tcpVars => P,
         \A r \in Requests : CommandNotFound(r) => P,
         \A r \in Requests : CommandLookup(r) => P,
         \A r \in Requests : CommandWrite(r) => P,
         \A r \in Requests : CommandWriteFail(r) => P
  PROVE  P
BY Zenon DEF Next, Connection, Callback, Handler, SendCommand, OwnStep

(* A callback that runs is one of a tracker with an IMEI.                  *)
LEMMA CallbacksAreOfTrackers ==
  ASSUME TCPTypeOK, NEW c \in Conns, HasReply(c) \/ pc[c] \in {"onpacket", "onclose"}
  PROVE  /\ imei[c] \in Imeis
         /\ ReplyOf(c) \in {Message(c, r) : r \in ReqOrNone} \cup {Disconnected(c)}
<1>1. imei[c] # NoImei /\ imei[c] \in ImeiOrNone
  BY DEF TCPTypeOK, Registered, HasReply
<1>2. packet[c].answers \in ReqOrNone
  BY DEF TCPTypeOK, Packet
<1> QED BY <1>1, <1>2 DEF ImeiOrNone, ReplyOf

(* A step of the whole is one of the registry and its connections, or      *)
(* leaves them alone.                                                      *)
LEMMA TCPHalf == HTTPInv /\ [Next]_vars => [TCPNext]_tcpVars
<1> SUFFICES ASSUME HTTPInv, Next PROVE [TCPNext]_tcpVars
  BY DEF vars, tcpVars
<1> DEFINE Goal == [TCPNext]_tcpVars
<1>1. \A c \in Conns : OwnStep(c) \/ CallbackReturn(c) => Goal
  BY Zenon DEF OwnStep, CallbackReturn, TCPNext
<1>2. \A r \in Requests : Send(r) => Goal
  BY Zenon DEF TCPNext
<1>3. UNCHANGED tcpVars => Goal
  OBVIOUS
<1>4. \A r \in Requests : hpc[r] = "send" => target[r] \in Imeis
  BY DEF HTTPInv, HandlerProgress
<1>5. \A r \in Requests : CommandLookup(r) => Goal
  BY <1>2, <1>4 DEF CommandLookup, Send
<1>6. \A r \in Requests : CommandWrite(r) \/ CommandWriteFail(r) => Goal
  BY <1>2 DEF CommandWrite, CommandWriteFail, Send
<1>7. \A r \in Requests : CommandNotFound(r) => Goal
  BY <1>3 DEF CommandNotFound, SendNotFound
<1>8. \A c \in Conns : SkipData(c) \/ NobodyWaits(c) \/ Deliver(c) => Goal
  BY <1>1 DEF SkipData, NobodyWaits, Deliver
<1>9. \A c \in Conns : FindWaiter(c) \/ DeliverPanic(c) => Goal
  BY <1>3 DEF FindWaiter, DeliverPanic
<1> HIDE DEF Goal
<1>10. Goal
  BY <1>1, <1>3, <1>5, <1>6, <1>7, <1>8, <1>9, TrackerStepCases
<1> QED BY <1>10 DEF Goal

(* It is one of the handlers and their slots, or leaves them alone.        *)
LEMMA HTTPHalf == TCPTypeOK /\ [Next]_vars => [HTTPNext]_httpVars
<1> SUFFICES ASSUME TCPTypeOK, Next PROVE [HTTPNext]_httpVars
  BY DEF vars, httpVars
<1> DEFINE Goal == [HTTPNext]_httpVars
<1>0. ~crashed
  BY DEF Next
<1>1. \A c \in Conns : Report(c) => Goal
  BY <1>0, Zenon DEF HTTPNext
<1>2. \A r \in Requests : Arrive(r) \/ Handle(r) \/ HubAnswers(r) => Goal
  BY <1>0, Zenon DEF HTTPNext
<1>3. UNCHANGED httpVars => Goal
  OBVIOUS
<1> HIDE DEF Goal
<1>4. ASSUME NEW c \in Conns, FindWaiter(c) PROVE Goal
  <2>1. imei[c] \in Imeis /\ ReplyOf(c) \in {Message(c, r) : r \in ReqOrNone} \cup {Disconnected(c)}
    BY <1>4, CallbacksAreOfTrackers DEF FindWaiter
  <2>2. LoadHit(c, imei[c], ReplyOf(c))
    BY <1>4 DEF FindWaiter
  <2>3. \/ \E r \in ReqOrNone : LoadHit(c, imei[c], Message(c, r))
        \/ LoadHit(c, imei[c], Disconnected(c))
    BY <2>1, <2>2
  <2>4. Report(c)
    BY <2>1, <2>3 DEF Report
  <2> QED BY <1>1, <2>4
<1>5. \A c \in Conns : Deliver(c) \/ DeliverPanic(c) => Goal
  BY <1>1 DEF Deliver, DeliverPanic, Report
<1>6. \A c \in Conns : SkipData(c) \/ NobodyWaits(c) => Goal
  BY <1>3 DEF SkipData, NobodyWaits, LoadMiss
<1>7. \A r \in Requests : CommandNotFound(r) \/ CommandWrite(r) \/ CommandWriteFail(r) => Goal
  BY <1>2 DEF CommandNotFound, CommandWrite, CommandWriteFail, HubAnswers
<1>8. \A r \in Requests : CommandLookup(r) => Goal
  BY <1>3 DEF CommandLookup
<1>9. Goal
  BY <1>2, <1>3, <1>4, <1>5, <1>6, <1>7, <1>8, TrackerStepCases
<1> QED BY <1>9 DEF Goal

(* Both halves' invariants hold of the whole.                              *)
LEMMA HalvesStep == TCPInv /\ HTTPInv /\ [Next]_vars => TCPInv' /\ HTTPInv'
<1> SUFFICES ASSUME TCPInv, HTTPInv, [Next]_vars PROVE TCPInv' /\ HTTPInv'
  OBVIOUS
<1>1. [TCPNext]_tcpVars /\ [HTTPNext]_httpVars
  BY TCPHalf, HTTPHalf DEF TCPInv
<1>2. TCPInv'
  BY <1>1, TypeStep, NoStaleStep, NewStep, EvictStep, FirstStep, RivalsStep DEF TCPInv
<1>3. HTTPInv'
  BY <1>1, HTTPTypeStep, HandlerProgressStep, CallIsMeantStep, SlotStep DEF HTTPInv
<1> QED BY <1>2, <1>3
-----------------------------------------------------------------------------
(***************************************************************************)
(* The invariant that ties the halves together: it follows a command from  *)
(* its request over SendPacket to a socket, and a reply from a packet over *)
(* a call and a result channel to the client.                              *)
(***************************************************************************)

(* handleCmd knows its IMEI only once it runs.                             *)
NewIsUntargeted == \A r \in Requests : hpc[r] = "idle" => target[r] = NoImei

(* What SendPacket's Load found is a connection of the request's tracker.  *)
LookedUpIsTargets ==
  \A r \in Requests : client[r] # NoConn => hpc[r] = "send" /\ imei[client[r]] = target[r]

(* A command that was written went to one connection of its tracker, and   *)
(* its handler is past SendPacket.                                         *)
SentIsTargets ==
  \A r \in Requests : \A c \in Conns : r \in sent[c] =>
    /\ imei[c] = target[r]
    /\ hpc[r] \in {"wait", "release", "closing", "done"}
    /\ \A d \in Conns : r \in sent[d] => c = d

(* A message answers a command of the connection it came from, or none.    *)
AnswersWereSent == \A c \in Conns : packet[c].answers \in sent[c] \cup {NoReq}

Leaving == {"onclose", "deregister", "close", "done"}

(* A reply may be given to a request if it came from the request's         *)
(* tracker, tells of a disconnection only if there was one, and answers    *)
(* that request, none, or one that is over.                                *)
Faithful(reply, r) ==
  /\ target[r] \in Imeis /\ imei[reply.from] = target[r]
  /\ reply.kind = "disconnected" => pc[reply.from] \in Leaving
  /\ \A s \in Requests \ {r} :
       reply.answers = s => target[s] = target[r] /\ hpc[s] \in {"closing", "done"}

CallsAreFaithful ==
  \A c \in Conns : call[c] # NoCall => Faithful(call[c].reply, call[c].to)

ResultsAreFaithful ==
  \A r \in Requests : result[r] # <<>> => Faithful(Head(result[r]), r)

OutcomesAreFaithful ==
  \A r \in Requests : outcome[r] \in Reply => Faithful(outcome[r], r)

TrackerInv ==
  /\ TCPInv /\ HTTPInv
  /\ NewIsUntargeted /\ LookedUpIsTargets /\ SentIsTargets /\ AnswersWereSent
  /\ CallsAreFaithful /\ ResultsAreFaithful /\ OutcomesAreFaithful
  /\ HeldUpByItsOwnCommand

(* At first there are no commands and no replies.                          *)
LEMMA TrackerInitInv == Init => TrackerInv
<1> SUFFICES ASSUME Init PROVE TrackerInv
  OBVIOUS
<1>1. TCPInv /\ HTTPInv
  BY InitInv, HTTPInitInv DEF Init
<1>2. NewIsUntargeted /\ LookedUpIsTargets /\ SentIsTargets /\ AnswersWereSent
  BY DEF Init, TCPInit, HTTPInit, NewIsUntargeted, LookedUpIsTargets, SentIsTargets,
         AnswersWereSent, NoPacket
<1>3. CallsAreFaithful /\ ResultsAreFaithful /\ OutcomesAreFaithful
  BY Values DEF Init, HTTPInit, CallsAreFaithful, ResultsAreFaithful, OutcomesAreFaithful
<1>4. HeldUpByItsOwnCommand
  BY DEF Init, HTTPInit, HeldUpByItsOwnCommand
<1> QED BY <1>1, <1>2, <1>3, <1>4 DEF TrackerInv
-----------------------------------------------------------------------------
(***************************************************************************)
(* What no step takes back.                                                *)
(***************************************************************************)

(* A connection keeps its IMEI, and one that leaves does not come back.    *)
LEMMA ConnectionsOnlyLeave ==
  ASSUME TCPInv, [TCPNext]_tcpVars, NEW c \in Conns
  PROVE  /\ imei[c] \in Imeis => imei'[c] = imei[c]
         /\ pc[c] \in Leaving => pc'[c] \in Leaving
<1> DEFINE Goal == /\ imei[c] \in Imeis => imei'[c] = imei[c]
                   /\ pc[c] \in Leaving => pc'[c] \in Leaving
<1> USE FleetAssumption DEF TCPInv, TCPTypeOK, NewIsAnonymous, Goto, Leaving
<1>1. UNCHANGED tcpVars => Goal
  BY DEF tcpVars
<1>2. \A d \in Conns : ReadImei(d) => Goal
  BY DEF ReadImei
<1>3. \A d \in Conns : Accept(d) \/ LoadOrStore(d) \/ CloseOther(d) \/ StoreSelf(d)
                        \/ HandshakeFail(d) \/ Greet(d) \/ GreetFail(d) => Goal
  BY DEF Accept, LoadOrStore, CloseOther, StoreSelf, HandshakeFail, Greet, GreetFail
<1>4. \A d \in Conns : SetReadDeadline(d) \/ ReadPing(d) \/ ReadFail(d) \/ ReadData(d)
                        \/ ReadMessage(d) \/ OnPacketReturn(d) => Goal
  BY DEF SetReadDeadline, ReadPing, ReadFail, ReadData, ReadMessage, OnPacketReturn
<1>5. \A d \in Conns : OnCloseReturn(d) \/ Deregister(d) \/ Close(d) => Goal
  BY DEF OnCloseReturn, Deregister, Close
<1>6. \A r \in Requests : Send(r) => Goal
  BY DEF Send, SendLookup, SendNotFound, SendWrite, SendWriteFail, tcpVars
<1> HIDE DEF Goal
<1>7. Goal
  BY <1>1, <1>2, <1>3, <1>4, <1>5, <1>6, StepCases
<1> QED BY <1>7 DEF Goal

(* A handler keeps its IMEI, and one past SendPacket or past its slot      *)
(* stays so.                                                               *)
LEMMA HandlersOnlyAdvance ==
  ASSUME HTTPInv, NewIsUntargeted, [HTTPNext]_httpVars, NEW r \in Requests
  PROVE  /\ target[r] \in Imeis => target'[r] = target[r]
         /\ hpc[r] \in {"closing", "done"} => hpc'[r] \in {"closing", "done"}
         /\ hpc[r] \in {"wait", "release", "closing", "done"}
              => hpc'[r] \in {"wait", "release", "closing", "done"}
         /\ hpc'[r] = "idle" => target'[r] = NoImei
<1> DEFINE Goal == /\ target[r] \in Imeis => target'[r] = target[r]
                   /\ hpc[r] \in {"closing", "done"} => hpc'[r] \in {"closing", "done"}
                   /\ hpc[r] \in {"wait", "release", "closing", "done"}
                        => hpc'[r] \in {"wait", "release", "closing", "done"}
                   /\ hpc'[r] = "idle" => target'[r] = NoImei
<1> USE FleetAssumption DEF HTTPInv, HTTPTypeOK, NewIsUntargeted, Step
<1>1. UNCHANGED httpVars => Goal
  BY DEF httpVars
<1>2. \A s \in Requests : Arrive(s) => Goal
  BY DEF Arrive
<1>3. \A s \in Requests : Acquire(s) \/ SendError(s) \/ SendDone(s) \/ Receive(s) => Goal
  BY DEF Acquire, SendError, SendDone, Receive
<1>4. \A s \in Requests : Timeout(s) \/ Release(s) \/ CloseResult(s) => Goal
  BY DEF Timeout, Release, CloseResult
<1>5. \A c \in Conns : \A i \in Imeis : LoadMiss(c, i) => Goal
  BY DEF LoadMiss, httpVars
<1>6. \A c \in Conns : \A i \in Imeis : \A reply \in Reply : LoadHit(c, i, reply) => Goal
  BY DEF LoadHit
<1>7. \A c \in Conns : ChanSend(c) \/ ChanSendPanic(c) => Goal
  BY DEF ChanSend, ChanSendPanic
<1> HIDE DEF Goal
<1>8. Goal
  BY <1>1, <1>2, <1>3, <1>4, <1>5, <1>6, <1>7, HTTPStepCases
<1> QED BY <1>8 DEF Goal

(* Faithful of the next state, for a reply and a request of this one.      *)
StillFaithful(reply, r) ==
  /\ target'[r] \in Imeis /\ imei'[reply.from] = target'[r]
  /\ reply.kind = "disconnected" => pc'[reply.from] \in Leaving
  /\ \A s \in Requests \ {r} :
       reply.answers = s => target'[s] = target'[r] /\ hpc'[s] \in {"closing", "done"}

(* So a reply that may be given to a request still may after any step.     *)
LEMMA FaithfulStays ==
  ASSUME TrackerInv, [Next]_vars
  PROVE  \A reply \in Reply : \A r \in Requests :
           Faithful(reply, r) => StillFaithful(reply, r)
<1> SUFFICES ASSUME NEW reply \in Reply, NEW r \in Requests, Faithful(reply, r)
             PROVE  StillFaithful(reply, r)
  OBVIOUS
<1>1. [TCPNext]_tcpVars /\ [HTTPNext]_httpVars
  BY TCPHalf, HTTPHalf DEF TrackerInv, TCPInv
<1>2. reply.from \in Conns
  BY Values
<1>3. imei'[reply.from] = imei[reply.from]
  BY <1>1, <1>2, ConnectionsOnlyLeave DEF TrackerInv, Faithful
<1>4. pc[reply.from] \in Leaving => pc'[reply.from] \in Leaving
  BY <1>1, <1>2, ConnectionsOnlyLeave DEF TrackerInv
<1>5. \A s \in Requests :
        /\ target[s] \in Imeis => target'[s] = target[s]
        /\ hpc[s] \in {"closing", "done"} => hpc'[s] \in {"closing", "done"}
  BY <1>1, HandlersOnlyAdvance DEF TrackerInv
<1> QED BY <1>3, <1>4, <1>5 DEF Faithful, StillFaithful
-----------------------------------------------------------------------------
(***************************************************************************)
(* The steps.                                                              *)
(***************************************************************************)

(* A connection's own steps leave commands alone and make packets only of  *)
(* commands the tracker has received.                                      *)
LEMMA OwnStepsKeepCommands ==
  ASSUME TCPTypeOK, AnswersWereSent, NEW c \in Conns, OwnStep(c)
  PROVE  /\ UNCHANGED <<sent, client>>
         /\ \A d \in Conns : packet'[d].answers \in sent[d] \cup {NoReq}
<1> DEFINE Goal == /\ UNCHANGED <<sent, client>>
                   /\ \A d \in Conns : packet'[d].answers \in sent[d] \cup {NoReq}
<1> USE DEF TCPTypeOK, AnswersWereSent
<1>1. CASE Accept(c) \/ Establish(c) \/ Teardown(c)
  BY <1>1 DEF Accept, Establish, ReadImei, HandshakeFail, LoadOrStore, CloseOther,
              StoreSelf, Greet, GreetFail, Teardown, Deregister, Close
<1>2. CASE SetReadDeadline(c) \/ ReadPing(c) \/ ReadFail(c)
  BY <1>2 DEF SetReadDeadline, ReadPing, ReadFail
<1>3. CASE ReadData(c)
  BY <1>3 DEF ReadData, DataPacket
<1>4. CASE ReadMessage(c)
  BY <1>4 DEF ReadMessage, MessagePacket
<1> QED BY <1>1, <1>2, <1>3, <1>4 DEF OwnStep, Serve

(* A callback's return empties the packet.                                 *)
LEMMA CallbacksKeepCommands ==
  ASSUME TCPTypeOK, AnswersWereSent, NEW c \in Conns, CallbackReturn(c)
  PROVE  /\ UNCHANGED <<sent, client>>
         /\ \A d \in Conns : packet'[d].answers \in sent[d] \cup {NoReq}
BY DEF TCPTypeOK, AnswersWereSent, CallbackReturn, OnPacketReturn, OnCloseReturn, NoPacket

(* What the halves do not take back, for a step of the whole.              *)
LEMMA Persistence ==
  ASSUME TrackerInv, [Next]_vars
  PROVE  /\ \A c \in Conns : imei[c] \in Imeis => imei'[c] = imei[c]
         /\ \A r \in Requests :
              /\ target[r] \in Imeis => target'[r] = target[r]
              /\ hpc[r] \in {"wait", "release", "closing", "done"}
                   => hpc'[r] \in {"wait", "release", "closing", "done"}
<1>1. [TCPNext]_tcpVars /\ [HTTPNext]_httpVars
  BY TCPHalf, HTTPHalf DEF TrackerInv, TCPInv
<1> QED BY <1>1, ConnectionsOnlyLeave, HandlersOnlyAdvance DEF TrackerInv

(* A request has no target until its command was looked up.                *)
LEMMA UntargetedStep == TrackerInv /\ [Next]_vars => NewIsUntargeted'
<1> SUFFICES ASSUME TrackerInv, [Next]_vars PROVE NewIsUntargeted'
  OBVIOUS
<1>1. [HTTPNext]_httpVars
  BY HTTPHalf DEF TrackerInv, TCPInv
<1> QED BY <1>1, HandlersOnlyAdvance DEF TrackerInv, NewIsUntargeted

(* Where the commands are: with SendPacket, or in one socket.              *)
LEMMA CommandsStep ==
  TrackerInv /\ [Next]_vars => LookedUpIsTargets' /\ SentIsTargets' /\ AnswersWereSent'
<1> DEFINE Goal == LookedUpIsTargets' /\ SentIsTargets' /\ AnswersWereSent'
<1> SUFFICES ASSUME TrackerInv, [Next]_vars PROVE Goal
  OBVIOUS
<1>0. /\ TCPTypeOK /\ NoStaleRegistration /\ HTTPTypeOK /\ HandlerProgress
      /\ LookedUpIsTargets /\ SentIsTargets /\ AnswersWereSent
  BY DEF TrackerInv, TCPInv, HTTPInv
<1>1. /\ \A c \in Conns : imei[c] \in Imeis => imei'[c] = imei[c]
      /\ \A r \in Requests :
           /\ target[r] \in Imeis => target'[r] = target[r]
           /\ hpc[r] \in {"wait", "release", "closing", "done"}
                => hpc'[r] \in {"wait", "release", "closing", "done"}
  BY Persistence
<1>2. \A r \in Requests : hpc[r] # "idle" => target[r] \in Imeis
  BY <1>0 DEF HandlerProgress
<1>3. \A r \in Requests : \A c \in Conns : r \in sent[c] =>
        /\ imei'[c] = target'[r]
        /\ hpc'[r] \in {"wait", "release", "closing", "done"}
        /\ \A d \in Conns : r \in sent[d] => c = d
  BY <1>0, <1>1, <1>2 DEF SentIsTargets
<1>4. \A r \in Requests : client[r] # NoConn =>
        hpc[r] = "send" /\ client[r] \in Conns /\ imei'[client[r]] = target'[r]
  BY <1>0, <1>1, <1>2 DEF LookedUpIsTargets, TCPTypeOK, ConnOrNone
<1>5. ASSUME UNCHANGED <<sent, client>>,
             \A r \in Requests : client[r] # NoConn => hpc'[r] = hpc[r],
             \A d \in Conns : packet'[d].answers \in sent[d] \cup {NoReq}
      PROVE  Goal
  BY <1>3, <1>4, <1>5 DEF LookedUpIsTargets, SentIsTargets, AnswersWereSent
<1>6. ASSUME UNCHANGED <<sent, client, packet>>,
             \A r \in Requests : client[r] # NoConn => hpc'[r] = hpc[r]
      PROVE  Goal
  BY <1>0, <1>5, <1>6 DEF AnswersWereSent
<1>7. ASSUME NEW c \in Conns, OwnStep(c), UNCHANGED httpVars PROVE Goal
  BY <1>0, <1>5, <1>7, OwnStepsKeepCommands DEF httpVars
<1>8. ASSUME NEW c \in Conns, CallbackReturn(c), UNCHANGED hpc PROVE Goal
  BY <1>0, <1>5, <1>8, CallbacksKeepCommands
<1>9. ASSUME NEW c \in Conns, SkipData(c) \/ NobodyWaits(c) \/ Deliver(c) PROVE Goal
  BY <1>8, <1>9 DEF SkipData, NobodyWaits, Deliver, LoadMiss, ChanSend, httpVars
<1>10. ASSUME NEW c \in Conns, FindWaiter(c) \/ DeliverPanic(c) PROVE Goal
  BY <1>6, <1>10 DEF FindWaiter, DeliverPanic, LoadHit, ChanSendPanic, tcpVars
<1>11. ASSUME NEW r \in Requests, Arrive(r) \/ Handle(r), UNCHANGED tcpVars PROVE Goal
  <2>1. \A s \in Requests : client[s] # NoConn => hpc'[s] = hpc[s]
    BY <1>0, <1>4, <1>11 DEF Arrive, Handle, Acquire, Receive, Timeout, Release, CloseResult,
                             Step, HTTPTypeOK
  <2> QED BY <1>6, <1>11, <2>1 DEF tcpVars
<1>12. ASSUME NEW r \in Requests, CommandNotFound(r) PROVE Goal
  BY <1>6, <1>12 DEF CommandNotFound, SendError, SendNotFound, Step, tcpVars, HTTPTypeOK
<1>13. ASSUME NEW r \in Requests, CommandLookup(r) PROVE Goal
  <2>1. target[r] \in Imeis /\ clients[target[r]] \in Conns
    BY <1>0, <1>2, <1>13 DEF CommandLookup, SendLookup, TCPTypeOK, ConnOrNone
  <2>2. imei[clients[target[r]]] = target[r]
    BY <1>0, <2>1, FleetAssumption DEF NoStaleRegistration
  <2>3. imei'[clients[target[r]]] = target'[r]
    BY <1>1, <2>1, <2>2
  <2>4. client' = [client EXCEPT ![r] = clients[target[r]]] /\ UNCHANGED <<sent, packet, hpc>>
    BY <1>13 DEF CommandLookup, SendLookup, httpVars
  <2>5. hpc[r] = "send"
    BY <1>13 DEF CommandLookup
  <2>6. LookedUpIsTargets'
    BY <1>0, <1>4, <2>3, <2>4, <2>5 DEF LookedUpIsTargets, TCPTypeOK
  <2> QED BY <1>0, <1>3, <2>4, <2>6 DEF SentIsTargets, AnswersWereSent
<1>14. ASSUME NEW r \in Requests, CommandWrite(r) PROVE Goal
  <2>1. /\ hpc[r] = "send" /\ client[r] \in Conns /\ imei'[client[r]] = target'[r]
        /\ hpc' = [hpc EXCEPT ![r] = "wait"]
        /\ sent' = [sent EXCEPT ![client[r]] = @ \cup {r}]
        /\ client' = [client EXCEPT ![r] = NoConn]
        /\ UNCHANGED packet
    BY <1>4, <1>14 DEF CommandWrite, SendWrite, SendDone, Step
  <2>2. LookedUpIsTargets'
    BY <1>0, <1>4, <2>1 DEF LookedUpIsTargets, TCPTypeOK, HTTPTypeOK
  <2>3. \A c \in Conns : r \notin sent[c]
    BY <1>0, <2>1 DEF SentIsTargets
  <2>4. \A s \in Requests, c \in Conns :
          s \in sent'[c] <=> s \in sent[c] \/ (s = r /\ c = client[r])
    BY <1>0, <2>1 DEF TCPTypeOK
  <2>5. hpc'[r] = "wait"
    BY <1>0, <2>1 DEF HTTPTypeOK
  <2>6. SentIsTargets'
    BY <1>3, <2>1, <2>3, <2>4, <2>5 DEF SentIsTargets
  <2>7. AnswersWereSent'
    BY <1>0, <2>1 DEF AnswersWereSent, TCPTypeOK
  <2> QED BY <2>2, <2>6, <2>7
<1>15. ASSUME NEW r \in Requests, CommandWriteFail(r) PROVE Goal
  <2>1. /\ hpc' = [hpc EXCEPT ![r] = "release"]
        /\ client' = [client EXCEPT ![r] = NoConn]
        /\ UNCHANGED <<sent, packet>>
    BY <1>15 DEF CommandWriteFail, SendWriteFail, SendError, Step
  <2>2. LookedUpIsTargets'
    BY <1>0, <1>4, <2>1 DEF LookedUpIsTargets, TCPTypeOK, HTTPTypeOK
  <2> QED BY <1>0, <1>3, <2>1, <2>2 DEF SentIsTargets, AnswersWereSent
<1>16. CASE UNCHANGED vars
  BY <1>6, <1>16 DEF vars, tcpVars, httpVars
<1> HIDE DEF Goal
<1> QED
  BY <1>7, <1>9, <1>10, <1>11, <1>12, <1>13, <1>14, <1>15, <1>16, TrackerStepCases

(* A reply that is to be delivered: it is of the tracker whose slot the    *)
(* request holds, and if it answers another request, that one has let go.  *)
LEMMA RepliesFoundAreFaithful ==
  ASSUME TrackerInv, NEW c \in Conns, FindWaiter(c)
  PROVE  /\ respChan[imei[c]] \in Requests /\ ReplyOf(c) \in Reply
         /\ Faithful(ReplyOf(c), respChan[imei[c]])
<1> DEFINE r == respChan[imei[c]]
<1>0. /\ TCPTypeOK /\ HTTPTypeOK /\ HandlerProgress /\ SlotIsItsHolders
      /\ SentIsTargets /\ AnswersWereSent
  BY DEF TrackerInv, TCPInv, HTTPInv
<1>1. /\ imei[c] \in Imeis
      /\ ReplyOf(c) \in {Message(c, s) : s \in ReqOrNone} \cup {Disconnected(c)}
  BY <1>0, CallbacksAreOfTrackers DEF FindWaiter
<1>2. ReplyOf(c) \in Reply /\ ReplyOf(c).from = c
  BY <1>1 DEF Message, Disconnected, Reply, ReqOrNone
<1>3. r \in Requests /\ hpc[r] \in Holding /\ target[r] = imei[c]
  BY <1>0, <1>1 DEF FindWaiter, LoadHit, HTTPTypeOK, ReqOrNone, SlotIsItsHolders
<1>4. ReplyOf(c).kind = "disconnected" => pc[c] \in Leaving
  BY DEF ReplyOf, Message, FindWaiter, HasReply, Leaving
<1>5. ASSUME NEW s \in Requests, s # r, ReplyOf(c).answers = s
      PROVE  target[s] = target[r] /\ hpc[s] \in {"closing", "done"}
  <2>1. s \in sent[c]
    BY <1>0, <1>5, FleetAssumption DEF ReplyOf, Message, Disconnected, AnswersWereSent
  <2>2. imei[c] = target[s] /\ hpc[s] \in {"wait", "release", "closing", "done"}
    BY <1>0, <2>1 DEF SentIsTargets
  <2>3. hpc[s] \notin Holding
    BY <1>0, <1>1, <1>5, <2>2 DEF SlotIsItsHolders
  <2> QED BY <1>3, <2>2, <2>3 DEF Holding
<1> QED BY <1>1, <1>2, <1>3, <1>4, <1>5 DEF Faithful

(* Where the replies are: in a call, in a result channel or with a client. *)
LEMMA RepliesStep ==
  TrackerInv /\ [Next]_vars => CallsAreFaithful' /\ ResultsAreFaithful' /\ OutcomesAreFaithful'
<1> DEFINE Goal == CallsAreFaithful' /\ ResultsAreFaithful' /\ OutcomesAreFaithful'
<1> SUFFICES ASSUME TrackerInv, [Next]_vars PROVE Goal
  OBVIOUS
<1>0. /\ HTTPTypeOK /\ CallIsMeant
      /\ CallsAreFaithful /\ ResultsAreFaithful /\ OutcomesAreFaithful
  BY DEF TrackerInv, HTTPInv
<1>1. \A reply \in Reply : \A r \in Requests : Faithful(reply, r) => StillFaithful(reply, r)
  BY FaithfulStays
<1>2. \A c \in Conns : call[c] # NoCall =>
        /\ call[c].to \in Requests /\ call[c].reply \in Reply
        /\ StillFaithful(call[c].reply, call[c].to)
  BY <1>0, <1>1 DEF CallIsMeant, CallsAreFaithful
<1>3. \A r \in Requests : result[r] # <<>> =>
        Head(result[r]) \in Reply /\ StillFaithful(Head(result[r]), r)
  BY <1>0, <1>1 DEF HTTPTypeOK, ResultsAreFaithful
<1>4. \A r \in Requests : outcome[r] \in Reply => StillFaithful(outcome[r], r)
  BY <1>0, <1>1 DEF OutcomesAreFaithful
(* What remains to be shown, part by part.                                 *)
<1>5. ASSUME \A c \in Conns : call'[c] # NoCall => StillFaithful(call'[c].reply, call'[c].to)
      PROVE  CallsAreFaithful'
  BY <1>5 DEF CallsAreFaithful, Faithful, StillFaithful
<1>6. ASSUME \A r \in Requests : result'[r] # <<>> => StillFaithful(Head(result'[r]), r)
      PROVE  ResultsAreFaithful'
  BY <1>6 DEF ResultsAreFaithful, Faithful, StillFaithful
<1>7. ASSUME \A r \in Requests : outcome'[r] \in Reply => StillFaithful(outcome'[r], r)
      PROVE  OutcomesAreFaithful'
  BY <1>7 DEF OutcomesAreFaithful, Faithful, StillFaithful
<1>8. UNCHANGED call => CallsAreFaithful'
  BY <1>2, <1>5
<1>9. UNCHANGED result => ResultsAreFaithful'
  BY <1>3, <1>6
<1>10. UNCHANGED outcome => OutcomesAreFaithful'
  BY <1>4, <1>7
<1>11. Rejected \notin Reply /\ TimedOut \notin Reply
  BY Values
<1>12. ASSUME UNCHANGED httpVars PROVE Goal
  BY <1>8, <1>9, <1>10, <1>12 DEF httpVars
<1>13. ASSUME NEW r \in Requests, Arrive(r) \/ Acquire(r) \/ Release(r) \/ CloseResult(r)
       PROVE  Goal
  BY <1>8, <1>9, <1>10, <1>13 DEF Arrive, Acquire, Release, CloseResult
<1>14. ASSUME NEW r \in Requests, SendError(r) \/ Timeout(r) PROVE Goal
  <2>1. UNCHANGED <<call, result>> /\ outcome'[r] \notin Reply
    BY <1>0, <1>11, <1>14 DEF SendError, Timeout, HTTPTypeOK
  <2>2. \A s \in Requests : s # r => outcome'[s] = outcome[s]
    BY <1>0, <1>14 DEF SendError, Timeout, HTTPTypeOK
  <2>3. OutcomesAreFaithful'
    BY <1>4, <1>7, <2>1, <2>2
  <2> QED BY <1>8, <1>9, <2>1, <2>3
<1>15. ASSUME NEW r \in Requests, SendDone(r) PROVE Goal
  BY <1>8, <1>9, <1>10, <1>15 DEF SendDone
<1>16. ASSUME NEW r \in Requests, Receive(r) PROVE Goal
  <2>1. result[r] # <<>> /\ outcome'[r] = Head(result[r])
    BY <1>0, <1>16 DEF Receive, HTTPTypeOK
  <2>2. \A s \in Requests : s # r => outcome'[s] = outcome[s] /\ result'[s] = result[s]
    BY <1>0, <1>16 DEF Receive, HTTPTypeOK
  <2>3. result'[r] = <<>>
    <3>1. result'[r] = Tail(result[r]) /\ result[r] \in Seq(Reply) /\ Len(result[r]) <= 1
      BY <1>0, <1>16 DEF Receive, HTTPTypeOK, ResultCap
    <3> QED BY <2>1, <3>1
  <2>4. OutcomesAreFaithful'
    BY <1>3, <1>4, <1>7, <2>1, <2>2
  <2>5. ResultsAreFaithful'
    BY <1>3, <1>6, <2>2, <2>3
  <2> QED BY <1>8, <1>16, <2>4, <2>5 DEF Receive
<1>17. ASSUME NEW c \in Conns, FindWaiter(c) PROVE Goal
  <2>1. call'[c].to = respChan[imei[c]] /\ call'[c].reply = ReplyOf(c)
    BY <1>0, <1>17 DEF FindWaiter, LoadHit, HTTPTypeOK
  <2>2. \A d \in Conns : d # c => call'[d] = call[d]
    BY <1>0, <1>17 DEF FindWaiter, LoadHit, HTTPTypeOK
  <2>3. StillFaithful(call'[c].reply, call'[c].to)
    BY <1>1, <1>17, <2>1, RepliesFoundAreFaithful
  <2>4. CallsAreFaithful'
    BY <1>2, <1>5, <2>2, <2>3
  <2> QED BY <1>9, <1>10, <1>17, <2>4 DEF FindWaiter, LoadHit
<1>18. ASSUME NEW c \in Conns, Deliver(c) PROVE Goal
  <2> DEFINE r == call[c].to
  <2>1. /\ call[c] # NoCall /\ r \in Requests /\ Len(result[r]) < 1
        /\ result' = [result EXCEPT ![r] = Append(@, call[c].reply)]
        /\ call' = [call EXCEPT ![c] = NoCall]
        /\ UNCHANGED outcome
    BY <1>2, <1>18 DEF Deliver, ChanSend, ResultCap
  <2>2. result[r] \in Seq(Reply) /\ call[c].reply \in Reply
    BY <1>0, <1>2, <2>1 DEF HTTPTypeOK
  <2>3. result[r] = <<>>
    BY <2>1, <2>2
  <2>4. Head(result'[r]) = call[c].reply
    BY <1>0, <2>1, <2>2, <2>3 DEF HTTPTypeOK
  <2>5. \A s \in Requests : s # r => result'[s] = result[s]
    BY <1>0, <2>1 DEF HTTPTypeOK
  <2>6. ResultsAreFaithful'
    BY <1>2, <1>3, <1>6, <2>1, <2>4, <2>5
  <2>7. CallsAreFaithful'
    BY <1>0, <1>2, <1>5, <2>1 DEF HTTPTypeOK
  <2> QED BY <1>10, <2>1, <2>6, <2>7
<1>19. ASSUME NEW c \in Conns, DeliverPanic(c) PROVE Goal
  BY <1>8, <1>9, <1>10, <1>19 DEF DeliverPanic, ChanSendPanic
<1> HIDE DEF Goal
<1>20. ASSUME NEW r \in Requests, Handle(r) PROVE Goal
  BY <1>13, <1>14, <1>16, <1>20 DEF Handle
<1>21. ASSUME NEW c \in Conns, SkipData(c) \/ NobodyWaits(c) PROVE Goal
  BY <1>12, <1>21 DEF SkipData, NobodyWaits, LoadMiss
<1>22. ASSUME NEW r \in Requests,
              CommandNotFound(r) \/ CommandLookup(r) \/ CommandWrite(r) \/ CommandWriteFail(r)
       PROVE  Goal
  BY <1>12, <1>14, <1>15, <1>22 DEF CommandNotFound, CommandLookup, CommandWrite, CommandWriteFail
<1>23. UNCHANGED vars => Goal
  BY <1>12 DEF vars
<1> QED
  BY <1>12, <1>13, <1>17, <1>18, <1>19, <1>20, <1>21, <1>22, <1>23, TrackerStepCases
(* A handler that can still let a caller go does, at the latest by its     *)
(* close.                                                                  *)
LEMMA ClosesAtTheEnd ==
  ASSUME HTTPInv, [HTTPNext]_httpVars, NEW r \in Requests,
         closed[r] \/ hpc[r] \in Holding \cup {"closing"}
  PROVE  closed'[r] \/ hpc'[r] \in Holding \cup {"closing"}
<1> DEFINE Goal == closed'[r] \/ hpc'[r] \in Holding \cup {"closing"}
<1> USE DEF HTTPInv, HTTPTypeOK, Step, Holding
<1>1. UNCHANGED httpVars => Goal
  BY DEF httpVars
<1>2. \A s \in Requests : Arrive(s) \/ Acquire(s) \/ SendError(s) \/ SendDone(s) => Goal
  BY DEF Arrive, Acquire, SendError, SendDone
<1>3. \A s \in Requests : Receive(s) \/ Timeout(s) \/ Release(s) \/ CloseResult(s) => Goal
  BY DEF Receive, Timeout, Release, CloseResult
<1>4. \A c \in Conns : \A i \in Imeis : LoadMiss(c, i) => Goal
  BY DEF LoadMiss, httpVars
<1>5. \A c \in Conns : \A i \in Imeis : \A reply \in Reply : LoadHit(c, i, reply) => Goal
  BY DEF LoadHit
<1>6. \A c \in Conns : ChanSend(c) \/ ChanSendPanic(c) => Goal
  BY DEF ChanSend, ChanSendPanic
<1> HIDE DEF Goal
<1>7. Goal
  BY <1>1, <1>2, <1>3, <1>4, <1>5, <1>6, HTTPStepCases
<1> QED BY <1>7 DEF Goal

(* A call of the send in a callback is as before, or Load has just found   *)
(* the channel in its tracker's slot.                                      *)
LEMMA CallsBeginAtTheSlot ==
  TrackerInv /\ [Next]_vars =>
    \A c \in Conns : call'[c] # NoCall =>
      \/ call'[c] = call[c]
      \/ /\ imei[c] \in Imeis /\ respChan[imei[c]] # NoReq
         /\ call'[c].to = respChan[imei[c]]
<1> DEFINE Goal == \A c \in Conns : call'[c] # NoCall =>
                     \/ call'[c] = call[c]
                     \/ /\ imei[c] \in Imeis /\ respChan[imei[c]] # NoReq
                        /\ call'[c].to = respChan[imei[c]]
<1> SUFFICES ASSUME TrackerInv, [Next]_vars PROVE Goal
  OBVIOUS
<1>0. HTTPInv /\ TCPTypeOK /\ HTTPTypeOK
  BY DEF TrackerInv, TCPInv, HTTPInv
<1>1. ASSUME NEW c \in Conns, FindWaiter(c) PROVE Goal
  <2>1. imei[c] \in Imeis
    BY <1>0, <1>1, CallbacksAreOfTrackers DEF FindWaiter
  <2>2. respChan[imei[c]] # NoReq /\ call'[c].to = respChan[imei[c]]
    BY <1>0, <1>1 DEF FindWaiter, LoadHit, HTTPTypeOK
  <2>3. \A d \in Conns : d # c => call'[d] = call[d]
    BY <1>0, <1>1 DEF FindWaiter, LoadHit, HTTPTypeOK
  <2> QED BY <2>1, <2>2, <2>3
<1>2. ASSUME NEW c \in Conns, Deliver(c) PROVE Goal
  BY <1>0, <1>2 DEF Deliver, ChanSend, HTTPTypeOK
<1>3. UNCHANGED call => Goal
  OBVIOUS
<1> HIDE DEF Goal
<1>4. ASSUME NEW c \in Conns, DeliverPanic(c) PROVE Goal
  BY <1>3, <1>4 DEF DeliverPanic, ChanSendPanic
<1>5. ASSUME UNCHANGED httpVars PROVE Goal
  BY <1>3, <1>5 DEF httpVars
<1>6. ASSUME NEW r \in Requests, Arrive(r) \/ Handle(r) PROVE Goal
  BY <1>3, <1>6 DEF Arrive, Handle, Acquire, Receive, Timeout, Release, CloseResult
<1>7. ASSUME NEW c \in Conns, SkipData(c) \/ NobodyWaits(c) PROVE Goal
  BY <1>5, <1>7 DEF SkipData, NobodyWaits, LoadMiss
<1>8. ASSUME NEW r \in Requests, SendError(r) \/ SendDone(r) PROVE Goal
  BY <1>3, <1>8 DEF SendError, SendDone
<1>9. ASSUME NEW r \in Requests,
             CommandNotFound(r) \/ CommandLookup(r) \/ CommandWrite(r) \/ CommandWriteFail(r)
      PROVE  Goal
  BY <1>5, <1>8, <1>9 DEF CommandNotFound, CommandLookup, CommandWrite, CommandWriteFail
<1>10. UNCHANGED vars => Goal
  BY <1>5 DEF vars
<1> QED BY <1>1, <1>2, <1>4, <1>5, <1>6, <1>7, <1>9, <1>10, TrackerStepCases

(* A goroutine stays held up by the command in its own tracker's slot, and *)
(* the handler of that command keeps on its way to the close.              *)
LEMMA HeldUpStep == TrackerInv /\ [Next]_vars => HeldUpByItsOwnCommand'
<1> SUFFICES ASSUME TrackerInv, [Next]_vars, NEW c \in Conns, call'[c] # NoCall
             PROVE  /\ target'[call'[c].to] = imei'[c]
                    /\ \/ closed'[call'[c].to]
                       \/ hpc'[call'[c].to] \in Holding \cup {"closing"}
  BY DEF HeldUpByItsOwnCommand
<1>0. HTTPInv /\ TCPTypeOK /\ HTTPTypeOK /\ [HTTPNext]_httpVars
  BY HTTPHalf DEF TrackerInv, TCPInv, HTTPInv
<1>1. \/ call'[c] = call[c]
      \/ /\ imei[c] \in Imeis /\ respChan[imei[c]] # NoReq
         /\ call'[c].to = respChan[imei[c]]
  BY CallsBeginAtTheSlot
<1>2. \E r \in Requests :
        /\ call'[c].to = r /\ target[r] = imei[c]
        /\ closed[r] \/ hpc[r] \in Holding \cup {"closing"}
  <2>1. CASE call'[c] = call[c]
    BY <2>1 DEF TrackerInv, HTTPInv, CallIsMeant, HeldUpByItsOwnCommand
  <2>2. CASE /\ imei[c] \in Imeis /\ respChan[imei[c]] # NoReq
             /\ call'[c].to = respChan[imei[c]]
    <3>1. respChan[imei[c]] \in Requests
      BY <1>0, <2>2 DEF HTTPTypeOK, ReqOrNone
    <3> QED BY <2>2, <3>1 DEF TrackerInv, HTTPInv, SlotIsItsHolders
  <2> QED BY <1>1, <2>1, <2>2
<1>3. PICK r \in Requests : /\ call'[c].to = r /\ target[r] = imei[c]
                            /\ closed[r] \/ hpc[r] \in Holding \cup {"closing"}
  BY <1>2
<1>4. target[r] \in Imeis
  BY <1>3 DEF TrackerInv, HTTPInv, HandlerProgress, Holding
<1>5. target'[r] = target[r] /\ imei'[c] = imei[c]
  BY <1>3, <1>4, Persistence
<1> QED BY <1>0, <1>3, <1>5, ClosesAtTheEnd
-----------------------------------------------------------------------------
(* The invariant holds of every behaviour of the wired server.             *)
THEOREM TrackerInvariance == Spec => []TrackerInv
<1>1. Init => TrackerInv
  BY TrackerInitInv
<1>2. TrackerInv /\ [Next]_vars => TrackerInv'
  BY HalvesStep, UntargetedStep, CommandsStep, RepliesStep, HeldUpStep DEF TrackerInv
<1> QED BY <1>1, <1>2, PTL DEF Spec

(* A posted command is written to no connection but one of the tracker it  *)
(* was posted for, and to one only (SendPacket between Load and Write).    *)
THEOREM CommandsReachTheirTracker == Spec => []CommandReachesItsTracker
<1>1. TrackerInv => CommandReachesItsTracker
  BY DEF TrackerInv, SentIsTargets, CommandReachesItsTracker
<1> QED BY <1>1, TrackerInvariance, PTL

(* What handleCmd tells a client came from a connection of the tracker it  *)
(* asked for, and a disconnection only from one that is on its way out.    *)
THEOREM RepliesComeFromTheirTracker == Spec => []ReplyComesFromItsTracker
<1>1. TrackerInv => ReplyComesFromItsTracker
  <2> SUFFICES ASSUME TrackerInv, NEW r \in Requests,
                      outcome[r].kind \in {"message", "disconnected"}
               PROVE  /\ imei[outcome[r].from] = target[r]
                      /\ outcome[r].kind = "disconnected" => pc[outcome[r].from] \in Leaving
    BY DEF ReplyComesFromItsTracker, Leaving
  <2>1. outcome[r] \in Reply
    BY Values DEF TrackerInv, HTTPInv, HTTPTypeOK
  <2> QED BY <2>1 DEF TrackerInv, OutcomesAreFaithful, Faithful
<1> QED BY <1>1, TrackerInvariance, PTL

(* A client is told the reply to another command only if that command was  *)
(* for the same tracker and its handler no longer waits.                   *)
THEOREM WaitingRepliesAreKept == Spec => []NoWaitingReplyIsStolen
<1>1. TrackerInv => NoWaitingReplyIsStolen
  <2> SUFFICES ASSUME TrackerInv, NEW r \in Requests, NEW s \in Requests,
                      outcome[r].kind = "message", outcome[r].answers = s, r # s
               PROVE  target[s] = target[r] /\ hpc[s] \in {"closing", "done"}
    BY DEF NoWaitingReplyIsStolen
  <2>1. outcome[r] \in Reply
    BY Values DEF TrackerInv, HTTPInv, HTTPTypeOK
  <2> QED BY <2>1 DEF TrackerInv, OutcomesAreFaithful, Faithful
<1> QED BY <1>1, TrackerInvariance, PTL

(* A connection's goroutine is held up only by a command for its own       *)
(* tracker, and the handler of that command is still there to let it go,   *)
(* so goroutines never wait for each other in a circle.                    *)
THEOREM NobodyIsForgotten == Spec => []HeldUpByItsOwnCommand
<1>1. TrackerInv => HeldUpByItsOwnCommand
  BY DEF TrackerInv
<1> QED BY <1>1, TrackerInvariance, PTL

(* What is proved of the registry holds in the wired server.               *)
THEOREM RegistryOfTheWhole ==
  Spec => [](TCPTypeOK /\ NoStaleRegistration /\ SoleConnectionIsListed /\ TwoRivalsNeverBothServed)
<1>1. TrackerInv => /\ TCPTypeOK /\ NoStaleRegistration
                    /\ SoleConnectionIsListed /\ TwoRivalsNeverBothServed
  BY DEF TrackerInv, TCPInv, FirstConnectionIsListed, SoleConnectionIsListed,
         OneOfTwoRivalsIsOut, TwoRivalsNeverBothServed, Serving, Registered
<1> QED BY <1>1, TrackerInvariance, PTL

(* Nor does the wiring let anybody but a rival close a socket.             *)
THEOREM OnlyRivalsCloseInTheWhole == Spec => OnlyRivalsEvict
<1>1. TrackerInv /\ [Next]_vars => [ClosedByARival]_tcpVars
  BY TCPHalf, ClosedByARivalStep DEF TrackerInv
<1> QED BY <1>1, TrackerInvariance, PTL DEF Spec, OnlyRivalsEvict, ClosedByARival

(* What is proved of the slots holds in the wired server.                  *)
THEOREM SlotsOfTheWhole ==
  Spec => [](HTTPTypeOK /\ SlotIsItsHolders /\ OneCommandInFlight /\ ListedChannelIsOpen)
<1>1. TrackerInv => HTTPTypeOK /\ SlotIsItsHolders
  BY DEF TrackerInv, HTTPInv
<1>2. TrackerInv => OneCommandInFlight
  BY FleetAssumption DEF TrackerInv, HTTPInv, HandlerProgress, SlotIsItsHolders,
                         OneCommandInFlight, Holding
<1>3. TrackerInv => ListedChannelIsOpen
  BY SlotsAreOpen DEF TrackerInv
<1> QED BY <1>1, <1>2, <1>3, TrackerInvariance, PTL

(* With the hub wired in, the handlers still implement the abstract slot.  *)
THEOREM WholeImplementsSlot == Spec => SlotSpec
<1>1. Init => Slot!Init
  BY SlotInit DEF Init
<1>2. TrackerInv /\ [Next]_vars => [Slot!Next]_(Slot!slotVars)
  BY HTTPHalf, SlotSimulation DEF TrackerInv, TCPInv
<1> QED BY <1>1, <1>2, TrackerInvariance, PTL DEF Spec, SlotSpec, Slot!Spec
=============================================================================

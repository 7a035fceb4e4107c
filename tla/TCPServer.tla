----------------------------- MODULE TCPServer -----------------------------
(***************************************************************************)
(* The TCP half of examples/simple-tcp-server: one goroutine per accepted  *)
(* connection runs handleConnection, all of them share the clients map     *)
(* (a sync.Map from IMEI to connection), and other goroutines call         *)
(* SendPacket.  Every step below is one operation on shared state: a       *)
(* sync.Map call, a socket call or a callback; what a goroutine does in    *)
(* between is private and belongs to the step before it.                   *)
(*                                                                         *)
(* The callbacks OnPacket and OnClose are function fields that main        *)
(* assigns.  Here they are nil, so a call returns at once; TrackerServer   *)
(* replaces OnPacketReturn and OnCloseReturn by the functions main sets.   *)
(***************************************************************************)
EXTENDS Fleet

VARIABLES
  pc,        (* [Conns -> ConnState], where handleConnection stands        *)
  imei,      (* [Conns -> ImeiOrNone], its local imei                      *)
  open,      (* [Conns -> BOOLEAN], conn.Close not called yet              *)
  other,     (* [Conns -> ConnOrNone], otherClient found by LoadOrStore    *)
  packet,    (* [Conns -> Packet], res.Packet, the packet just decoded     *)
  sent,      (* [Conns -> SUBSET Requests], commands written to the socket *)
  answered,  (* SUBSET Requests, commands whose tracker replied            *)
  clients,   (* [Imeis -> ConnOrNone], TCPServer.clients                   *)
  client     (* [Requests -> ConnOrNone], SendPacket's local client        *)

tcpVars == <<pc, imei, open, other, packet, sent, answered, clients, client>>

ConnState == {"listening", "handshake", "register", "evict", "store", "greet",
              "loop", "read", "onpacket", "onclose", "deregister", "close",
              "done"}

(* What the server tells apart in a decoded packet: AVL data, which is     *)
(* acknowledged, or a command-codec message, which may answer a command.   *)
Packet == [kind : {"none", "data", "message"}, answers : ReqOrNone]

NoPacket   == [kind |-> "none", answers |-> NoReq]
DataPacket == [kind |-> "data", answers |-> NoReq]
MessagePacket(r) == [kind |-> "message", answers |-> r]

(* A connection may be listed in clients between its store into it and its *)
(* own Delete.                                                             *)
Registered == {"greet", "loop", "read", "onpacket", "onclose", "deregister"}

(* Every variable has its type, and a connection past the handshake has an *)
(* IMEI: the empty one is refused before it can become a key.              *)
TCPTypeOK ==
  /\ pc \in [Conns -> ConnState]
  /\ imei \in [Conns -> ImeiOrNone]
  /\ open \in [Conns -> BOOLEAN]
  /\ other \in [Conns -> ConnOrNone]
  /\ packet \in [Conns -> Packet]
  /\ sent \in [Conns -> SUBSET Requests]
  /\ answered \in SUBSET Requests
  /\ clients \in [Imeis -> ConnOrNone]
  /\ client \in [Requests -> ConnOrNone]
  /\ \A c \in Conns :
       pc[c] \in Registered \cup {"register", "evict", "store"} => imei[c] # NoImei

TCPInit ==
  /\ pc = [c \in Conns |-> "listening"]
  /\ imei = [c \in Conns |-> NoImei]
  /\ open = [c \in Conns |-> FALSE]
  /\ other = [c \in Conns |-> NoConn]
  /\ packet = [c \in Conns |-> NoPacket]
  /\ sent = [c \in Conns |-> {}]
  /\ answered = {}
  /\ clients = [i \in Imeis |-> NoConn]
  /\ client = [r \in Requests |-> NoConn]

Goto(c, from, to) ==
  /\ pc[c] = from
  /\ pc' = [pc EXCEPT ![c] = to]
-----------------------------------------------------------------------------
(***************************************************************************)
(* handleConnection up to the read loop.                                   *)
(***************************************************************************)

(* Run: listener.Accept returned conn and a goroutine was started for it.  *)
Accept(c) ==
  /\ Goto(c, "listening", "handshake")
  /\ open' = [open EXCEPT ![c] = TRUE]
  /\ UNCHANGED <<imei, other, packet, sent, answered, clients, client>>

(* Mutant: a blank IMEI is not refused.                                    *)
ReadBlankImei(c) ==
  /\ Goto(c, "handshake", "register")
  /\ UNCHANGED <<imei, open, other, packet, sent, answered, clients, client>>

(* The two-byte length and the IMEI arrived, each in a single Read.        *)
ReadImei(c) == \E i \in Imeis :
  /\ Goto(c, "handshake", "register")
  /\ imei' = [imei EXCEPT ![c] = i]
  /\ UNCHANGED <<open, other, packet, sent, answered, clients, client>>

(* Read error, short read, oversized or blank IMEI.  imei is still empty,  *)
(* so the deferred function goes straight to conn.Close.                   *)
HandshakeFail(c) ==
  /\ Goto(c, "handshake", "close")
  /\ UNCHANGED <<imei, open, other, packet, sent, answered, clients, client>>

(* Mutant: Load for LoadOrStore, so that a first connection is not stored. *)
LoadOnly(c) ==
  /\ \/ Goto(c, "register", "greet") /\ clients[imei[c]] = NoConn /\ UNCHANGED other
     \/ /\ Goto(c, "register", "evict")
        /\ clients[imei[c]] # NoConn
        /\ other' = [other EXCEPT ![c] = clients[imei[c]]]
  /\ UNCHANGED <<imei, open, packet, sent, answered, clients, client>>

(* Mutant: the connection to evict is looked up under another key.         *)
LoadOrStoreAnyKey(c) ==
  /\ \/ /\ Goto(c, "register", "greet")
        /\ clients[imei[c]] = NoConn
        /\ clients' = [clients EXCEPT ![imei[c]] = c]
        /\ UNCHANGED other
     \/ \E i \in Imeis :
        /\ Goto(c, "register", "evict")
        /\ clients[i] # NoConn
        /\ other' = [other EXCEPT ![c] = clients[i]]
        /\ UNCHANGED clients
  /\ UNCHANGED <<imei, open, packet, sent, answered, client>>

LoadOrStore(c) ==
  /\ \/ /\ Goto(c, "register", "greet")
        /\ clients[imei[c]] = NoConn
        /\ clients' = [clients EXCEPT ![imei[c]] = c]
        /\ UNCHANGED other
     \/ /\ Goto(c, "register", "evict")
        /\ clients[imei[c]] # NoConn
        /\ other' = [other EXCEPT ![c] = clients[imei[c]]]
        /\ UNCHANGED clients
  /\ UNCHANGED <<imei, open, packet, sent, answered, client>>

(* Mutant: the other connection is replaced in the map and left open.      *)
LeaveOther(c) ==
  /\ Goto(c, "evict", "store")
  /\ UNCHANGED <<imei, open, other, packet, sent, answered, clients, client>>

(* otherClient.conn.Close(), closed already or not.                        *)
CloseOther(c) ==
  /\ Goto(c, "evict", "store")
  /\ open' = [open EXCEPT ![other[c]] = FALSE]
  /\ UNCHANGED <<imei, other, packet, sent, answered, clients, client>>

StoreSelf(c) ==
  /\ Goto(c, "store", "greet")
  /\ clients' = [clients EXCEPT ![imei[c]] = c]
  /\ UNCHANGED <<imei, open, other, packet, sent, answered, client>>

Greet(c) ==
  /\ open[c]
  /\ Goto(c, "greet", "loop")
  /\ UNCHANGED <<imei, open, other, packet, sent, answered, clients, client>>

(* SetWriteDeadline or Write failed: closed here, or lost by the peer.     *)
GreetFail(c) ==
  /\ Goto(c, "greet", "onclose")
  /\ UNCHANGED <<imei, open, other, packet, sent, answered, clients, client>>
-----------------------------------------------------------------------------
(***************************************************************************)
(* The read loop.                                                          *)
(***************************************************************************)

(* updateReadDeadline, which fails on a closed socket only.                *)
SetReadDeadline(c) ==
  /\ \/ open[c] /\ Goto(c, "loop", "read")
     \/ ~open[c] /\ Goto(c, "loop", "onclose")
  /\ UNCHANGED <<imei, open, other, packet, sent, answered, clients, client>>

(* A ping, or a packet with no message in it: nothing is answered and      *)
(* nobody is told.                                                         *)
ReadPing(c) ==
  /\ Goto(c, "read", "loop")
  /\ UNCHANGED <<imei, open, other, packet, sent, answered, clients, client>>

(* AVL data was decoded and its acknowledgement written.                   *)
ReadData(c) ==
  /\ open[c]
  /\ Goto(c, "read", "onpacket")
  /\ packet' = [packet EXCEPT ![c] = DataPacket]
  /\ UNCHANGED <<imei, open, other, sent, answered, clients, client>>

(* A message was decoded: the reply to a command this tracker received and *)
(* has not answered yet, or one it sends of its own accord.  Its bytes may *)
(* be in the bufio.Reader already when the socket is closed.               *)
ReadMessage(c) == \E r \in (sent[c] \ answered) \cup {NoReq} :
  /\ Goto(c, "read", "onpacket")
  /\ packet' = [packet EXCEPT ![c] = MessagePacket(r)]
  /\ answered' = answered \cup ({r} \ {NoReq})
  /\ UNCHANGED <<imei, open, other, sent, clients, client>>

(* EOF, read timeout, closed socket, undecodable packet, or the            *)
(* acknowledgement could not be written.                                   *)
ReadFail(c) ==
  /\ Goto(c, "read", "onclose")
  /\ UNCHANGED <<imei, open, other, packet, sent, answered, clients, client>>

(* OnPacket is nil, or has returned.                                       *)
OnPacketReturn(c) ==
  /\ Goto(c, "onpacket", "loop")
  /\ packet' = [packet EXCEPT ![c] = NoPacket]
  /\ UNCHANGED <<imei, open, other, sent, answered, clients, client>>
-----------------------------------------------------------------------------
(***************************************************************************)
(* The deferred function of handleConnection: OnClose, Delete, Close.      *)
(***************************************************************************)
OnCloseReturn(c) ==
  /\ Goto(c, "onclose", "deregister")
  /\ UNCHANGED <<imei, open, other, packet, sent, answered, clients, client>>

(* Mutant: the deferred function does not delete.                          *)
LeaveRegistered(c) ==
  /\ Goto(c, "deregister", "close")
  /\ UNCHANGED <<imei, open, other, packet, sent, answered, clients, client>>

(* clients.Delete(imei), whichever connection is registered under it.      *)
Deregister(c) ==
  /\ Goto(c, "deregister", "close")
  /\ clients' = [clients EXCEPT ![imei[c]] = NoConn]
  /\ UNCHANGED <<imei, open, other, packet, sent, answered, client>>

Close(c) ==
  /\ Goto(c, "close", "done")
  /\ open' = [open EXCEPT ![c] = FALSE]
  /\ UNCHANGED <<imei, other, packet, sent, answered, clients, client>>
-----------------------------------------------------------------------------
(***************************************************************************)
(* SendPacket(imei, packet), run by the goroutine of request r.            *)
(***************************************************************************)
SendNotFound(r, i) ==
  /\ client[r] = NoConn
  /\ clients[i] = NoConn
  /\ UNCHANGED tcpVars

(* Mutant: the IMEI of the request is not used as the key.                 *)
SendLookupAnyKey(r, i) == \E j \in Imeis :
  /\ client[r] = NoConn
  /\ clients[j] # NoConn
  /\ client' = [client EXCEPT ![r] = clients[j]]
  /\ UNCHANGED <<pc, imei, open, other, packet, sent, answered, clients>>

SendLookup(r, i) ==
  /\ client[r] = NoConn
  /\ clients[i] # NoConn
  /\ client' = [client EXCEPT ![r] = clients[i]]
  /\ UNCHANGED <<pc, imei, open, other, packet, sent, answered, clients>>

SendWrite(r) ==
  /\ client[r] # NoConn
  /\ open[client[r]]
  /\ sent' = [sent EXCEPT ![client[r]] = @ \cup {r}]
  /\ client' = [client EXCEPT ![r] = NoConn]
  /\ UNCHANGED <<pc, imei, open, other, packet, answered, clients>>

(* Write failed: closed here, lost by the peer, or past the deadline the   *)
(* last response left on the socket.                                       *)
SendWriteFail(r) ==
  /\ client[r] # NoConn
  /\ client' = [client EXCEPT ![r] = NoConn]
  /\ UNCHANGED <<pc, imei, open, other, packet, sent, answered, clients>>
-----------------------------------------------------------------------------
(* The parts of handleConnection: up to the loop, the loop, the deferred   *)
(* function without its callback.                                          *)
Establish(c) ==
  \/ ReadImei(c) \/ HandshakeFail(c) \/ LoadOrStore(c) \/ CloseOther(c)
  \/ StoreSelf(c) \/ Greet(c) \/ GreetFail(c)
Serve(c) ==
  SetReadDeadline(c) \/ ReadPing(c) \/ ReadData(c) \/ ReadMessage(c) \/ ReadFail(c)
Teardown(c) == Deregister(c) \/ Close(c)

(* SendPacket is called with any IMEI, at any time.                        *)
Send(r) ==
  \/ \E i \in Imeis : SendLookup(r, i) \/ SendNotFound(r, i)
  \/ SendWrite(r) \/ SendWriteFail(r)

TCPNext ==
  \/ \E c \in Conns : \/ Accept(c) \/ Establish(c) \/ Serve(c) \/ Teardown(c)
                      \/ OnPacketReturn(c) \/ OnCloseReturn(c)
  \/ \E r \in Requests : Send(r)

(***************************************************************************)
(* The Go scheduler runs every runnable goroutine, and every Read and      *)
(* Write of handleConnection has a deadline, so a goroutine that has been  *)
(* accepted never stops; whether a connection arrives at all is up to the  *)
(* trackers.                                                               *)
(***************************************************************************)
TCPFairness ==
  \A c \in Conns :
    WF_tcpVars(\/ Establish(c) \/ Serve(c) \/ Teardown(c)
               \/ OnPacketReturn(c) \/ OnCloseReturn(c))

TCPSpec == TCPInit /\ [][TCPNext]_tcpVars /\ TCPFairness
-----------------------------------------------------------------------------
(***************************************************************************)
(* Properties.                                                             *)
(***************************************************************************)

(* The registry never dangles: a connection SendPacket can find announced  *)
(* that very IMEI and has not finished its deferred function, whatever     *)
(* newcomers and leavers of the same IMEI stored and deleted in between.   *)
NoStaleRegistration ==
  \A i \in Imeis : \A c \in Conns :
    clients[i] = c => imei[c] = i /\ pc[c] \in Registered

(* A tracker nobody else impersonates stays reachable: as long as no other *)
(* connection announced its IMEI, a connection past LoadOrStore and not    *)
(* yet leaving is the one registered.                                      *)
SoleConnectionIsListed ==
  \A c \in Conns :
    /\ pc[c] \in Registered
    /\ \A d \in Conns \ {c} : imei[d] # imei[c]
    => clients[imei[c]] = c

(* LoadOrStore is atomic, so of two connections that race to register the  *)
(* same IMEI one always evicts the other: two of them are served at the    *)
(* same time only if a third one took part.                                *)
TwoRivalsNeverBothServed ==
  \A c, d \in Conns :
    /\ c # d /\ imei[c] = imei[d]
    /\ open[c] /\ open[d]
    /\ pc[c] \in Registered \ {"onclose", "deregister"}
    /\ pc[d] \in Registered \ {"onclose", "deregister"}
    => \E e \in Conns \ {c, d} : imei[e] = imei[c]

(* A socket is closed by its own goroutine or by a newcomer that announced *)
(* the same IMEI; no step closes the connection of another tracker.        *)
OnlyRivalsEvict ==
  [][\A c \in Conns :
       open[c] /\ ~open'[c] =>
         \/ pc[c] = "close"
         \/ \E d \in Conns \ {c} : pc[d] = "evict" /\ imei[d] = imei[c]]_tcpVars

(* What the examples promise of /list-clients: while no goroutine of the   *)
(* same IMEI is registering or leaving, a tracker being served is listed.  *)
ServedTrackerIsListed ==
  \A c \in Conns :
    /\ pc[c] \in {"loop", "read"} /\ open[c]
    /\ \A d \in Conns \ {c} :
         imei[d] = imei[c] => pc[d] \in {"loop", "read", "close", "done"}
    => clients[imei[c]] # NoConn
=============================================================================

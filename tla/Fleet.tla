------------------------------- MODULE Fleet -------------------------------
(***************************************************************************)
(* The identities the server's two halves share: the accepted TCP          *)
(* connections (one handleConnection goroutine each), the HTTP /cmd        *)
(* requests (one handleCmd goroutine each) and the trackers' IMEIs, which  *)
(* are the keys of both sync.Maps.                                         *)
(***************************************************************************)
CONSTANTS
  Conns,     (* TCP connections the listener may accept; each used once    *)
  Requests,  (* HTTP /cmd requests; each used once                         *)
  Imeis,     (* IMEIs the trackers announce and the requests name          *)
  NoConn,    (* absent: a key missing from TCPServer.clients               *)
  NoReq,     (* absent: a key missing from HTTPServer.respChan             *)
  NoImei     (* the empty string imei is initialised with                  *)

ASSUME FleetAssumption ==
  /\ NoConn \notin Conns
  /\ NoReq \notin Requests
  /\ NoImei \notin Imeis

ConnOrNone == Conns \cup {NoConn}
ReqOrNone  == Requests \cup {NoReq}
ImeiOrNone == Imeis \cup {NoImei}
=============================================================================

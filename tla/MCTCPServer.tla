---------------------------- MODULE MCTCPServer ----------------------------
(* The registry on its own: connections of one IMEI, so that their         *)
(* registrations, evictions and departures overlap.                        *)
EXTENDS TCPServer
=============================================================================

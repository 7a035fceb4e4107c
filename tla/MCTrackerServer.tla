--------------------------- MODULE MCTrackerServer ---------------------------
(* The wired server: few trackers, connections that share an IMEI.         *)
EXTENDS TrackerServer, TLC

(* Connections are interchangeable, and so are requests and IMEIs.         *)
Symmetry == Permutations(Conns) \cup Permutations(Requests) \cup Permutations(Imeis)
=============================================================================

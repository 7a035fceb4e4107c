---------------------------- MODULE MCUDPServer ----------------------------
(* One frame of each kind, of which two come twice: retransmitted data,    *)
(* and enough malformed frames to occupy every worker.                     *)
EXTENDS UDPServer

CONSTANTS data, empty, command, malformed, short

OneOfEach ==
  [f \in Frames |->
     CASE f = data -> "data" [] f = empty -> "empty" [] f = command -> "command"
       [] f = malformed -> "malformed" [] f = short -> "short"]

SomeTwice == [f \in Frames |-> IF f \in {data, malformed} THEN 2 ELSE 1]
=============================================================================
